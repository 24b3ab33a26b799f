------------------------ MODULE SyncObjects_proofs -----------------------
(***************************************************************************)
(* Proofs about SyncObjects, for any number of tasks, priorities and       *)
(* nested interrupts, and any capacity of the objects: however waits end,  *)
(* queues and task states stay consistent, and no task waits for what is   *)
(* there.  An object has to know of the others only that no task comes to  *)
(* wait in its queues but by its own services.                             *)
(***************************************************************************)
EXTENDS SyncObjects, SyncKernel_proofs

(* The invariant of the kernel, with what the objects keep in a WINFO.     *)
WINFO == {NULL} \cup Data \cup Item \cup FLG!Condition

Sound == SoundAt(WINFO, kernel, excpt_nest_count, p_runtsk)

LEMMA NullWinfo == NULL \in WINFO
BY DEF WINFO

LEMMA SoundHere ==
  /\ SoundNow(WINFO) <=> Sound
  /\ SoundNext(WINFO) <=> Sound'
<1>1. WINFO' = WINFO
  BY DEF WINFO
<1> QED BY <1>1 DEF SoundNow, SoundNext, Sound, SoundAt

LEMMA Running ==
  ASSUME Sound, TaskContext
  PROVE  p_runtsk \in Task /\ TSTAT_RUNNABLE(kernel.tcb[p_runtsk].tstat)
BY NullWinfo, SoundHere, KernelRunning

LEMMA Dispatched ==
  ASSUME Sound, NEW k, Tidy(k, WINFO, {}), Dispatch(k)
  PROVE  Sound' /\ Leaves(k, kernel')
BY NullWinfo, SoundHere, KernelDispatched

LEMMA NothingDone ==
  ASSUME Sound, UNCHANGED taskVars
  PROVE  Sound' /\ Leaves(kernel, kernel')
BY NullWinfo, SoundHere, KernelIdle

LEMMA ServeStep ==
  ASSUME Sound, NEW w \in WaitQueue, kernel.wait_queue[w] # << >>,
         Dispatch(Served(kernel, w))
  PROVE  Sound' /\ Leaves(kernel, kernel')
BY NullWinfo, SoundHere, KernelServes

LEMMA ReleaseStep ==
  ASSUME Sound, NEW w \in WaitQueue, Dispatch(init_wait_queue(kernel, w))
  PROVE  Sound' /\ Leaves(kernel, kernel') /\ NobodyWaits(kernel', w)
BY NullWinfo, SoundHere, KernelReleases

LEMMA ReleaseAllStep ==
  ASSUME Sound, NEW v \in WaitQueue, NEW w \in WaitQueue,
         Dispatch(init_wait_queue(init_wait_queue(kernel, v), w))
  PROVE  /\ Sound' /\ Leaves(kernel, kernel')
         /\ NobodyWaits(kernel', v) /\ NobodyWaits(kernel', w)
BY NullWinfo, SoundHere, KernelReleasesAll

LEMMA WaitStep ==
  ASSUME Sound, TaskContext, NEW w \in WaitQueue, NEW s \in States, TSTAT_WAITING(s),
         w \in TPRI => TSTAT_WAIT_WOBJCB(s),
         NEW info \in WINFO, NEW timed \in BOOLEAN, wobj_wait(w, s, info, timed)
  PROVE  Sound' /\ Joins(kernel, kernel', p_runtsk, w, info) /\ p_runtsk \in Task
BY NullWinfo, SoundHere, KernelWaits

LEMMA TaskStep ==
  ASSUME Sound, TaskNext
  PROVE  Sound' /\ Leaves(kernel, kernel')
BY NullWinfo, SoundHere, KernelTasks

LEMMA InitSound ==
  ASSUME TaskInit
  PROVE  Sound /\ \A w \in WaitQueue : NobodyWaits(kernel, w)
BY NullWinfo, SoundHere, KernelInit

--------------------------------------------------------------------------
(* Every object's module extends SyncKernel: what it has of it is the      *)
(* kernel's.                                                               *)
LEMMA SemKernel ==
  /\ SEM!TaskContext <=> TaskContext
  /\ SEM!AnyContext <=> AnyContext
  /\ (UNCHANGED SEM!taskVars <=> UNCHANGED taskVars)
  /\ SEM!TS_WAITING_SEM = TS_WAITING_SEM
  /\ \A k : SEM!Dispatch(k) <=> Dispatch(k)
  /\ \A k, t : SEM!wait_complete(k, t) = wait_complete(k, t)
  /\ \A k, w : SEM!init_wait_queue(k, w) = init_wait_queue(k, w)
  /\ \A w, s, info, timed : SEM!wobj_wait(w, s, info, timed) <=> wobj_wait(w, s, info, timed)
<1>1. /\ SEM!TaskContext <=> TaskContext
      /\ SEM!AnyContext <=> AnyContext
      /\ (UNCHANGED SEM!taskVars <=> UNCHANGED taskVars)
      /\ SEM!TS_WAITING_SEM = TS_WAITING_SEM
  BY DEF TaskContext, SEM!TaskContext, AnyContext, SEM!AnyContext,
         sense_context, SEM!sense_context, taskVars, SEM!taskVars,
         TS_WAITING_SEM, SEM!TS_WAITING_SEM
<1>2. \A s : SEM!TSTAT_WAITING(s) <=> TSTAT_WAITING(s)
  BY DEF TSTAT_WAITING, WaitFactor, WobjFactor, WobjcbFactor,
         SEM!TSTAT_WAITING, SEM!WaitFactor, SEM!WobjFactor, SEM!WobjcbFactor
<1>3. ASSUME NEW k PROVE SEM!Dispatch(k) <=> Dispatch(k)
  BY <1>2 DEF Dispatch, SEM!Dispatch, EndWinfo, SEM!EndWinfo,
              sense_context, SEM!sense_context
<1>4. ASSUME NEW k, NEW t PROVE SEM!wait_complete(k, t) = wait_complete(k, t)
  BY DEF wait_complete, SEM!wait_complete, make_non_wait, SEM!make_non_wait,
         set_wercd, SEM!set_wercd, wait_dequeue_tmevtb, SEM!wait_dequeue_tmevtb,
         set_tstat, SEM!set_tstat, make_runnable, SEM!make_runnable,
         TSTAT_SUSPENDED, SEM!TSTAT_SUSPENDED, TS_SUSPENDED, SEM!TS_SUSPENDED,
         TS_RUNNABLE, SEM!TS_RUNNABLE, TSTAT_WAITING, WaitFactor, WobjFactor, WobjcbFactor,
         SEM!TSTAT_WAITING, SEM!WaitFactor, SEM!WobjFactor, SEM!WobjcbFactor
<1>5. ASSUME NEW k, NEW w PROVE SEM!init_wait_queue(k, w) = init_wait_queue(k, w)
  BY <1>4 DEF init_wait_queue, SEM!init_wait_queue
<1>6. ASSUME NEW k, NEW t PROVE SEM!make_non_runnable(k, t) = make_non_runnable(k, t)
  BY DEF make_non_runnable, SEM!make_non_runnable, search_schedtsk, SEM!search_schedtsk,
         primap_search, SEM!primap_search, RemoveFirst, SEM!RemoveFirst,
         RemoveAt, SEM!RemoveAt, SelectInSeq, SEM!SelectInSeq, Min, SEM!Min
<1>7. ASSUME NEW k, NEW q, NEW t PROVE SEM!queue_insert_tpri(k, q, t) = queue_insert_tpri(k, q, t)
  BY DEF queue_insert_tpri, SEM!queue_insert_tpri,
         SelectInSeq, SEM!SelectInSeq, Min, SEM!Min, InsertAt, SEM!InsertAt
<1>8. ASSUME NEW k, NEW t, NEW s, NEW timed
      PROVE  SEM!make_wait_tmout(k, t, s, timed) = make_wait_tmout(k, t, s, timed)
  BY <1>6 DEF make_wait_tmout, SEM!make_wait_tmout, set_tstat, SEM!set_tstat
<1>9. ASSUME NEW k, NEW w, NEW t, NEW s, NEW timed
      PROVE  SEM!wobj_make_wait_tmout(k, w, t, s, timed) = wobj_make_wait_tmout(k, w, t, s, timed)
  BY <1>7, <1>8 DEF wobj_make_wait_tmout, SEM!wobj_make_wait_tmout
<1>10. ASSUME NEW w, NEW s, NEW info, NEW timed
       PROVE  SEM!wobj_wait(w, s, info, timed) <=> wobj_wait(w, s, info, timed)
  BY <1>3, <1>9 DEF wobj_wait, SEM!wobj_wait
<1> QED BY <1>1, <1>3, <1>4, <1>5, <1>10

LEMMA FlgKernel ==
  /\ FLG!TaskContext <=> TaskContext
  /\ FLG!AnyContext <=> AnyContext
  /\ (UNCHANGED FLG!taskVars <=> UNCHANGED taskVars)
  /\ FLG!TS_WAITING_FLG = TS_WAITING_FLG
  /\ \A k : FLG!Dispatch(k) <=> Dispatch(k)
  /\ \A k, t : FLG!wait_complete(k, t) = wait_complete(k, t)
  /\ \A k, w : FLG!init_wait_queue(k, w) = init_wait_queue(k, w)
  /\ \A w, s, info, timed : FLG!wobj_wait(w, s, info, timed) <=> wobj_wait(w, s, info, timed)
<1>1. /\ FLG!TaskContext <=> TaskContext
      /\ FLG!AnyContext <=> AnyContext
      /\ (UNCHANGED FLG!taskVars <=> UNCHANGED taskVars)
      /\ FLG!TS_WAITING_FLG = TS_WAITING_FLG
  BY DEF TaskContext, FLG!TaskContext, AnyContext, FLG!AnyContext,
         sense_context, FLG!sense_context, taskVars, FLG!taskVars,
         TS_WAITING_FLG, FLG!TS_WAITING_FLG
<1>2. \A s : FLG!TSTAT_WAITING(s) <=> TSTAT_WAITING(s)
  BY DEF TSTAT_WAITING, WaitFactor, WobjFactor, WobjcbFactor,
         FLG!TSTAT_WAITING, FLG!WaitFactor, FLG!WobjFactor, FLG!WobjcbFactor
<1>3. ASSUME NEW k PROVE FLG!Dispatch(k) <=> Dispatch(k)
  BY <1>2 DEF Dispatch, FLG!Dispatch, EndWinfo, FLG!EndWinfo,
              sense_context, FLG!sense_context
<1>4. ASSUME NEW k, NEW t PROVE FLG!wait_complete(k, t) = wait_complete(k, t)
  BY DEF wait_complete, FLG!wait_complete, make_non_wait, FLG!make_non_wait,
         set_wercd, FLG!set_wercd, wait_dequeue_tmevtb, FLG!wait_dequeue_tmevtb,
         set_tstat, FLG!set_tstat, make_runnable, FLG!make_runnable,
         TSTAT_SUSPENDED, FLG!TSTAT_SUSPENDED, TS_SUSPENDED, FLG!TS_SUSPENDED,
         TS_RUNNABLE, FLG!TS_RUNNABLE, TSTAT_WAITING, WaitFactor, WobjFactor, WobjcbFactor,
         FLG!TSTAT_WAITING, FLG!WaitFactor, FLG!WobjFactor, FLG!WobjcbFactor
<1>5. ASSUME NEW k, NEW w PROVE FLG!init_wait_queue(k, w) = init_wait_queue(k, w)
  BY <1>4 DEF init_wait_queue, FLG!init_wait_queue
<1>6. ASSUME NEW k, NEW t PROVE FLG!make_non_runnable(k, t) = make_non_runnable(k, t)
  BY DEF make_non_runnable, FLG!make_non_runnable, search_schedtsk, FLG!search_schedtsk,
         primap_search, FLG!primap_search, RemoveFirst, FLG!RemoveFirst,
         RemoveAt, FLG!RemoveAt, SelectInSeq, FLG!SelectInSeq, Min, FLG!Min
<1>7. ASSUME NEW k, NEW q, NEW t PROVE FLG!queue_insert_tpri(k, q, t) = queue_insert_tpri(k, q, t)
  BY DEF queue_insert_tpri, FLG!queue_insert_tpri,
         SelectInSeq, FLG!SelectInSeq, Min, FLG!Min, InsertAt, FLG!InsertAt
<1>8. ASSUME NEW k, NEW t, NEW s, NEW timed
      PROVE  FLG!make_wait_tmout(k, t, s, timed) = make_wait_tmout(k, t, s, timed)
  BY <1>6 DEF make_wait_tmout, FLG!make_wait_tmout, set_tstat, FLG!set_tstat
<1>9. ASSUME NEW k, NEW w, NEW t, NEW s, NEW timed
      PROVE  FLG!wobj_make_wait_tmout(k, w, t, s, timed) = wobj_make_wait_tmout(k, w, t, s, timed)
  BY <1>7, <1>8 DEF wobj_make_wait_tmout, FLG!wobj_make_wait_tmout
<1>10. ASSUME NEW w, NEW s, NEW info, NEW timed
       PROVE  FLG!wobj_wait(w, s, info, timed) <=> wobj_wait(w, s, info, timed)
  BY <1>3, <1>9 DEF wobj_wait, FLG!wobj_wait
<1> QED BY <1>1, <1>3, <1>4, <1>5, <1>10

LEMMA MpfKernel ==
  /\ MPF!TaskContext <=> TaskContext
  /\ MPF!AnyContext <=> AnyContext
  /\ (UNCHANGED MPF!taskVars <=> UNCHANGED taskVars)
  /\ MPF!TS_WAITING_MPF = TS_WAITING_MPF
  /\ \A k : MPF!Dispatch(k) <=> Dispatch(k)
  /\ \A k, t : MPF!wait_complete(k, t) = wait_complete(k, t)
  /\ \A k, w : MPF!init_wait_queue(k, w) = init_wait_queue(k, w)
  /\ \A w, s, info, timed : MPF!wobj_wait(w, s, info, timed) <=> wobj_wait(w, s, info, timed)
<1>1. /\ MPF!TaskContext <=> TaskContext
      /\ MPF!AnyContext <=> AnyContext
      /\ (UNCHANGED MPF!taskVars <=> UNCHANGED taskVars)
      /\ MPF!TS_WAITING_MPF = TS_WAITING_MPF
  BY DEF TaskContext, MPF!TaskContext, AnyContext, MPF!AnyContext,
         sense_context, MPF!sense_context, taskVars, MPF!taskVars,
         TS_WAITING_MPF, MPF!TS_WAITING_MPF
<1>2. \A s : MPF!TSTAT_WAITING(s) <=> TSTAT_WAITING(s)
  BY DEF TSTAT_WAITING, WaitFactor, WobjFactor, WobjcbFactor,
         MPF!TSTAT_WAITING, MPF!WaitFactor, MPF!WobjFactor, MPF!WobjcbFactor
<1>3. ASSUME NEW k PROVE MPF!Dispatch(k) <=> Dispatch(k)
  BY <1>2 DEF Dispatch, MPF!Dispatch, EndWinfo, MPF!EndWinfo,
              sense_context, MPF!sense_context
<1>4. ASSUME NEW k, NEW t PROVE MPF!wait_complete(k, t) = wait_complete(k, t)
  BY DEF wait_complete, MPF!wait_complete, make_non_wait, MPF!make_non_wait,
         set_wercd, MPF!set_wercd, wait_dequeue_tmevtb, MPF!wait_dequeue_tmevtb,
         set_tstat, MPF!set_tstat, make_runnable, MPF!make_runnable,
         TSTAT_SUSPENDED, MPF!TSTAT_SUSPENDED, TS_SUSPENDED, MPF!TS_SUSPENDED,
         TS_RUNNABLE, MPF!TS_RUNNABLE, TSTAT_WAITING, WaitFactor, WobjFactor, WobjcbFactor,
         MPF!TSTAT_WAITING, MPF!WaitFactor, MPF!WobjFactor, MPF!WobjcbFactor
<1>5. ASSUME NEW k, NEW w PROVE MPF!init_wait_queue(k, w) = init_wait_queue(k, w)
  BY <1>4 DEF init_wait_queue, MPF!init_wait_queue
<1>6. ASSUME NEW k, NEW t PROVE MPF!make_non_runnable(k, t) = make_non_runnable(k, t)
  BY DEF make_non_runnable, MPF!make_non_runnable, search_schedtsk, MPF!search_schedtsk,
         primap_search, MPF!primap_search, RemoveFirst, MPF!RemoveFirst,
         RemoveAt, MPF!RemoveAt, SelectInSeq, MPF!SelectInSeq, Min, MPF!Min
<1>7. ASSUME NEW k, NEW q, NEW t PROVE MPF!queue_insert_tpri(k, q, t) = queue_insert_tpri(k, q, t)
  BY DEF queue_insert_tpri, MPF!queue_insert_tpri,
         SelectInSeq, MPF!SelectInSeq, Min, MPF!Min, InsertAt, MPF!InsertAt
<1>8. ASSUME NEW k, NEW t, NEW s, NEW timed
      PROVE  MPF!make_wait_tmout(k, t, s, timed) = make_wait_tmout(k, t, s, timed)
  BY <1>6 DEF make_wait_tmout, MPF!make_wait_tmout, set_tstat, MPF!set_tstat
<1>9. ASSUME NEW k, NEW w, NEW t, NEW s, NEW timed
      PROVE  MPF!wobj_make_wait_tmout(k, w, t, s, timed) = wobj_make_wait_tmout(k, w, t, s, timed)
  BY <1>7, <1>8 DEF wobj_make_wait_tmout, MPF!wobj_make_wait_tmout
<1>10. ASSUME NEW w, NEW s, NEW info, NEW timed
       PROVE  MPF!wobj_wait(w, s, info, timed) <=> wobj_wait(w, s, info, timed)
  BY <1>3, <1>9 DEF wobj_wait, MPF!wobj_wait
<1> QED BY <1>1, <1>3, <1>4, <1>5, <1>10

LEMMA DtqKernel ==
  /\ DTQ!TaskContext <=> TaskContext
  /\ DTQ!AnyContext <=> AnyContext
  /\ (UNCHANGED DTQ!taskVars <=> UNCHANGED taskVars)
  /\ DTQ!TS_WAITING_SDTQ = TS_WAITING_SDTQ
  /\ DTQ!TS_WAITING_RDTQ = TS_WAITING_RDTQ
  /\ \A k : DTQ!Dispatch(k) <=> Dispatch(k)
  /\ \A k, t : DTQ!wait_complete(k, t) = wait_complete(k, t)
  /\ \A k, w : DTQ!init_wait_queue(k, w) = init_wait_queue(k, w)
  /\ \A w, s, info, timed : DTQ!wobj_wait(w, s, info, timed) <=> wobj_wait(w, s, info, timed)
<1>1. /\ DTQ!TaskContext <=> TaskContext
      /\ DTQ!AnyContext <=> AnyContext
      /\ (UNCHANGED DTQ!taskVars <=> UNCHANGED taskVars)
      /\ DTQ!TS_WAITING_SDTQ = TS_WAITING_SDTQ
      /\ DTQ!TS_WAITING_RDTQ = TS_WAITING_RDTQ
  BY DEF TaskContext, DTQ!TaskContext, AnyContext, DTQ!AnyContext,
         sense_context, DTQ!sense_context, taskVars, DTQ!taskVars,
         TS_WAITING_SDTQ, DTQ!TS_WAITING_SDTQ, TS_WAITING_RDTQ, DTQ!TS_WAITING_RDTQ
<1>2. \A s : DTQ!TSTAT_WAITING(s) <=> TSTAT_WAITING(s)
  BY DEF TSTAT_WAITING, WaitFactor, WobjFactor, WobjcbFactor,
         DTQ!TSTAT_WAITING, DTQ!WaitFactor, DTQ!WobjFactor, DTQ!WobjcbFactor
<1>3. ASSUME NEW k PROVE DTQ!Dispatch(k) <=> Dispatch(k)
  BY <1>2 DEF Dispatch, DTQ!Dispatch, EndWinfo, DTQ!EndWinfo,
              sense_context, DTQ!sense_context
<1>4. ASSUME NEW k, NEW t PROVE DTQ!wait_complete(k, t) = wait_complete(k, t)
  BY DEF wait_complete, DTQ!wait_complete, make_non_wait, DTQ!make_non_wait,
         set_wercd, DTQ!set_wercd, wait_dequeue_tmevtb, DTQ!wait_dequeue_tmevtb,
         set_tstat, DTQ!set_tstat, make_runnable, DTQ!make_runnable,
         TSTAT_SUSPENDED, DTQ!TSTAT_SUSPENDED, TS_SUSPENDED, DTQ!TS_SUSPENDED,
         TS_RUNNABLE, DTQ!TS_RUNNABLE, TSTAT_WAITING, WaitFactor, WobjFactor, WobjcbFactor,
         DTQ!TSTAT_WAITING, DTQ!WaitFactor, DTQ!WobjFactor, DTQ!WobjcbFactor
<1>5. ASSUME NEW k, NEW w PROVE DTQ!init_wait_queue(k, w) = init_wait_queue(k, w)
  BY <1>4 DEF init_wait_queue, DTQ!init_wait_queue
<1>6. ASSUME NEW k, NEW t PROVE DTQ!make_non_runnable(k, t) = make_non_runnable(k, t)
  BY DEF make_non_runnable, DTQ!make_non_runnable, search_schedtsk, DTQ!search_schedtsk,
         primap_search, DTQ!primap_search, RemoveFirst, DTQ!RemoveFirst,
         RemoveAt, DTQ!RemoveAt, SelectInSeq, DTQ!SelectInSeq, Min, DTQ!Min
<1>7. ASSUME NEW k, NEW q, NEW t PROVE DTQ!queue_insert_tpri(k, q, t) = queue_insert_tpri(k, q, t)
  BY DEF queue_insert_tpri, DTQ!queue_insert_tpri,
         SelectInSeq, DTQ!SelectInSeq, Min, DTQ!Min, InsertAt, DTQ!InsertAt
<1>8. ASSUME NEW k, NEW t, NEW s, NEW timed
      PROVE  DTQ!make_wait_tmout(k, t, s, timed) = make_wait_tmout(k, t, s, timed)
  BY <1>6 DEF make_wait_tmout, DTQ!make_wait_tmout, set_tstat, DTQ!set_tstat
<1>9. ASSUME NEW k, NEW w, NEW t, NEW s, NEW timed
      PROVE  DTQ!wobj_make_wait_tmout(k, w, t, s, timed) = wobj_make_wait_tmout(k, w, t, s, timed)
  BY <1>7, <1>8 DEF wobj_make_wait_tmout, DTQ!wobj_make_wait_tmout
<1>10. ASSUME NEW w, NEW s, NEW info, NEW timed
       PROVE  DTQ!wobj_wait(w, s, info, timed) <=> wobj_wait(w, s, info, timed)
  BY <1>3, <1>9 DEF wobj_wait, DTQ!wobj_wait
<1> QED BY <1>1, <1>3, <1>4, <1>5, <1>10

LEMMA PdqKernel ==
  /\ PDQ!TaskContext <=> TaskContext
  /\ PDQ!AnyContext <=> AnyContext
  /\ (UNCHANGED PDQ!taskVars <=> UNCHANGED taskVars)
  /\ PDQ!TS_WAITING_SPDQ = TS_WAITING_SPDQ
  /\ PDQ!TS_WAITING_RPDQ = TS_WAITING_RPDQ
  /\ \A k : PDQ!Dispatch(k) <=> Dispatch(k)
  /\ \A k, t : PDQ!wait_complete(k, t) = wait_complete(k, t)
  /\ \A k, w : PDQ!init_wait_queue(k, w) = init_wait_queue(k, w)
  /\ \A w, s, info, timed : PDQ!wobj_wait(w, s, info, timed) <=> wobj_wait(w, s, info, timed)
<1>1. /\ PDQ!TaskContext <=> TaskContext
      /\ PDQ!AnyContext <=> AnyContext
      /\ (UNCHANGED PDQ!taskVars <=> UNCHANGED taskVars)
      /\ PDQ!TS_WAITING_SPDQ = TS_WAITING_SPDQ
      /\ PDQ!TS_WAITING_RPDQ = TS_WAITING_RPDQ
  BY DEF TaskContext, PDQ!TaskContext, AnyContext, PDQ!AnyContext,
         sense_context, PDQ!sense_context, taskVars, PDQ!taskVars,
         TS_WAITING_SPDQ, PDQ!TS_WAITING_SPDQ, TS_WAITING_RPDQ, PDQ!TS_WAITING_RPDQ
<1>2. \A s : PDQ!TSTAT_WAITING(s) <=> TSTAT_WAITING(s)
  BY DEF TSTAT_WAITING, WaitFactor, WobjFactor, WobjcbFactor,
         PDQ!TSTAT_WAITING, PDQ!WaitFactor, PDQ!WobjFactor, PDQ!WobjcbFactor
<1>3. ASSUME NEW k PROVE PDQ!Dispatch(k) <=> Dispatch(k)
  BY <1>2 DEF Dispatch, PDQ!Dispatch, EndWinfo, PDQ!EndWinfo,
              sense_context, PDQ!sense_context
<1>4. ASSUME NEW k, NEW t PROVE PDQ!wait_complete(k, t) = wait_complete(k, t)
  BY DEF wait_complete, PDQ!wait_complete, make_non_wait, PDQ!make_non_wait,
         set_wercd, PDQ!set_wercd, wait_dequeue_tmevtb, PDQ!wait_dequeue_tmevtb,
         set_tstat, PDQ!set_tstat, make_runnable, PDQ!make_runnable,
         TSTAT_SUSPENDED, PDQ!TSTAT_SUSPENDED, TS_SUSPENDED, PDQ!TS_SUSPENDED,
         TS_RUNNABLE, PDQ!TS_RUNNABLE, TSTAT_WAITING, WaitFactor, WobjFactor, WobjcbFactor,
         PDQ!TSTAT_WAITING, PDQ!WaitFactor, PDQ!WobjFactor, PDQ!WobjcbFactor
<1>5. ASSUME NEW k, NEW w PROVE PDQ!init_wait_queue(k, w) = init_wait_queue(k, w)
  BY <1>4 DEF init_wait_queue, PDQ!init_wait_queue
<1>6. ASSUME NEW k, NEW t PROVE PDQ!make_non_runnable(k, t) = make_non_runnable(k, t)
  BY DEF make_non_runnable, PDQ!make_non_runnable, search_schedtsk, PDQ!search_schedtsk,
         primap_search, PDQ!primap_search, RemoveFirst, PDQ!RemoveFirst,
         RemoveAt, PDQ!RemoveAt, SelectInSeq, PDQ!SelectInSeq, Min, PDQ!Min
<1>7. ASSUME NEW k, NEW q, NEW t PROVE PDQ!queue_insert_tpri(k, q, t) = queue_insert_tpri(k, q, t)
  BY DEF queue_insert_tpri, PDQ!queue_insert_tpri,
         SelectInSeq, PDQ!SelectInSeq, Min, PDQ!Min, InsertAt, PDQ!InsertAt
<1>8. ASSUME NEW k, NEW t, NEW s, NEW timed
      PROVE  PDQ!make_wait_tmout(k, t, s, timed) = make_wait_tmout(k, t, s, timed)
  BY <1>6 DEF make_wait_tmout, PDQ!make_wait_tmout, set_tstat, PDQ!set_tstat
<1>9. ASSUME NEW k, NEW w, NEW t, NEW s, NEW timed
      PROVE  PDQ!wobj_make_wait_tmout(k, w, t, s, timed) = wobj_make_wait_tmout(k, w, t, s, timed)
  BY <1>7, <1>8 DEF wobj_make_wait_tmout, PDQ!wobj_make_wait_tmout
<1>10. ASSUME NEW w, NEW s, NEW info, NEW timed
       PROVE  PDQ!wobj_wait(w, s, info, timed) <=> wobj_wait(w, s, info, timed)
  BY <1>3, <1>9 DEF wobj_wait, PDQ!wobj_wait
<1> QED BY <1>1, <1>3, <1>4, <1>5, <1>10

--------------------------------------------------------------------------
(* What an object learns from the steps of the others: of the tasks that   *)
(* wait in another queue than those of S, none is new.                     *)
Elsewhere(k, k2, S) ==
  \A w \in WaitQueue \ S : \A t \in Task :
    Waits(k2.tcb[t], w) => Waits(k.tcb[t], w) /\ k2.tcb[t].winfo = k.tcb[t].winfo

LEMMA LeavesElsewhere ==
  ASSUME NEW k, NEW k2, Leaves(k, k2), NEW S
  PROVE  Elsewhere(k, k2, S)
BY DEF Leaves, Stays, Elsewhere

LEMMA JoinsElsewhere ==
  ASSUME NEW k, NEW k2, NEW t \in Task, NEW w, NEW info, Joins(k, k2, t, w, info),
         NEW S, w \in S
  PROVE  Elsewhere(k, k2, S)
BY DEF Joins, Stays, Elsewhere

LEMMA NobodyNew ==
  ASSUME NEW k, NEW k2, NEW S, Elsewhere(k, k2, S), NEW w \in WaitQueue \ S,
         NobodyWaits(k, w)
  PROVE  NobodyWaits(k2, w)
BY DEF Elsewhere, NobodyWaits

LEMMA NobodyLeft ==
  ASSUME NEW k, NEW k2, Leaves(k, k2), NEW w \in WaitQueue, NobodyWaits(k, w)
  PROVE  NobodyWaits(k2, w)
BY DEF Leaves, Stays, NobodyWaits

(* What the tasks in the queue w have in their WINFO.                      *)
OffersIn(k, w, I) ==
  \A t \in Task : Waits(k.tcb[t], w) => k.tcb[t].winfo \in I

LEMMA OffersStay ==
  ASSUME NEW k, NEW k2, NEW S, Elsewhere(k, k2, S), NEW w \in WaitQueue \ S,
         NEW I, OffersIn(k, w, I)
  PROVE  OffersIn(k2, w, I)
BY DEF Elsewhere, OffersIn

LEMMA OffersLeft ==
  ASSUME NEW k, NEW k2, Leaves(k, k2), NEW w \in WaitQueue, NEW I, OffersIn(k, w, I)
  PROVE  OffersIn(k2, w, I)
BY DEF Leaves, Stays, OffersIn

LEMMA OffersJoined ==
  ASSUME NEW k, NEW k2, NEW t \in Task, NEW v, NEW info, Joins(k, k2, t, v, info),
         NEW w \in WaitQueue, NEW I, v = w => info \in I, OffersIn(k, w, I)
  PROVE  OffersIn(k2, w, I)
BY DEF Joins, Stays, OffersIn

LEMMA EmptyQueue ==
  ASSUME Sound, NEW w \in WaitQueue
  PROVE  kernel.wait_queue[w] = << >> <=> NobodyWaits(kernel, w)
<1> DEFINE W == Waiters(kernel, {}, w)
           q == kernel.wait_queue[w]
<1>1. QueueOf(q, W)
  BY DEF Sound, SoundAt, Tidy, QueuesOK, WaitQueueOK
<1>2. W = {} <=> NobodyWaits(kernel, w)
  BY DEF Waiters, NobodyWaits
<1> HIDE DEF W, q
<1>3. q = << >> <=> W = {}
  BY <1>1, QueueHead
<1> QED BY <1>2, <1>3 DEF q

(* The wait queues of the objects.                                         *)
LEMMA SevenQueues ==
  /\ Sem \in WaitQueue /\ Flg \in WaitQueue /\ Mpf \in WaitQueue
  /\ dtq_swait \in WaitQueue /\ dtq_rwait \in WaitQueue
  /\ pdq_swait \in WaitQueue /\ pdq_rwait \in WaitQueue
  /\ dtq_swait # dtq_rwait /\ pdq_swait # pdq_rwait
  /\ dtq_rwait \notin TPRI /\ pdq_rwait \notin TPRI
BY SyncObjectsAssumption DEF SEM!SemaphoreAssumption, FLG!EventFlagAssumption,
     MPF!MemPoolAssumption, DTQ!DataQueueAssumption, PDQ!PriDataQueueAssumption

--------------------------------------------------------------------------
(* The semaphore.                                                          *)
SemOK == NobodyWaits(kernel, Sem) \/ (sem_exists /\ semcnt = 0)

LEMMA SemSteps ==
  ASSUME Sound, SemOK, SEM!Services
  PROVE  Sound' /\ SemOK' /\ Elsewhere(kernel, kernel', {Sem})
<1> DEFINE Goal == Sound' /\ SemOK' /\ Elsewhere(kernel, kernel', {Sem})
           Kept == Sound' /\ Leaves(kernel, kernel')
<1>1. Sem \in WaitQueue /\ Sem' = Sem
  BY SevenQueues
<1>2. kernel.wait_queue[Sem] = << >> <=> NobodyWaits(kernel, Sem)
  BY <1>1, EmptyQueue
<1>3. ASSUME Kept, NobodyWaits(kernel, Sem) \/ (sem_exists' /\ semcnt' = 0)
      PROVE  Goal
  BY <1>1, <1>3, NobodyLeft, LeavesElsewhere DEF SemOK
<1>4. ASSUME Kept, NobodyWaits(kernel', Sem)
      PROVE  Goal
  BY <1>1, <1>4, LeavesElsewhere DEF SemOK, NobodyWaits
<1>5. UNCHANGED taskVars => Kept
  BY NothingDone
<1> HIDE DEF Kept
<1> HIDE DEF Goal
<1>6. ASSUME NEW icnt, NEW max, SEM!acre_sem(icnt, max) PROVE Goal
  BY <1>3, <1>5, <1>6, SemKernel DEF SEM!acre_sem, SemOK
<1>7. CASE SEM!del_sem
  BY <1>1, <1>4, <1>7, SemKernel, ReleaseStep DEF SEM!del_sem, Kept, Goal
<1>8. CASE SEM!sig_sem
  <2>1. CASE kernel.wait_queue[Sem] = << >>
    BY <1>2, <1>3, <1>5, <1>8, <2>1, SemKernel DEF SEM!sig_sem, SEM!wait_queue, Goal
  <2>2. CASE kernel.wait_queue[Sem] # << >>
    <3>1. /\ Dispatch(Served(kernel, Sem))
          /\ UNCHANGED <<semcnt, sem_exists>>
      BY <1>8, <2>2, SemKernel DEF SEM!sig_sem, SEM!wait_queue, SEM!inib, Served
    <3>2. Kept
      BY <1>1, <2>2, <3>1, ServeStep DEF Kept
    <3> QED BY <1>3, <3>1, <3>2 DEF SemOK, Goal
  <2> QED BY <2>1, <2>2
<1>9. ASSUME SEM!GetResource PROVE Goal
  BY <1>3, <1>5, <1>9, SemKernel DEF SEM!GetResource, SemOK
<1>10. ASSUME NEW timed \in BOOLEAN, SEM!twai_sem(timed) PROVE Goal
  <2>1. CASE SEM!GetResource
    BY <1>9, <2>1
  <2>2. CASE ~SEM!GetResource
    <3>1. /\ TaskContext /\ wobj_wait(Sem, TS_WAITING_SEM, NULL, timed)
          /\ sem_exists' /\ semcnt' = 0
      BY <1>10, <2>2, SemKernel DEF SEM!twai_sem, SEM!inib
    <3>2. /\ TS_WAITING_SEM \in States /\ TSTAT_WAITING(TS_WAITING_SEM)
          /\ TSTAT_WAIT_WOBJCB(TS_WAITING_SEM)
      BY DEF TS_WAITING_SEM, States, TSTAT_WAITING, TSTAT_WAIT_WOBJCB, WaitFactor,
             WobjFactor, WobjcbFactor
    <3>3. Sound' /\ Joins(kernel, kernel', p_runtsk, Sem, NULL) /\ p_runtsk \in Task
      <4> DEFINE s == TS_WAITING_SEM
                 info == NULL
      <4>1. info \in WINFO
        BY NullWinfo
      <4> HIDE DEF s, info
      <4> QED BY <1>1, <3>1, <3>2, <4>1, WaitStep DEF s, info
    <3> QED BY <3>1, <3>3, JoinsElsewhere DEF Goal, SemOK
  <2> QED BY <2>1, <2>2
<1>11. CASE SEM!pol_sem
  BY <1>9, <1>11 DEF SEM!pol_sem, Goal
<1>12. CASE SEM!ini_sem
  BY <1>1, <1>4, <1>12, SemKernel, ReleaseStep DEF SEM!ini_sem, Kept, Goal
<1> QED BY <1>6, <1>7, <1>8, <1>10, <1>11, <1>12 DEF SEM!Services, Goal

--------------------------------------------------------------------------
(* The memory pool.                                                        *)
MpfOK == NobodyWaits(kernel, Mpf) \/ (mpf_exists /\ fblkcnt = 0)

LEMMA MpfSteps ==
  ASSUME Sound, MpfOK, MPF!Services
  PROVE  Sound' /\ MpfOK' /\ Elsewhere(kernel, kernel', {Mpf})
<1> DEFINE Goal == Sound' /\ MpfOK' /\ Elsewhere(kernel, kernel', {Mpf})
           Kept == Sound' /\ Leaves(kernel, kernel')
<1>1. Mpf \in WaitQueue
  BY SevenQueues
<1>2. kernel.wait_queue[Mpf] = << >> <=> NobodyWaits(kernel, Mpf)
  BY <1>1, EmptyQueue
<1>3. ASSUME Kept, NobodyWaits(kernel, Mpf) \/ (mpf_exists' /\ fblkcnt' = 0)
      PROVE  Goal
  BY <1>1, <1>3, NobodyLeft, LeavesElsewhere DEF MpfOK
<1>4. ASSUME Kept, NobodyWaits(kernel', Mpf)
      PROVE  Goal
  BY <1>1, <1>4, LeavesElsewhere DEF MpfOK, NobodyWaits
<1>5. UNCHANGED taskVars => Kept
  BY NothingDone
<1> HIDE DEF Kept
<1> HIDE DEF Goal
<1>6. ASSUME NEW cnt, MPF!acre_mpf(cnt) PROVE Goal
  BY <1>3, <1>5, <1>6, MpfKernel DEF MPF!acre_mpf, MpfOK
<1>7. CASE MPF!del_mpf
  BY <1>1, <1>4, <1>7, MpfKernel, ReleaseStep DEF MPF!del_mpf, Kept, Goal
<1>8. ASSUME MPF!pget_mpf PROVE Goal
  BY <1>3, <1>5, <1>8, MpfKernel DEF MPF!pget_mpf, MpfOK
<1>9. ASSUME NEW timed \in BOOLEAN, MPF!tget_mpf(timed) PROVE Goal
  <2>1. CASE MPF!pget_mpf
    BY <1>8, <2>1
  <2>2. CASE ~MPF!pget_mpf
    <3>1. /\ TaskContext /\ wobj_wait(Mpf, TS_WAITING_MPF, NULL, timed)
          /\ mpf_exists' /\ fblkcnt' = 0
      BY <1>9, <2>2, MpfKernel DEF MPF!tget_mpf, MPF!mpf
    <3>2. /\ TS_WAITING_MPF \in States /\ TSTAT_WAITING(TS_WAITING_MPF)
          /\ TSTAT_WAIT_WOBJCB(TS_WAITING_MPF)
      BY DEF TS_WAITING_MPF, States, TSTAT_WAITING, TSTAT_WAIT_WOBJCB, WaitFactor,
             WobjFactor, WobjcbFactor
    <3>3. Sound' /\ Joins(kernel, kernel', p_runtsk, Mpf, NULL) /\ p_runtsk \in Task
      <4> DEFINE s == TS_WAITING_MPF
                 info == NULL
      <4>1. info \in WINFO
        BY NullWinfo
      <4> HIDE DEF s, info
      <4> QED BY <1>1, <3>1, <3>2, <4>1, WaitStep DEF s, info
    <3> QED BY <3>1, <3>3, JoinsElsewhere DEF Goal, MpfOK
  <2> QED BY <2>1, <2>2
<1>10. ASSUME NEW blk, MPF!rel_mpf(blk) PROVE Goal
  <2>1. CASE kernel.wait_queue[Mpf] = << >>
    BY <1>2, <1>3, <1>5, <1>10, <2>1, MpfKernel DEF MPF!rel_mpf, MPF!return_block,
       MPF!wait_queue
  <2>2. CASE kernel.wait_queue[Mpf] # << >>
    <3>1. /\ Dispatch(Served(kernel, Mpf))
          /\ UNCHANGED <<fblkcnt, mpf_exists>>
      BY <1>10, <2>2, MpfKernel DEF MPF!rel_mpf, MPF!return_block, MPF!wait_queue,
         MPF!mpf, Served
    <3>2. Kept
      BY <1>1, <2>2, <3>1, ServeStep DEF Kept
    <3> QED BY <1>3, <3>1, <3>2 DEF MpfOK
  <2> QED BY <2>1, <2>2
<1>11. CASE MPF!ini_mpf
  BY <1>1, <1>4, <1>11, MpfKernel, ReleaseStep DEF MPF!ini_mpf, Kept, Goal
<1>12. CASE MPF!pget_mpf
  BY <1>8, <1>12 DEF Goal
<1> QED BY <1>6, <1>7, <1>9, <1>10, <1>11, <1>12 DEF MPF!Services, Goal

--------------------------------------------------------------------------
(* The data queue.                                                         *)
DTQMB == [0..MaxDtqcnt-1 -> WINFO]

DTQCB ==
  [exists : BOOLEAN, dtqcnt : Nat, count : Nat, head : Nat, tail : Nat,
   dtqmb : DTQMB]

LEMMA DtqcbOK ==
  ASSUME NEW q \in DTQCB
  PROVE  /\ \A data \in WINFO :
              LET q2 == DTQ!enqueue_data(q, data)
              IN  /\ q2 \in DTQCB /\ q2.count = q.count + 1
                  /\ q2.exists = q.exists /\ q2.dtqcnt = q.dtqcnt
                  /\ q2.head = q.head /\ q2.tail = NextAt(q.dtqcnt, q.tail)
         /\ \A data \in WINFO :
              LET q2 == DTQ!force_enqueue_data(q, data)
              IN  /\ q2 \in DTQCB
                  /\ q2.count = IF q.count < q.dtqcnt THEN q.count + 1 ELSE q.count
                  /\ q2.exists = q.exists /\ q2.dtqcnt = q.dtqcnt
                  /\ q2.head = IF q.count < q.dtqcnt THEN q.head ELSE q2.tail
                  /\ q2.tail = NextAt(q.dtqcnt, q.tail)
         /\ q.count > 0 =>
              LET q2 == DTQ!dequeue_data(q)
              IN  /\ q2 \in DTQCB /\ q2.count = q.count - 1
                  /\ q2.exists = q.exists /\ q2.dtqcnt = q.dtqcnt
                  /\ q2.head = NextAt(q.dtqcnt, q.head) /\ q2.tail = q.tail
         /\ DTQ!Empty(q) \in DTQCB
         /\ DTQ!Empty(q).count = 0 /\ DTQ!Empty(q).dtqcnt = q.dtqcnt
         /\ DTQ!Empty(q).head = 0 /\ DTQ!Empty(q).tail = 0
         /\ \A e \in BOOLEAN, n \in Nat :
              [q EXCEPT !.exists = e, !.dtqcnt = n] \in DTQCB
<1>1. \A i \in Nat : /\ DTQ!NextIndex(q, i) \in Nat
                     /\ DTQ!NextIndex(q, i) = NextAt(q.dtqcnt, i)
  BY DEF DTQ!NextIndex, DTQCB, NextAt
<1>2. ASSUME NEW data \in WINFO
      PROVE  [q.dtqmb EXCEPT ![q.tail] = data] \in DTQMB
  BY <1>2 DEF DTQCB, DTQMB
<1>3. ASSUME NEW data \in WINFO
      PROVE  LET q2 == DTQ!enqueue_data(q, data)
             IN  /\ q2 \in DTQCB /\ q2.count = q.count + 1
                 /\ q2.exists = q.exists /\ q2.dtqcnt = q.dtqcnt
                 /\ q2.head = q.head /\ q2.tail = NextAt(q.dtqcnt, q.tail)
  <2> DEFINE mb == [q.dtqmb EXCEPT ![q.tail] = data]
             n  == DTQ!NextIndex(q, q.tail)
             m  == q.count + 1
             q2 == [q EXCEPT !.dtqmb = mb, !.count = m, !.tail = n]
  <2>1. mb \in DTQMB /\ n \in Nat /\ m \in Nat /\ n = NextAt(q.dtqcnt, q.tail)
    BY <1>1, <1>2 DEF DTQCB
  <2>2. DTQ!enqueue_data(q, data) = q2
    BY DEF DTQ!enqueue_data, DTQCB
  <2> HIDE DEF mb, n, m
  <2>3. /\ q2 \in DTQCB /\ q2.count = m /\ q2.exists = q.exists /\ q2.dtqcnt = q.dtqcnt
        /\ q2.head = q.head /\ q2.tail = n
    BY <2>1 DEF DTQCB
  <2> QED BY <2>1, <2>2, <2>3 DEF m
<1>4. ASSUME NEW data \in WINFO
      PROVE  LET q2 == DTQ!force_enqueue_data(q, data)
             IN  /\ q2 \in DTQCB
                 /\ q2.count = IF q.count < q.dtqcnt THEN q.count + 1 ELSE q.count
                 /\ q2.exists = q.exists /\ q2.dtqcnt = q.dtqcnt
                 /\ q2.head = IF q.count < q.dtqcnt THEN q.head ELSE q2.tail
                 /\ q2.tail = NextAt(q.dtqcnt, q.tail)
  <2> DEFINE mb == [q.dtqmb EXCEPT ![q.tail] = data]
             n  == DTQ!NextIndex(q, q.tail)
             m  == q.count + 1
             q2 == [q EXCEPT !.dtqmb = mb, !.tail = n, !.count = m]
             q3 == [q EXCEPT !.dtqmb = mb, !.tail = n, !.head = n]
  <2>1. mb \in DTQMB /\ n \in Nat /\ m \in Nat /\ n = NextAt(q.dtqcnt, q.tail)
    BY <1>1, <1>2 DEF DTQCB
  <2>2. DTQ!force_enqueue_data(q, data) = IF q.count < q.dtqcnt THEN q2 ELSE q3
    BY DEF DTQ!force_enqueue_data, DTQCB
  <2> HIDE DEF mb, n, m
  <2>3. /\ q2 \in DTQCB /\ q2.count = m /\ q2.exists = q.exists /\ q2.dtqcnt = q.dtqcnt
        /\ q3 \in DTQCB /\ q3.count = q.count /\ q3.exists = q.exists
        /\ q3.dtqcnt = q.dtqcnt
        /\ q2.head = q.head /\ q2.tail = n /\ q3.head = n /\ q3.tail = n
    BY <2>1 DEF DTQCB
  <2> QED BY <2>1, <2>2, <2>3 DEF m
<1>5. ASSUME q.count > 0
      PROVE  LET q2 == DTQ!dequeue_data(q)
             IN  /\ q2 \in DTQCB /\ q2.count = q.count - 1
                 /\ q2.exists = q.exists /\ q2.dtqcnt = q.dtqcnt
                 /\ q2.head = NextAt(q.dtqcnt, q.head) /\ q2.tail = q.tail
  <2> DEFINE n == DTQ!NextIndex(q, q.head)
             m == q.count - 1
             q2 == [q EXCEPT !.count = m, !.head = n]
  <2>1. n \in Nat /\ m \in Nat /\ n = NextAt(q.dtqcnt, q.head)
    BY <1>1, <1>5 DEF DTQCB
  <2>2. DTQ!dequeue_data(q) = q2
    BY DEF DTQ!dequeue_data, DTQCB
  <2> HIDE DEF n, m
  <2>3. /\ q2 \in DTQCB /\ q2.count = m /\ q2.exists = q.exists /\ q2.dtqcnt = q.dtqcnt
        /\ q2.head = n /\ q2.tail = q.tail
    BY <2>1 DEF DTQCB
  <2> QED BY <2>1, <2>2, <2>3 DEF m
<1>6. /\ DTQ!Empty(q) \in DTQCB
      /\ DTQ!Empty(q).count = 0 /\ DTQ!Empty(q).dtqcnt = q.dtqcnt
      /\ DTQ!Empty(q).head = 0 /\ DTQ!Empty(q).tail = 0
  <2> DEFINE z == 0
             q2 == [q EXCEPT !.count = z, !.head = z, !.tail = z]
  <2>1. DTQ!Empty(q) = q2 /\ z \in Nat
    BY DEF DTQ!Empty
  <2> HIDE DEF z
  <2>2. /\ q2 \in DTQCB /\ q2.count = z /\ q2.dtqcnt = q.dtqcnt
        /\ q2.head = z /\ q2.tail = z
    BY <2>1 DEF DTQCB
  <2> QED BY <2>1, <2>2 DEF z
<1>7. ASSUME NEW e \in BOOLEAN, NEW n \in Nat
      PROVE  [q EXCEPT !.exists = e, !.dtqcnt = n] \in DTQCB
  BY DEF DTQCB
<1> QED BY <1>3, <1>4, <1>5, <1>6, <1>7

(* Receivers wait while the buffer is empty and no sender waits, senders   *)
(* while it is full.                                                       *)
DtqOK ==
  /\ p_dtqcb \in DTQCB
  /\ p_dtqcb.count <= p_dtqcb.dtqcnt
  /\ \/ NobodyWaits(kernel, dtq_rwait)
     \/ p_dtqcb.exists /\ p_dtqcb.count = 0 /\ NobodyWaits(kernel, dtq_swait)
  /\ \/ NobodyWaits(kernel, dtq_swait)
     \/ p_dtqcb.exists /\ p_dtqcb.count = p_dtqcb.dtqcnt

LEMMA DtqSteps ==
  ASSUME Sound, DtqOK, DTQ!Services
  PROVE  Sound' /\ DtqOK' /\ Elsewhere(kernel, kernel', {dtq_swait, dtq_rwait})
<1> DEFINE Goal == Sound' /\ DtqOK' /\ Elsewhere(kernel, kernel', {dtq_swait, dtq_rwait})
           Kept == Sound' /\ Leaves(kernel, kernel')
           NR   == NobodyWaits(kernel, dtq_rwait)
           NS   == NobodyWaits(kernel, dtq_swait)
           c    == p_dtqcb
           Typed == p_dtqcb' \in DTQCB /\ c.count' <= c.dtqcnt'
<1>1. dtq_rwait \in WaitQueue /\ dtq_swait \in WaitQueue /\ dtq_rwait # dtq_swait
  BY SevenQueues
<1>2. /\ kernel.wait_queue[dtq_rwait] = << >> <=> NR
      /\ kernel.wait_queue[dtq_swait] = << >> <=> NS
  BY <1>1, EmptyQueue
<1>3. ASSUME Kept, Typed,
             NR \/ (c.exists' /\ c.count' = 0 /\ NS),
             NS \/ (c.exists' /\ c.count' = c.dtqcnt')
      PROVE  Goal
  BY <1>1, <1>3, NobodyLeft, LeavesElsewhere DEF DtqOK, DTQCB, DTQMB, WINFO
<1>4. ASSUME Kept, Typed, NobodyWaits(kernel', dtq_rwait), NobodyWaits(kernel', dtq_swait)
      PROVE  Goal
  BY <1>1, <1>4, LeavesElsewhere DEF DtqOK, NobodyWaits
<1>5. UNCHANGED taskVars => Kept
  BY NothingDone
<1>6. /\ c \in DTQCB /\ c.count \in Nat /\ c.dtqcnt \in Nat /\ c.count <= c.dtqcnt
      /\ NR \/ (c.exists /\ c.count = 0 /\ NS)
      /\ NS \/ (c.exists /\ c.count = c.dtqcnt)
  BY DEF DtqOK, DTQCB, DTQMB, WINFO
<1>7. UNCHANGED p_dtqcb => Typed
  BY <1>6 DEF DTQCB, DTQMB, WINFO
<1> HIDE DEF Kept
<1> HIDE DEF Goal, Typed
(* The ways to send and to receive.                                        *)
<1>8. ASSUME NEW data \in Data, DTQ!hand_over(data) PROVE Goal
  <2>1. kernel.wait_queue[dtq_rwait] # << >> /\ UNCHANGED p_dtqcb
    BY <1>8 DEF DTQ!hand_over, DTQ!rwaiting
  <2>2. Dispatch(Served(kernel, dtq_rwait))
    BY <1>8, DtqKernel DEF DTQ!hand_over, DTQ!rwaiting, Served
  <2>3. Kept
    BY <1>1, <2>1, <2>2, ServeStep DEF Kept
  <2> QED BY <1>3, <1>6, <1>7, <2>1, <2>3
<1>9. ASSUME NEW data \in Data, DTQ!send_data(data), c.exists PROVE Goal
  <2>1. CASE DTQ!hand_over(data)
    BY <1>8, <2>1
  <2>2. CASE ~DTQ!hand_over(data)
    <3>1. /\ kernel.wait_queue[dtq_rwait] = << >> /\ c.count < c.dtqcnt
          /\ p_dtqcb' = DTQ!enqueue_data(c, data) /\ UNCHANGED taskVars
      BY <1>9, <2>2, DtqKernel DEF DTQ!send_data, DTQ!rwaiting, DTQ!dtqcnt
    <3>2. /\ p_dtqcb' \in DTQCB /\ c.count' = c.count + 1 /\ c.dtqcnt' = c.dtqcnt
      BY <1>6, <3>1, DtqcbOK DEF WINFO
    <3>3. NR /\ NS /\ Typed
      BY <1>2, <1>6, <3>1, <3>2 DEF Typed
    <3> QED BY <1>3, <1>5, <3>1, <3>3
  <2> QED BY <2>1, <2>2
<1>10. ASSUME NEW data \in Data, DTQ!force_send_data(data) PROVE Goal
  <2>1. CASE DTQ!hand_over(data)
    BY <1>8, <2>1
  <2>2. CASE ~DTQ!hand_over(data)
    <3>1. /\ kernel.wait_queue[dtq_rwait] = << >>
          /\ p_dtqcb' = DTQ!force_enqueue_data(c, data) /\ UNCHANGED taskVars
      BY <1>10, <2>2, DtqKernel DEF DTQ!force_send_data, DTQ!rwaiting
    <3>2. /\ p_dtqcb' \in DTQCB /\ c.dtqcnt' = c.dtqcnt /\ c.exists' = c.exists
          /\ c.count' = IF c.count < c.dtqcnt THEN c.count + 1 ELSE c.count
      BY <1>6, <3>1, DtqcbOK DEF WINFO
    <3>3. NR /\ (NS \/ (c.exists' /\ c.count' = c.dtqcnt')) /\ Typed
      BY <1>2, <1>6, <3>1, <3>2 DEF Typed
    <3> QED BY <1>3, <1>5, <3>1, <3>3
  <2> QED BY <2>1, <2>2
<1>11. ASSUME kernel.wait_queue[dtq_swait] # << >>
       PROVE  /\ DTQ!sent \in WINFO
              /\ DTQ!release_sender => Kept
  <2>1. DTQ!sent \in WINFO
    <3> DEFINE t == Head(kernel.wait_queue[dtq_swait])
    <3>1. t \in Task /\ kernel \in SSet(WINFO)
      BY <1>1, <1>11, ServedOK DEF Sound, SoundAt, Tidy, QueuesOK
    <3>2. DTQ!sent = kernel.tcb[t].winfo
      BY DEF DTQ!sent, DTQ!swaiting
    <3> HIDE DEF t
    <3> QED BY <3>1, <3>2, TcbType
  <2>2. ASSUME DTQ!release_sender PROVE Kept
    <3>1. Dispatch(Served(kernel, dtq_swait))
      BY <2>2, DtqKernel DEF DTQ!release_sender, DTQ!swaiting, Served
    <3> QED BY <1>1, <1>11, <3>1, ServeStep DEF Kept
  <2> QED BY <2>1, <2>2
<1>12. ASSUME DTQ!receive_data, c.exists PROVE Goal
  <2>1. CASE c.count > 0 /\ kernel.wait_queue[dtq_swait] = << >>
    <3>1. p_dtqcb' = DTQ!dequeue_data(c) /\ UNCHANGED taskVars
      BY <1>6, <1>12, <2>1, DtqKernel DEF DTQ!receive_data, DTQ!swaiting
    <3>2. /\ p_dtqcb' \in DTQCB /\ c.count' = c.count - 1 /\ c.dtqcnt' = c.dtqcnt
      BY <1>6, <2>1, <3>1, DtqcbOK
    <3>3. NR /\ NS /\ Typed
      BY <1>2, <1>6, <2>1, <3>2 DEF Typed
    <3> QED BY <1>3, <1>5, <3>1, <3>3
  <2>2. CASE c.count > 0 /\ kernel.wait_queue[dtq_swait] # << >>
    <3> DEFINE q == DTQ!dequeue_data(c)
               s == DTQ!sent
    <3>1. p_dtqcb' = DTQ!enqueue_data(q, s) /\ DTQ!release_sender
      BY <1>6, <1>12, <2>2, DtqKernel DEF DTQ!receive_data, DTQ!swaiting
    <3>2. s \in WINFO /\ Kept
      BY <1>11, <2>2, <3>1
    <3>3. q \in DTQCB /\ q.count = c.count - 1 /\ q.dtqcnt = c.dtqcnt /\ q.exists = c.exists
      BY <1>6, <2>2, DtqcbOK
    <3> HIDE DEF q, s
    <3>4. /\ p_dtqcb' \in DTQCB /\ c.count' = q.count + 1 /\ c.dtqcnt' = q.dtqcnt
          /\ c.exists' = q.exists
      BY <3>1, <3>2, <3>3, DtqcbOK
    <3>5. c.count' = c.count /\ c.dtqcnt' = c.dtqcnt /\ c.exists' = c.exists /\ Typed
      BY <1>6, <3>3, <3>4 DEF Typed
    <3> QED BY <1>3, <1>6, <3>2, <3>5
  <2>3. CASE ~(c.count > 0)
    <3>1. /\ kernel.wait_queue[dtq_swait] # << >> /\ DTQ!release_sender
          /\ UNCHANGED p_dtqcb
      BY <1>12, <2>3, DtqKernel DEF DTQ!receive_data, DTQ!swaiting
    <3>2. Kept
      BY <1>11, <3>1
    <3> QED BY <1>3, <1>6, <1>7, <3>1, <3>2
  <2> QED BY <2>1, <2>2, <2>3
<1>13. ASSUME Dispatch(init_wait_queue(init_wait_queue(kernel, dtq_swait), dtq_rwait)), Typed
       PROVE  Goal
  BY <1>1, <1>4, <1>13, ReleaseAllStep DEF Kept
<1>14. ASSUME NEW e \in BOOLEAN, NEW n \in Nat,
              p_dtqcb' = [DTQ!Empty(c) EXCEPT !.exists = e, !.dtqcnt = n]
       PROVE  Typed
  <2> DEFINE q == DTQ!Empty(c)
  <2>1. q \in DTQCB /\ q.count = 0
    BY <1>6, DtqcbOK
  <2> HIDE DEF q
  <2>2. p_dtqcb' \in DTQCB
    BY <1>14, <2>1, DtqcbOK DEF q
  <2>3. c.count' = 0 /\ c.dtqcnt' = n
    BY <1>14, <2>1 DEF q, DTQCB
  <2> QED BY <2>2, <2>3 DEF Typed
(* The services.                                                           *)
<1>15. ASSUME NEW cnt \in 0..MaxDtqcnt, DTQ!acre_dtq(cnt) PROVE Goal
  <2>1. NR /\ NS
    BY <1>6, <1>15 DEF DTQ!acre_dtq, DTQ!exists
  <2>2. Typed
    <3>1. cnt \in Nat
      OBVIOUS
    <3> QED BY <1>14, <1>15, <3>1 DEF DTQ!acre_dtq
  <2> QED BY <1>3, <1>5, <1>15, <2>1, <2>2, DtqKernel DEF DTQ!acre_dtq
<1>16. CASE DTQ!del_dtq
  <2>1. Typed
    BY <1>6, <1>16 DEF DTQ!del_dtq, Typed, DTQCB
  <2> QED BY <1>13, <1>16, <2>1, DtqKernel DEF DTQ!del_dtq, DTQ!release_all, Goal
<1>17. CASE DTQ!ini_dtq
  <2>1. Typed
    <3> DEFINE q == DTQ!Empty(c)
    <3>1. q \in DTQCB /\ q.count = 0 /\ q.dtqcnt = c.dtqcnt
      BY <1>6, DtqcbOK
    <3>2. p_dtqcb' = q
      BY <1>17 DEF DTQ!ini_dtq
    <3> HIDE DEF q
    <3>3. p_dtqcb' \in DTQCB /\ c.count' = 0 /\ c.dtqcnt' = c.dtqcnt
      BY <3>1, <3>2
    <3> QED BY <1>6, <3>3 DEF Typed
  <2> QED BY <1>13, <1>17, <2>1, DtqKernel DEF DTQ!ini_dtq, DTQ!release_all, Goal
<1>18. ASSUME NEW data \in Data, DTQ!psnd_dtq(data) PROVE Goal
  BY <1>9, <1>18 DEF DTQ!psnd_dtq, DTQ!exists
<1>19. ASSUME NEW data \in Data, DTQ!fsnd_dtq(data) PROVE Goal
  BY <1>10, <1>19 DEF DTQ!fsnd_dtq
<1>20. ASSUME NEW data \in Data, NEW timed \in BOOLEAN, DTQ!tsnd_dtq(data, timed) PROVE Goal
  <2>1. CASE DTQ!send_data(data)
    BY <1>9, <1>20, <2>1 DEF DTQ!tsnd_dtq, DTQ!exists
  <2>2. CASE ~DTQ!send_data(data)
    <3>1. /\ TaskContext /\ wobj_wait(dtq_swait, TS_WAITING_SDTQ, data, timed)
          /\ kernel.wait_queue[dtq_rwait] = << >> /\ c.count >= c.dtqcnt /\ c.exists
          /\ UNCHANGED p_dtqcb
      BY <1>20, <2>2, DtqKernel DEF DTQ!tsnd_dtq, DTQ!rwaiting, DTQ!dtqcnt, DTQ!exists
    <3>2. /\ TS_WAITING_SDTQ \in States /\ TSTAT_WAITING(TS_WAITING_SDTQ)
          /\ TSTAT_WAIT_WOBJCB(TS_WAITING_SDTQ)
      BY DEF TS_WAITING_SDTQ, States, TSTAT_WAITING, TSTAT_WAIT_WOBJCB, WaitFactor,
             WobjFactor, WobjcbFactor
    <3>3. Sound' /\ Joins(kernel, kernel', p_runtsk, dtq_swait, data) /\ p_runtsk \in Task
      <4> DEFINE s == TS_WAITING_SDTQ
      <4>1. data \in WINFO
        BY DEF WINFO
      <4> HIDE DEF s
      <4> QED BY <1>1, <3>1, <3>2, <4>1, WaitStep DEF s
    <3>4. Elsewhere(kernel, kernel', {dtq_swait})
      BY <3>3, JoinsElsewhere
    <3>5. NobodyWaits(kernel', dtq_rwait)
      BY <1>1, <1>2, <3>1, <3>4, NobodyNew
    <3>6. Elsewhere(kernel, kernel', {dtq_swait, dtq_rwait})
      BY <3>4 DEF Elsewhere
    <3> QED BY <1>6, <1>7, <3>1, <3>3, <3>5, <3>6 DEF Goal, DtqOK, Typed
  <2> QED BY <2>1, <2>2
<1>21. CASE DTQ!prcv_dtq
  BY <1>12, <1>21 DEF DTQ!prcv_dtq, DTQ!exists, Goal
<1>22. ASSUME NEW timed \in BOOLEAN, DTQ!trcv_dtq(timed) PROVE Goal
  <2>1. CASE DTQ!receive_data
    BY <1>12, <1>22, <2>1 DEF DTQ!trcv_dtq, DTQ!exists
  <2>2. CASE ~DTQ!receive_data
    <3>1. /\ TaskContext /\ wobj_wait(dtq_rwait, TS_WAITING_RDTQ, NULL, timed)
          /\ kernel.wait_queue[dtq_swait] = << >> /\ c.count = 0 /\ c.exists
          /\ UNCHANGED p_dtqcb
      BY <1>22, <2>2, DtqKernel DEF DTQ!trcv_dtq, DTQ!swaiting, DTQ!exists
    <3>2. /\ TS_WAITING_RDTQ \in States /\ TSTAT_WAITING(TS_WAITING_RDTQ)
      BY DEF TS_WAITING_RDTQ, States, TSTAT_WAITING, WaitFactor, WobjFactor
    <3>3. Sound' /\ Joins(kernel, kernel', p_runtsk, dtq_rwait, NULL) /\ p_runtsk \in Task
      <4> DEFINE s == TS_WAITING_RDTQ
                 info == NULL
      <4>1. info \in WINFO /\ dtq_rwait \notin TPRI
        BY NullWinfo, SevenQueues
      <4> HIDE DEF s, info
      <4> QED BY <1>1, <3>1, <3>2, <4>1, WaitStep DEF s, info
    <3>4. Elsewhere(kernel, kernel', {dtq_rwait})
      BY <3>3, JoinsElsewhere
    <3>5. NobodyWaits(kernel', dtq_swait)
      BY <1>1, <1>2, <3>1, <3>4, NobodyNew
    <3>6. Elsewhere(kernel, kernel', {dtq_swait, dtq_rwait})
      BY <3>4 DEF Elsewhere
    <3> QED BY <1>6, <1>7, <3>1, <3>3, <3>5, <3>6 DEF Goal, DtqOK, Typed
  <2> QED BY <2>1, <2>2
<1> QED BY <1>15, <1>16, <1>17, <1>18, <1>19, <1>20, <1>21, <1>22 DEF DTQ!Services, Goal

--------------------------------------------------------------------------
(* The priority data queue.  Here only the counts of its management area   *)
(* matter.                                                                 *)
PDQCB(q) ==
  /\ q = [exists |-> q.exists, pdqcnt |-> q.pdqcnt, count |-> q.count,
          p_head |-> q.p_head, unused |-> q.unused,
          p_freelist |-> q.p_freelist, p_pdqmb |-> q.p_pdqmb]
  /\ q.exists \in BOOLEAN /\ q.pdqcnt \in Nat /\ q.count \in Nat

Filled(q, c, h, u, f, mb) ==
  [q EXCEPT !.p_freelist = f, !.unused = u, !.p_pdqmb = mb, !.p_head = h, !.count = c]

Reset(q, e, n) == [q EXCEPT !.exists = e, !.pdqcnt = n]

LEMMA PdqcbFilled ==
  ASSUME NEW q, PDQCB(q), NEW c \in Nat, NEW h, NEW u, NEW f, NEW mb, NEW q2,
         q2 = Filled(q, c, h, u, f, mb)
  PROVE  /\ PDQCB(q2) /\ q2.count = c /\ q2.exists = q.exists /\ q2.pdqcnt = q.pdqcnt
         /\ q2.p_head = h /\ q2.unused = u /\ q2.p_freelist = f /\ q2.p_pdqmb = mb
<1> DEFINE e0 == q.exists
           n0 == q.pdqcnt
           c0 == q.count
           h0 == q.p_head
           u0 == q.unused
           f0 == q.p_freelist
           b0 == q.p_pdqmb
<1>1. q = [exists |-> e0, pdqcnt |-> n0, count |-> c0, p_head |-> h0,
           unused |-> u0, p_freelist |-> f0, p_pdqmb |-> b0]
  BY DEF PDQCB
<1>2. e0 \in BOOLEAN /\ n0 \in Nat
  BY DEF PDQCB
<1>3. q2 = [q EXCEPT !.p_freelist = f, !.unused = u, !.p_pdqmb = mb, !.p_head = h,
                     !.count = c]
  BY DEF Filled
<1> HIDE DEF e0, n0, c0, h0, u0, f0, b0
<1>4. q2 = [exists |-> e0, pdqcnt |-> n0, count |-> c, p_head |-> h,
            unused |-> u, p_freelist |-> f, p_pdqmb |-> mb]
  BY ONLY <1>1, <1>3
<1>5. /\ PDQCB(q2) /\ q2.count = c /\ q2.exists = e0 /\ q2.pdqcnt = n0
      /\ q2.p_head = h /\ q2.unused = u /\ q2.p_freelist = f /\ q2.p_pdqmb = mb
  BY ONLY <1>2, <1>4, c \in Nat DEF PDQCB
<1> QED BY <1>5 DEF e0, n0

LEMMA PdqcbSet ==
  ASSUME NEW q, PDQCB(q), NEW e \in BOOLEAN, NEW n \in Nat, NEW q2,
         q2 = Reset(q, e, n)
  PROVE  /\ PDQCB(q2) /\ q2.count = q.count /\ q2.exists = e /\ q2.pdqcnt = n
         /\ q2.p_head = q.p_head /\ q2.unused = q.unused
         /\ q2.p_freelist = q.p_freelist /\ q2.p_pdqmb = q.p_pdqmb
<1> DEFINE e0 == q.exists
           n0 == q.pdqcnt
           c0 == q.count
           h0 == q.p_head
           u0 == q.unused
           f0 == q.p_freelist
           b0 == q.p_pdqmb
<1>1. q = [exists |-> e0, pdqcnt |-> n0, count |-> c0, p_head |-> h0,
           unused |-> u0, p_freelist |-> f0, p_pdqmb |-> b0]
  BY DEF PDQCB
<1>2. c0 \in Nat
  BY DEF PDQCB
<1>3. q2 = [q EXCEPT !.exists = e, !.pdqcnt = n]
  BY DEF Reset
<1> HIDE DEF e0, n0, c0, h0, u0, f0, b0
<1>4. q2 = [exists |-> e, pdqcnt |-> n, count |-> c0, p_head |-> h0,
            unused |-> u0, p_freelist |-> f0, p_pdqmb |-> b0]
  BY ONLY <1>1, <1>3
<1>5. /\ PDQCB(q2) /\ q2.count = c0 /\ q2.exists = e /\ q2.pdqcnt = n
      /\ q2.p_head = h0 /\ q2.unused = u0 /\ q2.p_freelist = f0 /\ q2.p_pdqmb = b0
  BY ONLY <1>2, <1>4, e \in BOOLEAN, n \in Nat DEF PDQCB
<1> QED BY <1>5 DEF c0, h0, u0, f0, b0

LEMMA PdqcbOK ==
  ASSUME NEW q, PDQCB(q), NEW q2
  PROVE  /\ \A item : q2 = PDQ!enqueue_pridata(q, item) =>
               PDQCB(q2) /\ q2.count = q.count + 1
                 /\ q2.exists = q.exists /\ q2.pdqcnt = q.pdqcnt
         /\ q.count > 0 /\ q2 = PDQ!dequeue_pridata(q) =>
               PDQCB(q2) /\ q2.count = q.count - 1
                 /\ q2.exists = q.exists /\ q2.pdqcnt = q.pdqcnt
         /\ q2 = PDQ!Empty(q) =>
               PDQCB(q2) /\ q2.count = 0 /\ q2.exists = q.exists /\ q2.pdqcnt = q.pdqcnt
<1>1. ASSUME NEW item, q2 = PDQ!enqueue_pridata(q, item)
      PROVE  PDQCB(q2) /\ q2.count = q.count + 1
               /\ q2.exists = q.exists /\ q2.pdqcnt = q.pdqcnt
  <2> DEFINE block == IF q.p_freelist # << >> THEN Head(q.p_freelist) ELSE q.unused
             place == PDQ!behind(q, item.datapri)
             f  == IF q.p_freelist # << >> THEN Tail(q.p_freelist) ELSE q.p_freelist
             u  == IF q.p_freelist # << >> THEN q.unused ELSE q.unused + 1
             mb == [q.p_pdqmb EXCEPT ![block] = item]
             h  == IF place = 0 THEN Append(q.p_head, block)
                   ELSE PDQ!InsertAt(q.p_head, place, block)
             m  == q.count + 1
  <2>1. q2 = Filled(q, m, h, u, f, mb)
    BY <1>1 DEF PDQ!enqueue_pridata, PDQCB, Filled
  <2>2. m \in Nat
    BY DEF PDQCB
  <2> HIDE DEF f, u, mb, h, m
  <2>3. PDQCB(q2) /\ q2.count = m /\ q2.exists = q.exists /\ q2.pdqcnt = q.pdqcnt
    BY <2>1, <2>2, PdqcbFilled
  <2> QED BY <2>3 DEF m
<1>2. ASSUME q.count > 0, q2 = PDQ!dequeue_pridata(q)
      PROVE  PDQCB(q2) /\ q2.count = q.count - 1
               /\ q2.exists = q.exists /\ q2.pdqcnt = q.pdqcnt
  <2> DEFINE f  == PDQ!Cons(Head(q.p_head), q.p_freelist)
             u  == q.unused
             mb == [q.p_pdqmb EXCEPT ![Head(q.p_head)] = NULL]
             h  == Tail(q.p_head)
             m  == q.count - 1
  <2>1. q2 = Filled(q, m, h, u, f, mb)
    BY <1>2 DEF PDQ!dequeue_pridata, PDQCB, Filled
  <2>2. m \in Nat
    BY <1>2 DEF PDQCB
  <2> HIDE DEF f, u, mb, h, m
  <2>3. PDQCB(q2) /\ q2.count = m /\ q2.exists = q.exists /\ q2.pdqcnt = q.pdqcnt
    BY <2>1, <2>2, PdqcbFilled
  <2> QED BY <2>3 DEF m
<1>3. ASSUME q2 = PDQ!Empty(q)
      PROVE  PDQCB(q2) /\ q2.count = 0 /\ q2.exists = q.exists /\ q2.pdqcnt = q.pdqcnt
  <2> DEFINE s  == << >>
             z  == 0
             mb == PDQ!NoBlocks
  <2>1. q2 = Filled(q, z, s, z, s, mb)
    BY <1>3 DEF PDQ!Empty, PDQCB, Filled
  <2>2. z \in Nat
    OBVIOUS
  <2> HIDE DEF s, z, mb
  <2>3. PDQCB(q2) /\ q2.count = z /\ q2.exists = q.exists /\ q2.pdqcnt = q.pdqcnt
    BY <2>1, <2>2, PdqcbFilled
  <2> QED BY <2>3 DEF z
<1> QED BY <1>1, <1>2, <1>3

(* Receivers wait while the buffer is empty and no sender waits, senders   *)
(* while it is full; a sender that waits has its item in its WINFO.        *)
PdqOK ==
  /\ PDQCB(p_pdqcb)
  /\ p_pdqcb.count <= p_pdqcb.pdqcnt
  /\ \/ NobodyWaits(kernel, pdq_rwait)
     \/ p_pdqcb.exists /\ p_pdqcb.count = 0 /\ NobodyWaits(kernel, pdq_swait)
  /\ \/ NobodyWaits(kernel, pdq_swait)
     \/ p_pdqcb.exists /\ p_pdqcb.count = p_pdqcb.pdqcnt
  /\ OffersIn(kernel, pdq_swait, Item)

LEMMA PdqSteps ==
  ASSUME Sound, PdqOK, PDQ!Services
  PROVE  Sound' /\ PdqOK' /\ Elsewhere(kernel, kernel', {pdq_swait, pdq_rwait})
<1> DEFINE Goal == Sound' /\ PdqOK' /\ Elsewhere(kernel, kernel', {pdq_swait, pdq_rwait})
           Kept == Sound' /\ Leaves(kernel, kernel')
           NR   == NobodyWaits(kernel, pdq_rwait)
           NS   == NobodyWaits(kernel, pdq_swait)
           c    == p_pdqcb
           Typed == PDQCB(p_pdqcb') /\ c.count' <= c.pdqcnt'
<1>1. pdq_rwait \in WaitQueue /\ pdq_swait \in WaitQueue /\ pdq_rwait # pdq_swait
  BY SevenQueues
<1>2. /\ kernel.wait_queue[pdq_rwait] = << >> <=> NR
      /\ kernel.wait_queue[pdq_swait] = << >> <=> NS
  BY <1>1, EmptyQueue
<1>3. ASSUME Kept, Typed,
             NR \/ (c.exists' /\ c.count' = 0 /\ NS),
             NS \/ (c.exists' /\ c.count' = c.pdqcnt')
      PROVE  Goal
  <2>1. OffersIn(kernel', pdq_swait, Item)
    BY <1>1, <1>3, OffersLeft DEF PdqOK
  <2> QED BY <1>1, <1>3, <2>1, NobodyLeft, LeavesElsewhere DEF PdqOK, PDQCB, OffersIn
<1>4. ASSUME Kept, Typed, NobodyWaits(kernel', pdq_rwait), NobodyWaits(kernel', pdq_swait)
      PROVE  Goal
  <2>1. OffersIn(kernel', pdq_swait, Item)
    BY <1>1, <1>4, OffersLeft DEF PdqOK
  <2> QED BY <1>1, <1>4, <2>1, LeavesElsewhere DEF PdqOK, NobodyWaits, PDQCB, OffersIn
<1>5. UNCHANGED taskVars => Kept
  BY NothingDone
<1>6. /\ PDQCB(c) /\ c.count \in Nat /\ c.pdqcnt \in Nat /\ c.count <= c.pdqcnt
      /\ NR \/ (c.exists /\ c.count = 0 /\ NS)
      /\ NS \/ (c.exists /\ c.count = c.pdqcnt)
  BY DEF PdqOK, PDQCB
<1>7. UNCHANGED p_pdqcb => Typed
  BY <1>6 DEF PDQCB
<1> HIDE DEF Kept
<1> HIDE DEF Goal, Typed
(* The ways to send and to receive.                                        *)
<1>8. ASSUME NEW item \in Item, PDQ!send_pridata(item) PROVE Goal
  <2>1. CASE kernel.wait_queue[pdq_rwait] # << >>
    <3>1. Dispatch(Served(kernel, pdq_rwait)) /\ UNCHANGED p_pdqcb
      BY <1>8, <2>1, PdqKernel DEF PDQ!send_pridata, PDQ!rwaiting, Served
    <3>2. Kept
      BY <1>1, <2>1, <3>1, ServeStep DEF Kept
    <3> QED BY <1>3, <1>6, <1>7, <3>1, <3>2
  <2>2. CASE kernel.wait_queue[pdq_rwait] = << >>
    <3>1. /\ c.count < c.pdqcnt
          /\ p_pdqcb' = PDQ!enqueue_pridata(c, item) /\ UNCHANGED taskVars
      BY <1>8, <2>2, PdqKernel DEF PDQ!send_pridata, PDQ!rwaiting
    <3>2. /\ PDQCB(p_pdqcb') /\ c.count' = c.count + 1 /\ c.pdqcnt' = c.pdqcnt
      BY <1>6, <3>1, PdqcbOK
    <3>3. NR /\ NS /\ Typed
      BY <1>2, <1>6, <2>2, <3>1, <3>2 DEF Typed
    <3> QED BY <1>3, <1>5, <3>1, <3>3
  <2> QED BY <2>1, <2>2
<1>11. ASSUME kernel.wait_queue[pdq_swait] # << >>, PDQ!release_sender
       PROVE  Kept
  <2>1. Dispatch(Served(kernel, pdq_swait))
    BY <1>11, PdqKernel DEF PDQ!release_sender, PDQ!swaiting, Served
  <2> QED BY <1>1, <1>11, <2>1, ServeStep DEF Kept
<1>12. ASSUME PDQ!receive_pridata, c.exists PROVE Goal
  <2>1. CASE c.count > 0 /\ kernel.wait_queue[pdq_swait] = << >>
    <3>1. p_pdqcb' = PDQ!dequeue_pridata(c) /\ UNCHANGED taskVars
      BY <1>6, <1>12, <2>1, PdqKernel DEF PDQ!receive_pridata, PDQ!swaiting
    <3>2. /\ PDQCB(p_pdqcb') /\ c.count' = c.count - 1 /\ c.pdqcnt' = c.pdqcnt
      BY <1>6, <2>1, <3>1, PdqcbOK
    <3>3. NR /\ NS /\ Typed
      BY <1>2, <1>6, <2>1, <3>2 DEF Typed
    <3> QED BY <1>3, <1>5, <3>1, <3>3
  <2>2. CASE c.count > 0 /\ kernel.wait_queue[pdq_swait] # << >>
    <3> DEFINE q == PDQ!dequeue_pridata(c)
               s == PDQ!sent
    <3>1. p_pdqcb' = PDQ!enqueue_pridata(q, s) /\ PDQ!release_sender
      BY <1>6, <1>12, <2>2, PdqKernel DEF PDQ!receive_pridata, PDQ!swaiting
    <3>2. Kept
      BY <1>11, <2>2, <3>1
    <3>3. PDQCB(q) /\ q.count = c.count - 1 /\ q.pdqcnt = c.pdqcnt /\ q.exists = c.exists
      BY <1>6, <2>2, PdqcbOK
    <3> HIDE DEF q, s
    <3>4. /\ PDQCB(p_pdqcb') /\ c.count' = q.count + 1 /\ c.pdqcnt' = q.pdqcnt
          /\ c.exists' = q.exists
      BY <3>1, <3>2, <3>3, PdqcbOK
    <3>5. c.count' = c.count /\ c.pdqcnt' = c.pdqcnt /\ c.exists' = c.exists /\ Typed
      BY <1>6, <3>3, <3>4 DEF Typed
    <3> QED BY <1>3, <1>6, <3>2, <3>5
  <2>3. CASE ~(c.count > 0)
    <3>1. /\ kernel.wait_queue[pdq_swait] # << >> /\ PDQ!release_sender
          /\ UNCHANGED p_pdqcb
      BY <1>12, <2>3, PdqKernel DEF PDQ!receive_pridata, PDQ!swaiting
    <3>2. Kept
      BY <1>11, <3>1
    <3> QED BY <1>3, <1>6, <1>7, <3>1, <3>2
  <2> QED BY <2>1, <2>2, <2>3
<1>13. ASSUME Dispatch(init_wait_queue(init_wait_queue(kernel, pdq_swait), pdq_rwait)), Typed
       PROVE  Goal
  BY <1>1, <1>4, <1>13, ReleaseAllStep DEF Kept
<1>14. ASSUME NEW e \in BOOLEAN, NEW n \in Nat,
              p_pdqcb' = [PDQ!Empty(c) EXCEPT !.exists = e, !.pdqcnt = n]
       PROVE  Typed
  <2> DEFINE q == PDQ!Empty(c)
  <2>1. PDQCB(q) /\ q.count = 0 /\ p_pdqcb' = Reset(q, e, n)
    BY <1>6, <1>14, PdqcbOK DEF Reset
  <2> HIDE DEF q
  <2>2. PDQCB(p_pdqcb') /\ c.count' = 0 /\ c.pdqcnt' = n
    BY <2>1, PdqcbSet
  <2> QED BY <2>2 DEF Typed
(* The services.                                                           *)
<1>15. ASSUME NEW cnt \in 0..MaxPdqcnt, PDQ!acre_pdq(cnt) PROVE Goal
  <2>1. NR /\ NS
    BY <1>6, <1>15 DEF PDQ!acre_pdq, PDQ!exists
  <2>2. Typed
    <3>1. cnt \in Nat
      OBVIOUS
    <3> QED BY <1>14, <1>15, <3>1 DEF PDQ!acre_pdq
  <2> QED BY <1>3, <1>5, <1>15, <2>1, <2>2, PdqKernel DEF PDQ!acre_pdq
<1>16. CASE PDQ!del_pdq
  <2>1. Typed
    <3> DEFINE e == FALSE
               n == c.pdqcnt
    <3>1. e \in BOOLEAN /\ n \in Nat /\ c.count <= n
      BY <1>6
    <3>2. p_pdqcb' = Reset(c, e, n)
      BY <1>6, <1>16 DEF PDQ!del_pdq, PDQCB, Reset
    <3> HIDE DEF e, n
    <3>3. PDQCB(p_pdqcb') /\ c.count' = c.count /\ c.pdqcnt' = n
      BY <1>6, <3>1, <3>2, PdqcbSet
    <3> QED BY <3>1, <3>3 DEF Typed
  <2> QED BY <1>13, <1>16, <2>1, PdqKernel DEF PDQ!del_pdq, PDQ!release_all, Goal
<1>17. CASE PDQ!ini_pdq
  <2>1. Typed
    <3> DEFINE q == PDQ!Empty(c)
    <3>1. PDQCB(q) /\ q.count = 0 /\ q.pdqcnt = c.pdqcnt
      BY <1>6, PdqcbOK
    <3>2. p_pdqcb' = q
      BY <1>17 DEF PDQ!ini_pdq
    <3> HIDE DEF q
    <3>3. PDQCB(p_pdqcb') /\ c.count' = 0 /\ c.pdqcnt' = c.pdqcnt
      BY <3>1, <3>2
    <3> QED BY <1>6, <3>3 DEF Typed
  <2> QED BY <1>13, <1>17, <2>1, PdqKernel DEF PDQ!ini_pdq, PDQ!release_all, Goal
<1>18. ASSUME NEW item \in Item, PDQ!psnd_pdq(item) PROVE Goal
  BY <1>8, <1>18 DEF PDQ!psnd_pdq, PDQ!exists
<1>20. ASSUME NEW item \in Item, NEW timed \in BOOLEAN, PDQ!tsnd_pdq(item, timed) PROVE Goal
  <2>1. CASE PDQ!send_pridata(item)
    BY <1>8, <1>20, <2>1 DEF PDQ!tsnd_pdq, PDQ!exists
  <2>2. CASE ~PDQ!send_pridata(item)
    <3>1. /\ TaskContext /\ wobj_wait(pdq_swait, TS_WAITING_SPDQ, item, timed)
          /\ kernel.wait_queue[pdq_rwait] = << >> /\ c.count >= c.pdqcnt /\ c.exists
          /\ UNCHANGED p_pdqcb
      BY <1>20, <2>2, PdqKernel DEF PDQ!tsnd_pdq, PDQ!rwaiting, PDQ!exists
    <3>2. /\ TS_WAITING_SPDQ \in States /\ TSTAT_WAITING(TS_WAITING_SPDQ)
          /\ TSTAT_WAIT_WOBJCB(TS_WAITING_SPDQ)
      BY DEF TS_WAITING_SPDQ, States, TSTAT_WAITING, TSTAT_WAIT_WOBJCB, WaitFactor,
             WobjFactor, WobjcbFactor
    <3>3. Sound' /\ Joins(kernel, kernel', p_runtsk, pdq_swait, item) /\ p_runtsk \in Task
      <4> DEFINE s == TS_WAITING_SPDQ
      <4>1. item \in WINFO
        BY DEF WINFO
      <4> HIDE DEF s
      <4> QED BY <1>1, <3>1, <3>2, <4>1, WaitStep DEF s
    <3>4. Elsewhere(kernel, kernel', {pdq_swait})
      BY <3>3, JoinsElsewhere
    <3>5. NobodyWaits(kernel', pdq_rwait)
      BY <1>1, <1>2, <3>1, <3>4, NobodyNew
    <3>6. Elsewhere(kernel, kernel', {pdq_swait, pdq_rwait})
      BY <3>4 DEF Elsewhere
    <3>7. OffersIn(kernel', pdq_swait, Item)
      BY <1>1, <3>3, OffersJoined DEF PdqOK
    <3> QED BY <1>6, <1>7, <3>1, <3>3, <3>5, <3>6, <3>7 DEF Goal, PdqOK, Typed, OffersIn
  <2> QED BY <2>1, <2>2
<1>21. CASE PDQ!prcv_pdq
  BY <1>12, <1>21 DEF PDQ!prcv_pdq, PDQ!exists, Goal
<1>22. ASSUME NEW timed \in BOOLEAN, PDQ!trcv_pdq(timed) PROVE Goal
  <2>1. CASE PDQ!receive_pridata
    BY <1>12, <1>22, <2>1 DEF PDQ!trcv_pdq, PDQ!exists
  <2>2. CASE ~PDQ!receive_pridata
    <3>1. /\ TaskContext /\ wobj_wait(pdq_rwait, TS_WAITING_RPDQ, NULL, timed)
          /\ kernel.wait_queue[pdq_swait] = << >> /\ c.count = 0 /\ c.exists
          /\ UNCHANGED p_pdqcb
      BY <1>22, <2>2, PdqKernel DEF PDQ!trcv_pdq, PDQ!swaiting, PDQ!exists
    <3>2. /\ TS_WAITING_RPDQ \in States /\ TSTAT_WAITING(TS_WAITING_RPDQ)
      BY DEF TS_WAITING_RPDQ, States, TSTAT_WAITING, WaitFactor, WobjFactor
    <3>3. Sound' /\ Joins(kernel, kernel', p_runtsk, pdq_rwait, NULL) /\ p_runtsk \in Task
      <4> DEFINE s == TS_WAITING_RPDQ
                 info == NULL
      <4>1. info \in WINFO /\ pdq_rwait \notin TPRI
        BY NullWinfo, SevenQueues
      <4> HIDE DEF s, info
      <4> QED BY <1>1, <3>1, <3>2, <4>1, WaitStep DEF s, info
    <3>4. Elsewhere(kernel, kernel', {pdq_rwait})
      BY <3>3, JoinsElsewhere
    <3>5. NobodyWaits(kernel', pdq_swait)
      BY <1>1, <1>2, <3>1, <3>4, NobodyNew
    <3>6. Elsewhere(kernel, kernel', {pdq_swait, pdq_rwait})
      BY <3>4 DEF Elsewhere
    <3>7. OffersIn(kernel', pdq_swait, Item)
      BY <1>1, <3>3, OffersJoined DEF PdqOK
    <3> QED BY <1>6, <1>7, <3>1, <3>3, <3>5, <3>6, <3>7 DEF Goal, PdqOK, Typed, OffersIn
  <2> QED BY <2>1, <2>2
<1> QED BY <1>15, <1>16, <1>17, <1>18, <1>20, <1>21, <1>22 DEF PDQ!Services, Goal

--------------------------------------------------------------------------
(* The event flag.                                                         *)
LEMMA FlgRelease ==
  \A s, t : FLG!release(s, t) =
    IF FLG!flg_cond(s.flgptn, s.k.tcb[t].winfo)
    THEN [k |-> Taken(s.k, Flg, t), flgptn |-> FLG!after_cond(s.flgptn)]
    ELSE s
<1>1. ASSUME NEW q, NEW t PROVE FLG!RemoveFirst(q, t) = RemoveFirst(q, t)
  BY DEF RemoveFirst, FLG!RemoveFirst, RemoveAt, FLG!RemoveAt,
         SelectInSeq, FLG!SelectInSeq, Min, FLG!Min
<1>2. ASSUME NEW k, NEW t
      PROVE  FLG!wait_complete([k EXCEPT !.wait_queue[Flg] = FLG!RemoveFirst(@, t)], t)
               = Taken(k, Flg, t)
  BY <1>1, FlgKernel DEF Taken
<1> QED BY <1>2 DEF FLG!release

(* The conditions hold in fewer patterns with fewer bits, and in none      *)
(* without a bit.                                                          *)
LEMMA FlgCond ==
  ASSUME NEW c \in FLG!Condition, NEW ptn, ~FLG!flg_cond(ptn, c)
  PROVE  /\ \A p : p \subseteq ptn => ~FLG!flg_cond(p, c)
         /\ ~FLG!flg_cond(FLG!after_cond(ptn), c)
<1>1. c.waiptn # {}
  BY DEF FLG!Condition
<1> QED BY <1>1 DEF FLG!flg_cond, FLG!after_cond

LEMMA FlgEmpty ==
  ASSUME NEW c \in FLG!Condition
  PROVE  ~FLG!flg_cond({}, c)
BY DEF FLG!flg_cond, FLG!Condition

--------------------------------------------------------------------------
(* The loop of set_flg(): its states, and what holds of them.              *)
Releases(s, g, n) ==
  g = [i \in 0..n |-> IF i = 0 THEN s
                      ELSE FLG!release(g[i - 1], s.k.wait_queue[Flg][i])]

(* The tasks from the place i + 1 on are as they were, and those before    *)
(* that still wait do so for a condition that does not hold.               *)
Turn(k, q, s, i) ==
  /\ Tidy(s.k, WINFO, {})
  /\ Leaves(k, s.k)
  /\ \A j \in i + 1..Len(q) : s.k.tcb[q[j]] = k.tcb[q[j]]
  /\ \A j \in 1..i : Waits(s.k.tcb[q[j]], Flg) =>
       ~FLG!flg_cond(s.flgptn, s.k.tcb[q[j]].winfo)

Conditions(k) ==
  \A t \in Task : Waits(k.tcb[t], Flg) => k.tcb[t].winfo \in FLG!Condition

LEMMA ReleasesExists ==
  ASSUME NEW s, NEW n \in Nat
  PROVE  \E g : Releases(s, g, n)
<1> DEFINE k0 == s
           q  == s.k.wait_queue[Flg]
           D(g, i) == g = [j \in 0..i |-> IF j = 0 THEN k0
                                          ELSE FLG!release(g[j - 1], q[j])]
           S  == {i \in Nat : ~\E g : D(g, i)}
<1>1. \A g, i : Releases(s, g, i) <=> D(g, i)
  BY DEF Releases
<1> HIDE DEF k0, q
<1> HIDE DEF D
<1>2. SUFFICES ASSUME S # {} PROVE FALSE
  BY <1>1
<1>3. PICK i \in S : \A j \in S : i <= j
  <2>1. S \subseteq Nat
    OBVIOUS
  <2> HIDE DEF S
  <2> QED BY <1>2, <2>1, LeastNat
<1>4. i \in Nat
  BY <1>3
<1>5. CASE i = 0
  <2> DEFINE g == [j \in 0..0 |-> k0]
  <2>1. D(g, 0)
    BY DEF D
  <2> HIDE DEF g
  <2> QED BY <1>3, <1>5, <2>1
<1>6. CASE i > 0
  <2>1. i - 1 \in Nat /\ i - 1 \notin S
    <3> HIDE DEF S
    <3> QED BY <1>3, <1>4, <1>6
  <2>2. PICK g : D(g, i - 1)
    BY <2>1
  <2> DEFINE x == FLG!release(g[i - 1], q[i])
             h == [j \in 0..i |-> IF j = i THEN x ELSE g[j]]
  <2>3. \A j \in 0..i - 1 : h[j] = g[j]
    BY <1>4, <1>6
  <2>4. h[i] = FLG!release(h[i - 1], q[i])
    BY <1>4, <1>6, <2>3
  <2>5. \A j \in 0..i : h[j] = IF j = 0 THEN k0 ELSE FLG!release(h[j - 1], q[j])
    <3>1. CASE i \in Nat /\ i > 0
      <4> TAKE j \in 0..i
      <4>1. CASE j = i
        BY <2>4, <3>1, <4>1
      <4>2. CASE j # i
        <5>1. j \in 0..i - 1 /\ (j > 0 => j - 1 \in 0..i - 1)
          BY <3>1, <4>2
        <5>2. h[j] = g[j] /\ (j > 0 => h[j - 1] = g[j - 1])
          BY <2>3, <5>1
        <5>3. g[j] = IF j = 0 THEN k0 ELSE FLG!release(g[j - 1], q[j])
          BY <2>2, <5>1 DEF D
        <5> HIDE DEF h
        <5> QED BY <5>1, <5>2, <5>3
      <4> QED BY <4>1, <4>2
    <3> QED BY <1>4, <1>6, <3>1
  <2>6. h = [j \in 0..i |-> h[j]]
    OBVIOUS
  <2> HIDE DEF h, x
  <2>7. D(h, i)
    BY <2>5, <2>6 DEF D
  <2> QED BY <1>3, <2>7
<1> QED BY <1>4, <1>5, <1>6

LEMMA TurnStep ==
  ASSUME NEW k, Tidy(k, WINFO, {}), Conditions(k), NEW q, q = k.wait_queue[Flg],
         NEW i \in Nat, i < Len(q), NEW s, Turn(k, q, s, i)
  PROVE  Turn(k, q, FLG!release(s, q[i + 1]), i + 1)
<1> DEFINE t  == q[i + 1]
           n  == Len(q)
           W  == Waiters(k, {}, Flg)
           s2 == FLG!release(s, t)
           k1 == s.k
<1>1. Flg \in WaitQueue
  BY SevenQueues
<1>2. QueueOf(q, W)
  BY <1>1 DEF Tidy, QueuesOK, WaitQueueOK
<1>3. \A u \in W : u \in Task /\ Waits(k.tcb[u], Flg)
  BY DEF Waiters
<1> HIDE DEF W
<1>4. /\ n \in Nat /\ i < n
      /\ \A j \in 1..n : q[j] \in W
      /\ \A j, l \in 1..n : q[j] = q[l] => j = l
  BY <1>2, QueueIndex
<1> HIDE DEF n
<1>5. /\ \A j \in 1..n : q[j] \in Task /\ Waits(k.tcb[q[j]], Flg)
      /\ \A j \in 1..n : j # i + 1 => q[j] # t
      /\ i + 1 \in 1..n
  BY <1>3, <1>4
<1>6. /\ Tidy(k1, WINFO, {}) /\ Leaves(k, k1)
      /\ \A j \in i + 1..n : k1.tcb[q[j]] = k.tcb[q[j]]
      /\ \A j \in 1..i : Waits(k1.tcb[q[j]], Flg) =>
           ~FLG!flg_cond(s.flgptn, k1.tcb[q[j]].winfo)
  BY DEF Turn, n
<1>7. t \in Task /\ Waits(k1.tcb[t], Flg)
  <2>1. i + 1 \in i + 1..n
    BY <1>4
  <2> QED BY <1>5, <1>6, <2>1
<1>8. /\ \A j \in i + 2..n : j \in i + 1..n /\ j \in 1..n /\ j # i + 1
      /\ \A j \in 1..i + 1 : j # i + 1 => j \in 1..i /\ j \in 1..n
  BY <1>4
<1>9. s2 = IF FLG!flg_cond(s.flgptn, k1.tcb[t].winfo)
           THEN [k |-> Taken(k1, Flg, t), flgptn |-> FLG!after_cond(s.flgptn)]
           ELSE s
  BY FlgRelease
<1> HIDE DEF t, s2, k1
<1>10. CASE ~FLG!flg_cond(s.flgptn, k1.tcb[t].winfo)
  <2>1. s2 = s
    BY <1>9, <1>10
  <2>2. \A j \in i + 2..n : k1.tcb[q[j]] = k.tcb[q[j]]
    BY <1>6, <1>8
  <2>3. \A j \in 1..i + 1 : Waits(k1.tcb[q[j]], Flg) =>
          ~FLG!flg_cond(s.flgptn, k1.tcb[q[j]].winfo)
    BY <1>6, <1>8, <1>10 DEF t
  <2>4. i + 2 = (i + 1) + 1
    OBVIOUS
  <2> QED BY <1>6, <2>1, <2>2, <2>3, <2>4 DEF Turn, n, s2, k1, t
<1>11. CASE FLG!flg_cond(s.flgptn, k1.tcb[t].winfo)
  <2> DEFINE k2 == Taken(k1, Flg, t)
             p2 == FLG!after_cond(s.flgptn)
  <2>1. /\ Tidy(k2, WINFO, {})
        /\ OthersSame(k1, k2, t) /\ k2.tcb[t] = Woken(k1.tcb[t])
    BY <1>1, <1>6, <1>7, TakenOK
  <2> HIDE DEF k2, p2
  <2>2. s2.k = k2 /\ s2.flgptn = p2
    BY <1>9, <1>11 DEF k2, p2
  <2>3. \A w : ~Waits(k2.tcb[t], w)
    <3>1. k1.tcb[t] \in TCB(WINFO)
      BY <1>6, <1>7, TcbType DEF Tidy, QueuesOK
    <3> QED BY <2>1, <3>1, WokenOK
  <2>4. Leaves(k, k2)
    BY <1>6, <2>1, <2>3, LeavesOne, LeavesTrans
  <2>5. \A j \in i + 2..n : k2.tcb[q[j]] = k.tcb[q[j]]
    BY <1>5, <1>6, <1>8, <2>1 DEF OthersSame
  <2>6. \A j \in 1..i + 1 : Waits(k2.tcb[q[j]], Flg) =>
          ~FLG!flg_cond(p2, k2.tcb[q[j]].winfo)
    <3> SUFFICES ASSUME NEW j \in 1..i + 1, Waits(k2.tcb[q[j]], Flg)
                 PROVE  ~FLG!flg_cond(p2, k2.tcb[q[j]].winfo)
      OBVIOUS
    <3>1. j # i + 1
      BY <2>3 DEF t
    <3>2. j \in 1..i /\ q[j] \in Task /\ k2.tcb[q[j]] = k1.tcb[q[j]]
      BY <1>5, <1>8, <2>1, <3>1 DEF OthersSame
    <3> DEFINE c == k2.tcb[q[j]].winfo
    <3>3. ~FLG!flg_cond(s.flgptn, c)
      BY <1>6, <3>2
    <3>4. c \in FLG!Condition
      <4>1. Waits(k.tcb[q[j]], Flg) /\ c = k.tcb[q[j]].winfo
        BY <1>1, <2>4, <3>2 DEF Leaves, Stays
      <4> QED BY <3>2, <4>1 DEF Conditions
    <3> HIDE DEF c
    <3> QED BY <3>3, <3>4, FlgCond DEF p2, c
  <2>7. i + 2 = (i + 1) + 1
    OBVIOUS
  <2> QED BY <2>1, <2>2, <2>4, <2>5, <2>6, <2>7 DEF Turn, n, s2, t
<1> QED BY <1>10, <1>11

(* After the loop of set_flg() no task waits for a condition that holds.   *)
LEMMA FlgReleased ==
  ASSUME NEW k, Tidy(k, WINFO, {}), Conditions(k), NEW ptn
  PROVE  LET s == FLG!release_all([k |-> k, flgptn |-> ptn])
         IN  /\ Tidy(s.k, WINFO, {})
             /\ Leaves(k, s.k)
             /\ \A t \in Task : Waits(s.k.tcb[t], Flg) =>
                  ~FLG!flg_cond(s.flgptn, s.k.tcb[t].winfo)
<1> DEFINE s0 == [k |-> k, flgptn |-> ptn]
           q  == k.wait_queue[Flg]
           n  == Len(q)
           W  == Waiters(k, {}, Flg)
<1>1. Flg \in WaitQueue
  BY SevenQueues
<1>2. s0.k = k /\ s0.flgptn = ptn
  OBVIOUS
<1> HIDE DEF s0
<1>3. QueueOf(q, W)
  BY <1>1 DEF Tidy, QueuesOK, WaitQueueOK
<1>4. /\ n \in Nat
      /\ \A x \in W : \E j \in 1..n : q[j] = x
  <2> HIDE DEF W, q
  <2> QED BY <1>3, QueueIndex
<1>5. PICK g : Releases(s0, g, n) /\ FLG!release_all(s0) = g[n]
  <2> DEFINE f == CHOOSE g : Releases(s0, g, n)
  <2>1. \E g : Releases(s0, g, n)
    <3> HIDE DEF n
    <3> QED BY <1>4, ReleasesExists
  <2>2. FLG!release_all(s0) = f[n]
    BY <1>2 DEF FLG!release_all, Releases
  <2>3. Releases(s0, f, n)
    <3> HIDE DEF n
    <3> QED BY <2>1
  <2> QED BY <2>2, <2>3
<1>6. /\ g[0] = s0
      /\ \A i \in 1..n : g[i] = FLG!release(g[i - 1], q[i])
  <2>1. g = [i \in 0..n |-> IF i = 0 THEN s0 ELSE FLG!release(g[i - 1], q[i])]
    BY <1>2, <1>5 DEF Releases
  <2> HIDE DEF n, q
  <2> QED BY <1>4, <2>1
<1>7. Turn(k, q, g[0], 0)
  BY <1>2, <1>6 DEF Turn, Leaves, Stays
<1> HIDE DEF q, n
<1>8. \A i \in 0..n : Turn(k, q, g[i], i)
  <2> DEFINE S == {i \in 0..n : ~Turn(k, q, g[i], i)}
  <2>1. SUFFICES ASSUME S # {} PROVE FALSE
    OBVIOUS
  <2>2. PICK i \in S : \A j \in S : i <= j
    <3>1. S \subseteq Nat
      BY <1>4
    <3> HIDE DEF S
    <3> QED BY <2>1, <3>1, LeastNat
  <2>3. i \in 0..n /\ i # 0
    BY <1>7, <2>2
  <2> DEFINE j == i - 1
  <2>4. j \in Nat /\ j \in 0..n /\ j < n /\ i = j + 1 /\ i \in 1..n /\ ~(i <= j)
    BY <1>4, <2>3
  <2>5. Turn(k, q, g[j], j)
    BY <2>2, <2>4
  <2>6. g[i] = FLG!release(g[j], q[j + 1])
    BY <1>6, <2>4
  <2> HIDE DEF j
  <2>7. Turn(k, q, g[i], i)
    <3>1. q = k.wait_queue[Flg] /\ j < Len(q)
      BY <2>4 DEF q, n
    <3> QED BY <2>4, <2>5, <2>6, <3>1, TurnStep
  <2> QED BY <2>2, <2>7
<1> DEFINE s == g[n]
<1>9. /\ Tidy(s.k, WINFO, {}) /\ Leaves(k, s.k)
      /\ \A j \in 1..n : Waits(s.k.tcb[q[j]], Flg) =>
           ~FLG!flg_cond(s.flgptn, s.k.tcb[q[j]].winfo)
  <2>1. Turn(k, q, s, n)
    BY <1>4, <1>8
  <2> HIDE DEF s
  <2> QED BY <2>1 DEF Turn
<1>10. FLG!release_all(s0) = s
  BY <1>5
<1> HIDE DEF s
<1>11. ASSUME NEW t \in Task, Waits(s.k.tcb[t], Flg)
       PROVE  ~FLG!flg_cond(s.flgptn, s.k.tcb[t].winfo)
  <2>1. t \in W
    BY <1>1, <1>9, <1>11 DEF Leaves, Stays, W, Waiters
  <2> HIDE DEF W
  <2>2. PICK j \in 1..n : q[j] = t
    BY <1>4, <2>1
  <2> QED BY <1>9, <1>11, <2>2
<1> QED BY <1>9, <1>10, <1>11 DEF s0

(* The tasks that wait for the flag, with a pattern in which no condition  *)
(* of theirs holds; one task at most.                                      *)
FlgUnmet(k, ptn) ==
  \A t \in Task : Waits(k.tcb[t], Flg) =>
    k.tcb[t].winfo \in FLG!Condition /\ ~FLG!flg_cond(ptn, k.tcb[t].winfo)

FlgAlone(k) ==
  \A t, u \in Task : Waits(k.tcb[t], Flg) /\ Waits(k.tcb[u], Flg) => t = u

FlgOK ==
  /\ FlgUnmet(kernel, flgptn)
  /\ NobodyWaits(kernel, Flg) \/ (flg_exists /\ ("TA_WMUL" \in flgatr \/ FlgAlone(kernel)))

(* Fewer wait, for what no pattern of fewer bits has.                      *)
LEMMA UnmetLeaves ==
  ASSUME NEW k, NEW k2, NEW ptn, NEW p2, Leaves(k, k2), FlgUnmet(k, ptn),
         p2 \subseteq ptn \/ p2 = FLG!after_cond(ptn)
  PROVE  FlgUnmet(k2, p2)
<1> SUFFICES ASSUME NEW t \in Task, Waits(k2.tcb[t], Flg)
             PROVE  /\ k2.tcb[t].winfo \in FLG!Condition
                    /\ ~FLG!flg_cond(p2, k2.tcb[t].winfo)
  BY DEF FlgUnmet
<1>1. Waits(k.tcb[t], Flg) /\ k2.tcb[t].winfo = k.tcb[t].winfo
  BY SevenQueues DEF Leaves, Stays
<1> DEFINE c == k.tcb[t].winfo
<1>2. c \in FLG!Condition /\ ~FLG!flg_cond(ptn, c)
  BY <1>1 DEF FlgUnmet
<1> HIDE DEF c
<1>3. ~FLG!flg_cond(p2, c)
  BY <1>2, FlgCond
<1> QED BY <1>1, <1>2, <1>3 DEF c

LEMMA AloneLeaves ==
  ASSUME NEW k, NEW k2, Leaves(k, k2), FlgAlone(k)
  PROVE  FlgAlone(k2)
BY SevenQueues DEF Leaves, Stays, FlgAlone

LEMMA FlgSteps ==
  ASSUME Sound, FlgOK, FLG!Services
  PROVE  Sound' /\ FlgOK' /\ Elsewhere(kernel, kernel', {Flg})
<1> DEFINE Goal == Sound' /\ FlgOK' /\ Elsewhere(kernel, kernel', {Flg})
           Kept == Sound' /\ Leaves(kernel, kernel')
           Nobody == NobodyWaits(kernel, Flg)
<1>1. Flg \in WaitQueue
  BY SevenQueues
<1>2. kernel.wait_queue[Flg] = << >> <=> Nobody
  BY <1>1, EmptyQueue
<1>3. ASSUME Kept, FlgUnmet(kernel', flgptn'),
             Nobody \/ (flg_exists' /\ flgatr' = flgatr)
      PROVE  Goal
  <2>1. FlgAlone(kernel) => FlgAlone(kernel')
    BY <1>3, AloneLeaves
  <2>2. Nobody => NobodyWaits(kernel', Flg)
    BY <1>1, <1>3, NobodyLeft
  <2>3. FlgUnmet(kernel, flgptn)' /\ FlgAlone(kernel)' <=> FlgAlone(kernel')
    BY <1>3 DEF FlgUnmet, FlgAlone, FLG!flg_cond, FLG!Condition
  <2>4. NobodyWaits(kernel, Flg)' <=> NobodyWaits(kernel', Flg)
    BY DEF NobodyWaits
  <2> QED BY <1>3, <2>1, <2>2, <2>3, <2>4, LeavesElsewhere DEF FlgOK
<1>4. ASSUME Kept, NobodyWaits(kernel', Flg)
      PROVE  Goal
  BY <1>1, <1>4, LeavesElsewhere DEF FlgOK, NobodyWaits, FlgUnmet
<1>5. UNCHANGED taskVars => Kept
  BY NothingDone
<1>6. ASSUME Kept, flgptn' \subseteq flgptn \/ flgptn' = FLG!after_cond(flgptn)
      PROVE  FlgUnmet(kernel', flgptn')
  <2> DEFINE p2 == flgptn'
             k2 == kernel'
  <2>1. Leaves(kernel, k2) /\ FlgUnmet(kernel, flgptn)
        /\ (p2 \subseteq flgptn \/ p2 = FLG!after_cond(flgptn))
    BY <1>6 DEF FlgOK
  <2> HIDE DEF p2, k2
  <2>2. FlgUnmet(k2, p2)
    BY <2>1, UnmetLeaves
  <2> QED BY <2>2 DEF k2, p2
<1> HIDE DEF Kept
<1> HIDE DEF Goal
<1>7. ASSUME NEW atr, NEW iptn, FLG!acre_flg(atr, iptn) PROVE Goal
  <2>1. Kept /\ Nobody
    BY <1>5, <1>7, FlgKernel DEF FLG!acre_flg, FlgOK
  <2>2. kernel' = kernel
    BY <1>7, FlgKernel DEF FLG!acre_flg, taskVars
  <2> QED BY <1>4, <2>1, <2>2
<1>8. CASE FLG!del_flg
  BY <1>1, <1>4, <1>8, FlgKernel, ReleaseStep DEF FLG!del_flg, Kept, Goal
<1>9. ASSUME NEW setptn, FLG!set_flg(setptn) PROVE Goal
  <2> DEFINE ptn == flgptn \cup setptn
             s   == FLG!release_all([k |-> kernel, flgptn |-> ptn])
             k2  == s.k
             p2  == s.flgptn
  <2>1. /\ flg_exists /\ flg_exists' = flg_exists /\ flgatr' = flgatr
        /\ Dispatch(k2) /\ flgptn' = p2
    BY <1>9, FlgKernel DEF FLG!set_flg, FLG!inib
  <2>2. /\ Tidy(k2, WINFO, {})
        /\ Leaves(kernel, k2)
        /\ \A t \in Task : Waits(k2.tcb[t], Flg) => ~FLG!flg_cond(p2, k2.tcb[t].winfo)
    <3>1. Tidy(kernel, WINFO, {}) /\ Conditions(kernel)
      BY DEF Sound, SoundAt, FlgOK, FlgUnmet, Conditions
    <3> HIDE DEF ptn
    <3> QED BY <3>1, FlgReleased
  <2> HIDE DEF k2, p2, s
  <2>3. FlgUnmet(k2, p2)
    BY <1>1, <2>2 DEF FlgUnmet, FlgOK, Leaves, Stays
  <2>4. Sound' /\ Leaves(k2, kernel')
    BY <2>1, <2>2, Dispatched
  <2>5. Kept
    BY <2>2, <2>4, LeavesTrans DEF Kept
  <2>6. FlgUnmet(kernel', p2)
    BY <2>3, <2>4, UnmetLeaves
  <2> QED BY <1>3, <2>1, <2>5, <2>6
<1>10. ASSUME NEW clrptn, FLG!clr_flg(clrptn) PROVE Goal
  BY <1>3, <1>5, <1>6, <1>10, FlgKernel DEF FLG!clr_flg, FLG!inib
<1>11. ASSUME NEW c, FLG!pol_flg(c) PROVE Goal
  BY <1>3, <1>5, <1>6, <1>11, FlgKernel DEF FLG!pol_flg, FLG!inib
<1>12. ASSUME NEW c \in FLG!Condition, NEW timed \in BOOLEAN, FLG!twai_flg(c, timed)
       PROVE Goal
  <2>1. CASE FLG!flg_cond(flgptn, c)
    BY <1>3, <1>5, <1>6, <1>12, <2>1, FlgKernel DEF FLG!twai_flg, FLG!inib
  <2>2. CASE ~FLG!flg_cond(flgptn, c)
    <3>1. /\ TaskContext /\ wobj_wait(Flg, TS_WAITING_FLG, c, timed)
          /\ flg_exists' /\ flgatr' = flgatr /\ flgptn' = flgptn
          /\ "TA_WMUL" \in flgatr \/ Nobody
      BY <1>2, <1>12, <2>2, FlgKernel DEF FLG!twai_flg, FLG!inib, FLG!MayWait, FLG!wait_queue
    <3>2. /\ TS_WAITING_FLG \in States /\ TSTAT_WAITING(TS_WAITING_FLG)
          /\ TSTAT_WAIT_WOBJCB(TS_WAITING_FLG)
      BY DEF TS_WAITING_FLG, States, TSTAT_WAITING, TSTAT_WAIT_WOBJCB, WaitFactor,
             WobjFactor, WobjcbFactor
    <3>3. Sound' /\ Joins(kernel, kernel', p_runtsk, Flg, c) /\ p_runtsk \in Task
      <4> DEFINE s == TS_WAITING_FLG
      <4>1. c \in WINFO
        BY DEF WINFO
      <4> HIDE DEF s
      <4> QED BY <1>1, <3>1, <3>2, <4>1, WaitStep DEF s
    <3> DEFINE k2 == kernel'
               r  == p_runtsk
    <3>4. Joins(kernel, k2, r, Flg, c) /\ r \in Task
      BY <3>3
    <3> HIDE DEF k2, r
    <3>5. \A t \in Task : Waits(k2.tcb[t], Flg) =>
            \/ t = r /\ k2.tcb[t].winfo = c
            \/ Waits(kernel.tcb[t], Flg) /\ k2.tcb[t].winfo = kernel.tcb[t].winfo
      BY <1>1, <3>4 DEF Joins, Stays
    <3>6. FlgUnmet(k2, flgptn)
      BY <2>2, <3>5 DEF FlgUnmet, FlgOK
    <3>7. Nobody => FlgAlone(k2)
      BY <1>1, <3>5 DEF NobodyWaits, FlgAlone
    <3>8. "TA_WMUL" \in flgatr \/ FlgAlone(k2)
      BY <3>1, <3>7
    <3> HIDE DEF Nobody
    <3>9. FlgOK'
      <4>1. FlgUnmet(kernel, flgptn)'
        BY <3>1, <3>6 DEF k2, FlgUnmet, FLG!flg_cond, FLG!Condition
      <4>2. ("TA_WMUL" \in flgatr \/ FlgAlone(kernel))'
        BY <3>1, <3>8 DEF k2, FlgAlone
      <4> QED BY <3>1, <4>1, <4>2 DEF FlgOK
    <3>10. Elsewhere(kernel, kernel', {Flg})
      BY <3>3, JoinsElsewhere
    <3> QED BY <3>3, <3>9, <3>10 DEF Goal
  <2> QED BY <2>1, <2>2
<1>13. CASE FLG!ini_flg
  BY <1>1, <1>4, <1>13, FlgKernel, ReleaseStep DEF FLG!ini_flg, Kept, Goal
<1> QED BY <1>7, <1>8, <1>9, <1>10, <1>11, <1>12, <1>13 DEF FLG!Services, Goal

--------------------------------------------------------------------------
(* The objects together.  Each has wait queues of its own.                 *)
LEMMA Distinct ==
  /\ Sem \notin {Flg, Mpf, dtq_swait, dtq_rwait, pdq_swait, pdq_rwait}
  /\ Flg \notin {Mpf, dtq_swait, dtq_rwait, pdq_swait, pdq_rwait}
  /\ Mpf \notin {dtq_swait, dtq_rwait, pdq_swait, pdq_rwait}
  /\ dtq_swait \notin {pdq_swait, pdq_rwait}
  /\ dtq_rwait \notin {pdq_swait, pdq_rwait}
<1>1. Seven(Sem, Flg, Mpf, dtq_swait, dtq_rwait, pdq_swait, pdq_rwait)
  BY SyncObjectsAssumption DEF Seven
<1> QED BY <1>1, SevenDistinct

(* An object that does nothing, in a step that adds none to its queues.    *)
LEMMA SemStays ==
  ASSUME SemOK, NEW S, Elsewhere(kernel, kernel', S), Sem \notin S, UNCHANGED semVars
  PROVE  SemOK'
<1>1. NobodyWaits(kernel, Sem) => NobodyWaits(kernel', Sem)
  BY SevenQueues, NobodyNew
<1> QED BY <1>1 DEF SemOK, semVars, NobodyWaits

LEMMA MpfStays ==
  ASSUME MpfOK, NEW S, Elsewhere(kernel, kernel', S), Mpf \notin S, UNCHANGED mpfVars
  PROVE  MpfOK'
<1>1. NobodyWaits(kernel, Mpf) => NobodyWaits(kernel', Mpf)
  BY SevenQueues, NobodyNew
<1> QED BY <1>1 DEF MpfOK, mpfVars, NobodyWaits

LEMMA DtqStays ==
  ASSUME DtqOK, NEW S, Elsewhere(kernel, kernel', S),
         dtq_swait \notin S, dtq_rwait \notin S, UNCHANGED dtqVars
  PROVE  DtqOK'
<1>1. /\ NobodyWaits(kernel, dtq_swait) => NobodyWaits(kernel', dtq_swait)
      /\ NobodyWaits(kernel, dtq_rwait) => NobodyWaits(kernel', dtq_rwait)
  BY SevenQueues, NobodyNew
<1> QED BY <1>1 DEF DtqOK, dtqVars, NobodyWaits, DTQCB, DTQMB, WINFO

LEMMA PdqStays ==
  ASSUME PdqOK, NEW S, Elsewhere(kernel, kernel', S),
         pdq_swait \notin S, pdq_rwait \notin S, UNCHANGED pdqVars
  PROVE  PdqOK'
<1>1. /\ NobodyWaits(kernel, pdq_swait) => NobodyWaits(kernel', pdq_swait)
      /\ NobodyWaits(kernel, pdq_rwait) => NobodyWaits(kernel', pdq_rwait)
  BY SevenQueues, NobodyNew
<1>2. OffersIn(kernel', pdq_swait, Item)
  BY SevenQueues, OffersStay DEF PdqOK
<1> QED BY <1>1, <1>2 DEF PdqOK, pdqVars, NobodyWaits, PDQCB, OffersIn

LEMMA FlgStays ==
  ASSUME FlgOK, NEW S, Elsewhere(kernel, kernel', S), Flg \notin S, UNCHANGED flgVars
  PROVE  FlgOK'
<1>1. NobodyWaits(kernel, Flg) => NobodyWaits(kernel', Flg)
  BY SevenQueues, NobodyNew
<1>2. \A t \in Task : Waits(kernel'.tcb[t], Flg) =>
        Waits(kernel.tcb[t], Flg) /\ kernel'.tcb[t].winfo = kernel.tcb[t].winfo
  BY SevenQueues DEF Elsewhere
<1>3. FlgUnmet(kernel', flgptn) /\ (FlgAlone(kernel) => FlgAlone(kernel'))
  <2> DEFINE k2 == kernel'
  <2>1. \A t \in Task : Waits(k2.tcb[t], Flg) =>
          Waits(kernel.tcb[t], Flg) /\ k2.tcb[t].winfo = kernel.tcb[t].winfo
    BY <1>2
  <2> HIDE DEF k2
  <2>2. FlgUnmet(k2, flgptn) /\ (FlgAlone(kernel) => FlgAlone(k2))
    BY <2>1 DEF FlgOK, FlgUnmet, FlgAlone
  <2> QED BY <2>2 DEF k2
<1>4. flg_exists' = flg_exists /\ flgatr' = flgatr /\ flgptn' = flgptn
  BY DEF flgVars
<1>5. FlgUnmet(kernel, flgptn)'
  BY <1>3, <1>4 DEF FlgUnmet, FLG!flg_cond, FLG!Condition
<1>6. (FlgAlone(kernel)' <=> FlgAlone(kernel')) /\ (NobodyWaits(kernel, Flg)' <=> NobodyWaits(kernel', Flg))
  BY DEF FlgAlone, NobodyWaits
<1> QED BY <1>1, <1>3, <1>4, <1>5, <1>6 DEF FlgOK

(* The invariant.                                                          *)
SInv == Sound /\ SemOK /\ FlgOK /\ MpfOK /\ DtqOK /\ PdqOK

LEMMA InitSInv == Init => SInv
<1> SUFFICES ASSUME Init PROVE SInv
  OBVIOUS
<1>1. Sound /\ \A w \in WaitQueue : NobodyWaits(kernel, w)
  BY InitSound DEF Init
<1>2. SemOK /\ MpfOK /\ FlgOK
  BY <1>1, SevenQueues DEF SemOK, MpfOK, FlgOK, FlgUnmet, NobodyWaits
<1>3. DtqOK
  <2>1. p_dtqcb \in DTQCB /\ p_dtqcb.count = 0 /\ p_dtqcb.dtqcnt = 0
    BY NullWinfo DEF Init, DTQ!ObjectInit, DTQCB, DTQMB
  <2> QED BY <1>1, <2>1, SevenQueues DEF DtqOK
<1>4. PdqOK
  <2>1. PDQCB(p_pdqcb) /\ p_pdqcb.count = 0 /\ p_pdqcb.pdqcnt = 0
    BY NullWinfo DEF Init, PDQ!ObjectInit, PDQ!NoBlocks, PDQCB
  <2> QED BY <1>1, <2>1, SevenQueues DEF PdqOK, NobodyWaits, OffersIn
<1> QED BY <1>1, <1>2, <1>3, <1>4 DEF SInv

LEMMA NextSInv ==
  ASSUME SInv, [Next]_vars
  PROVE  SInv'
<1> USE DEF SInv
<1>1. CASE UNCHANGED vars
  <2> DEFINE S == {}
  <2>1. Sound' /\ Elsewhere(kernel, kernel', S)
    BY <1>1, NothingDone, LeavesElsewhere DEF vars
  <2> QED BY <1>1, <2>1, SemStays, MpfStays, DtqStays, PdqStays, FlgStays DEF vars
<1>2. CASE TaskNext /\ UNCHANGED <<semVars, flgVars, mpfVars, dtqVars, pdqVars>>
  <2> DEFINE S == {}
  <2>1. Sound' /\ Elsewhere(kernel, kernel', S)
    BY <1>2, TaskStep, LeavesElsewhere
  <2> QED BY <1>2, <2>1, SemStays, MpfStays, DtqStays, PdqStays, FlgStays
<1>3. CASE SEM!Services /\ UNCHANGED <<flgVars, mpfVars, dtqVars, pdqVars>>
  <2> DEFINE S == {Sem}
  <2>1. Sound' /\ SemOK' /\ Elsewhere(kernel, kernel', S)
    BY <1>3, SemSteps
  <2>2. /\ Flg \notin S /\ Mpf \notin S /\ dtq_swait \notin S /\ dtq_rwait \notin S
        /\ pdq_swait \notin S /\ pdq_rwait \notin S
    BY Distinct
  <2> HIDE DEF S
  <2> QED BY <1>3, <2>1, <2>2, MpfStays, DtqStays, PdqStays, FlgStays
<1>4. CASE FLG!Services /\ UNCHANGED <<semVars, mpfVars, dtqVars, pdqVars>>
  <2> DEFINE S == {Flg}
  <2>1. Sound' /\ FlgOK' /\ Elsewhere(kernel, kernel', S)
    BY <1>4, FlgSteps
  <2>2. /\ Sem \notin S /\ Mpf \notin S /\ dtq_swait \notin S /\ dtq_rwait \notin S
        /\ pdq_swait \notin S /\ pdq_rwait \notin S
    BY Distinct
  <2> HIDE DEF S
  <2> QED BY <1>4, <2>1, <2>2, SemStays, MpfStays, DtqStays, PdqStays
<1>5. CASE MPF!Services /\ UNCHANGED <<semVars, flgVars, dtqVars, pdqVars>>
  <2> DEFINE S == {Mpf}
  <2>1. Sound' /\ MpfOK' /\ Elsewhere(kernel, kernel', S)
    BY <1>5, MpfSteps
  <2>2. /\ Sem \notin S /\ Flg \notin S /\ dtq_swait \notin S /\ dtq_rwait \notin S
        /\ pdq_swait \notin S /\ pdq_rwait \notin S
    BY Distinct
  <2> HIDE DEF S
  <2> QED BY <1>5, <2>1, <2>2, SemStays, FlgStays, DtqStays, PdqStays
<1>6. CASE DTQ!Services /\ UNCHANGED <<semVars, flgVars, mpfVars, pdqVars>>
  <2> DEFINE S == {dtq_swait, dtq_rwait}
  <2>1. Sound' /\ DtqOK' /\ Elsewhere(kernel, kernel', S)
    BY <1>6, DtqSteps
  <2>2. /\ Sem \notin S /\ Flg \notin S /\ Mpf \notin S
        /\ pdq_swait \notin S /\ pdq_rwait \notin S
    BY Distinct
  <2> HIDE DEF S
  <2> QED BY <1>6, <2>1, <2>2, SemStays, FlgStays, MpfStays, PdqStays
<1>7. CASE PDQ!Services /\ UNCHANGED <<semVars, flgVars, mpfVars, dtqVars>>
  <2> DEFINE S == {pdq_swait, pdq_rwait}
  <2>1. Sound' /\ PdqOK' /\ Elsewhere(kernel, kernel', S)
    BY <1>7, PdqSteps
  <2>2. /\ Sem \notin S /\ Flg \notin S /\ Mpf \notin S
        /\ dtq_swait \notin S /\ dtq_rwait \notin S
    BY Distinct
  <2> HIDE DEF S
  <2> QED BY <1>7, <2>1, <2>2, SemStays, FlgStays, MpfStays, DtqStays
<1> QED BY <1>1, <1>2, <1>3, <1>4, <1>5, <1>6, <1>7 DEF Next

LEMMA Inductive == Spec => []SInv
BY InitSInv, NextSInv, PTL DEF Spec

--------------------------------------------------------------------------
(* Whatever ends a wait, a task is in the wait queue of the object that it *)
(* waits for, once, and in no other; a queue in priority order is sorted   *)
(* also after chg_pri(); only waiting tasks have a time event; each task   *)
(* that can run is in the ready queue of its priority, once; the first of  *)
(* the highest priority should run, and outside of handlers does; no       *)
(* assert() fails.                                                         *)
THEOREM KernelCorrect == Spec => []KernelOK
<1>1. SInv => KernelOK
  BY NullWinfo, SoundHere, KernelHolds DEF SInv
<1> QED BY <1>1, Inductive, PTL

(* No task waits for a resource, a block, room or data that is there, nor  *)
(* for a condition that holds, nor for an object that does not exist,      *)
(* whichever way the waits before its own ended: served, timed out,        *)
(* released, terminated, initialized or deleted.                           *)
THEOREM NobodyWaitsCorrect == Spec => []NobodyWaitsInVain
<1>1. ASSUME SInv PROVE NobodyWaitsInVain
  <2>1. \A w \in WaitQueue : kernel.wait_queue[w] = << >> <=> NobodyWaits(kernel, w)
    BY <1>1, EmptyQueue DEF SInv
  <2>2. SEM!NobodyWaitsInVain
    BY <1>1, <2>1, SevenQueues DEF SInv, SemOK, SEM!NobodyWaitsInVain, SEM!wait_queue
  <2>3. MPF!NobodyWaitsInVain
    BY <1>1, <2>1, SevenQueues DEF SInv, MpfOK, MPF!NobodyWaitsInVain, MPF!wait_queue
  <2>4. ASSUME NEW p, NEW q, p = << >>, q = << >> PROVE p \o q = << >>
    BY <2>4
  <2>5. DTQ!NobodyWaitsInVain
    <3> DEFINE s == kernel.wait_queue[dtq_swait]
               r == kernel.wait_queue[dtq_rwait]
    <3>1. /\ r # << >> => p_dtqcb.exists /\ p_dtqcb.count = 0 /\ s = << >>
          /\ s # << >> => p_dtqcb.exists /\ p_dtqcb.count = p_dtqcb.dtqcnt
      BY <1>1, <2>1, SevenQueues DEF SInv, DtqOK
    <3> HIDE DEF s, r
    <3>2. s \o r # << >> => p_dtqcb.exists
      BY <2>4, <3>1
    <3> QED BY <3>1, <3>2 DEF s, r, DTQ!NobodyWaitsInVain, DTQ!swaiting, DTQ!rwaiting,
               DTQ!dtqcnt, DTQ!exists
  <2>6. PDQ!NobodyWaitsInVain
    <3> DEFINE s == kernel.wait_queue[pdq_swait]
               r == kernel.wait_queue[pdq_rwait]
    <3>1. /\ r # << >> => p_pdqcb.exists /\ p_pdqcb.count = 0 /\ s = << >>
          /\ s # << >> => p_pdqcb.exists /\ p_pdqcb.count = p_pdqcb.pdqcnt
      BY <1>1, <2>1, SevenQueues DEF SInv, PdqOK
    <3> HIDE DEF s, r
    <3>2. s \o r # << >> => p_pdqcb.exists
      BY <2>4, <3>1
    <3> QED BY <3>1, <3>2 DEF s, r, PDQ!NobodyWaitsInVain, PDQ!swaiting, PDQ!rwaiting,
               PDQ!exists
  <2>7. FLG!NobodyWaitsInVain
    <3> DEFINE q == kernel.wait_queue[Flg]
               W == Waiters(kernel, {}, Flg)
    <3>1. QueueOf(q, W)
      BY <1>1, SevenQueues DEF SInv, Sound, SoundAt, Tidy, QueuesOK, WaitQueueOK
    <3>2. /\ FlgUnmet(kernel, flgptn)
          /\ q # << >> => flg_exists /\ ("TA_WMUL" \in flgatr \/ FlgAlone(kernel))
      BY <1>1, <2>1, SevenQueues DEF SInv, FlgOK
    <3>3. W \subseteq Task /\ \A t \in W : Waits(kernel.tcb[t], Flg)
      BY DEF Waiters
    <3> HIDE DEF q, W
    <3>4. /\ Len(q) \in Nat /\ DOMAIN q = 1..Len(q)
          /\ \A i \in 1..Len(q) : q[i] \in W
          /\ \A i, j \in 1..Len(q) : q[i] = q[j] => i = j
      BY <3>1, QueueIndex
    <3>5. \A i \in DOMAIN q : ~FLG!flg_cond(flgptn, kernel.tcb[q[i]].winfo)
      BY <3>2, <3>3, <3>4 DEF FlgUnmet
    <3>6. ASSUME Len(q) > 1 PROVE "TA_WMUL" \in flgatr
      <4>1. 1 \in 1..Len(q) /\ 2 \in 1..Len(q) /\ q # << >>
        BY <3>4, <3>6
      <4>2. q[1] \in W /\ q[2] \in W /\ q[1] # q[2]
        BY <3>4, <4>1
      <4>3. ~FlgAlone(kernel)
        BY <3>3, <4>2 DEF FlgAlone
      <4> QED BY <3>2, <4>1, <4>3
    <3> QED BY <3>2, <3>5, <3>6 DEF q, FLG!NobodyWaitsInVain, FLG!wait_queue
  <2> QED BY <2>2, <2>3, <2>5, <2>6, <2>7 DEF NobodyWaitsInVain
<1> QED BY <1>1, Inductive, PTL

--------------------------------------------------------------------------
(* What the management areas hold.  An object's area changes by its own    *)
(* services alone.                                                         *)

(* The semaphore's count.                                                  *)
SemStored ==
  /\ semcnt \in Nat /\ isemcnt \in Nat /\ maxsem \in Nat
  /\ semcnt <= maxsem /\ isemcnt <= maxsem

LEMMA SemStores ==
  ASSUME SemStored, SEM!Services
  PROVE  SemStored'
<1> USE DEF SemStored, SEM!inib
<1>1. ASSUME NEW icnt \in 0..TMAX_MAXSEM, NEW max \in 1..TMAX_MAXSEM,
             SEM!acre_sem(icnt, max)
      PROVE  SemStored'
  <2>1. icnt \in Nat /\ max \in Nat /\ icnt <= max
    BY <1>1 DEF SEM!acre_sem
  <2> QED BY <1>1, <2>1 DEF SEM!acre_sem
<1>2. CASE SEM!del_sem
  BY <1>2 DEF SEM!del_sem
<1>3. CASE SEM!sig_sem
  BY <1>3 DEF SEM!sig_sem
<1>4. CASE SEM!pol_sem
  BY <1>4 DEF SEM!pol_sem, SEM!GetResource
<1>5. CASE SEM!ini_sem
  BY <1>5 DEF SEM!ini_sem
<1>6. ASSUME NEW timed \in BOOLEAN, SEM!twai_sem(timed) PROVE SemStored'
  BY <1>6 DEF SEM!twai_sem, SEM!GetResource
<1> QED BY <1>1, <1>2, <1>3, <1>4, <1>5, <1>6 DEF SEM!Services

(* The ring of the data queue.                                             *)
Ring(q) == RingAt(q.dtqcnt, q.count, q.head, q.tail)

LEMMA RingKept ==
  ASSUME NEW q \in DTQCB, Ring(q)
  PROVE  /\ \A data \in WINFO : q.count < q.dtqcnt => Ring(DTQ!enqueue_data(q, data))
         /\ \A data \in WINFO : q.dtqcnt > 0 => Ring(DTQ!force_enqueue_data(q, data))
         /\ q.count > 0 => Ring(DTQ!dequeue_data(q))
         /\ Ring(DTQ!Empty(q))
<1> DEFINE n == q.dtqcnt
           c == q.count
           h == q.head
           t == q.tail
<1>1. RingAt(n, c, h, t)
  BY DEF Ring
<1>2. /\ c < n => RingAt(n, c + 1, h, NextAt(n, t))
      /\ c = n /\ n > 0 => RingAt(n, c, NextAt(n, t), NextAt(n, t))
      /\ c > 0 => RingAt(n, c - 1, NextAt(n, h), t)
      /\ RingAt(n, 0, 0, 0)
      /\ n \in Nat /\ c \in Nat /\ c <= n
  <2> HIDE DEF n, c, h, t
  <2>1. n \in Nat /\ c \in Nat /\ c <= n
    BY <1>1 DEF RingAt
  <2> QED BY <1>1, <2>1, RingMoves, RingEmpty
<1>3. ASSUME NEW data \in WINFO, c < n PROVE Ring(DTQ!enqueue_data(q, data))
  <2> DEFINE q2 == DTQ!enqueue_data(q, data)
  <2>1. q2.dtqcnt = n /\ q2.count = c + 1 /\ q2.head = h /\ q2.tail = NextAt(n, t)
    BY DtqcbOK
  <2> HIDE DEF q2, n, c, h, t
  <2> QED BY <1>2, <1>3, <2>1 DEF Ring, q2
<1>4. ASSUME NEW data \in WINFO, n > 0 PROVE Ring(DTQ!force_enqueue_data(q, data))
  <2> DEFINE q2 == DTQ!force_enqueue_data(q, data)
  <2>1. /\ q2.dtqcnt = n /\ q2.count = IF c < n THEN c + 1 ELSE c
        /\ q2.head = IF c < n THEN h ELSE q2.tail
        /\ q2.tail = NextAt(n, t)
    BY DtqcbOK
  <2> HIDE DEF q2, n, c, h, t
  <2>2. ~(c < n) => c = n
    BY <1>2
  <2>3. Ring(q2)
    BY <1>2, <1>4, <2>1, <2>2 DEF Ring
  <2> QED BY <2>3 DEF q2
<1>5. ASSUME c > 0 PROVE Ring(DTQ!dequeue_data(q))
  <2> DEFINE q2 == DTQ!dequeue_data(q)
  <2>1. q2.dtqcnt = n /\ q2.count = c - 1 /\ q2.head = NextAt(n, h) /\ q2.tail = t
    BY <1>5, DtqcbOK
  <2> HIDE DEF q2, n, c, h, t
  <2> QED BY <1>2, <1>5, <2>1 DEF Ring, q2
<1>6. Ring(DTQ!Empty(q))
  <2> DEFINE q2 == DTQ!Empty(q)
  <2>1. q2.dtqcnt = n /\ q2.count = 0 /\ q2.head = 0 /\ q2.tail = 0
    BY DtqcbOK
  <2> HIDE DEF q2, n, c, h, t
  <2> QED BY <1>2, <2>1 DEF Ring, q2
<1> QED BY <1>3, <1>4, <1>5, <1>6

(* Deleting and creating again.                                            *)
LEMMA RingReset ==
  ASSUME NEW q \in DTQCB
  PROVE  /\ Ring(q) => Ring([q EXCEPT !.exists = FALSE])
         /\ \A e \in BOOLEAN, n \in Nat :
              Ring([DTQ!Empty(q) EXCEPT !.exists = e, !.dtqcnt = n])
<1>1. Ring(q) => Ring([q EXCEPT !.exists = FALSE])
  BY DEF Ring, DTQCB
<1>2. ASSUME NEW e \in BOOLEAN, NEW n \in Nat
      PROVE  Ring([DTQ!Empty(q) EXCEPT !.exists = e, !.dtqcnt = n])
  <2> DEFINE q1 == DTQ!Empty(q)
             q2 == [q1 EXCEPT !.exists = e, !.dtqcnt = n]
  <2>1. q1 \in DTQCB /\ q1.count = 0 /\ q1.head = 0 /\ q1.tail = 0
    BY DtqcbOK
  <2> HIDE DEF q1
  <2>2. q2.count = 0 /\ q2.head = 0 /\ q2.tail = 0 /\ q2.dtqcnt = n
    BY <2>1 DEF DTQCB
  <2> HIDE DEF q2
  <2> QED BY <2>2, RingEmpty DEF Ring, q1, q2
<1> QED BY <1>1, <1>2

LEMMA DtqStores ==
  ASSUME Sound, DtqOK, Ring(p_dtqcb), DTQ!Services
  PROVE  Ring(p_dtqcb')
<1> DEFINE c == p_dtqcb
           d == p_dtqcb'
           Goal == Ring(d)
<1>1. c \in DTQCB /\ c.count <= c.dtqcnt /\ c.count \in Nat /\ c.dtqcnt \in Nat
  BY DEF DtqOK, DTQCB
<1>2. d = c => Goal
  OBVIOUS
<1> HIDE DEF Goal
<1>3. ASSUME NEW data \in Data, DTQ!send_data(data) PROVE Goal
  <2>1. d = c \/ (c.count < c.dtqcnt /\ d = DTQ!enqueue_data(c, data))
    BY <1>3 DEF DTQ!send_data, DTQ!hand_over, DTQ!dtqcnt
  <2> QED BY <1>1, <1>2, <2>1, RingKept DEF WINFO, Goal
<1>4. ASSUME NEW data \in Data, DTQ!fsnd_dtq(data) PROVE Goal
  <2>1. d = c \/ (c.dtqcnt > 0 /\ d = DTQ!force_enqueue_data(c, data))
    BY <1>4 DEF DTQ!fsnd_dtq, DTQ!force_send_data, DTQ!hand_over, DTQ!dtqcnt
  <2> QED BY <1>1, <1>2, <2>1, RingKept DEF WINFO, Goal
<1>5. ASSUME DTQ!receive_data PROVE Goal
  <2> DEFINE q == DTQ!dequeue_data(c)
             s == DTQ!sent
  <2>1. CASE c.count > 0 /\ d = q
    BY <1>1, <2>1, RingKept DEF Goal
  <2>2. CASE /\ c.count > 0 /\ d = DTQ!enqueue_data(q, s)
             /\ kernel.wait_queue[dtq_swait] # << >>
    <3>1. s \in WINFO
      <4> DEFINE t == Head(kernel.wait_queue[dtq_swait])
      <4>1. t \in Task /\ kernel \in SSet(WINFO)
        BY <2>2, SevenQueues, ServedOK DEF Sound, SoundAt, Tidy, QueuesOK
      <4>2. s = kernel.tcb[t].winfo
        BY DEF DTQ!sent, DTQ!swaiting
      <4> HIDE DEF t
      <4> QED BY <4>1, <4>2, TcbType
    <3>2. q \in DTQCB /\ q.count < q.dtqcnt /\ Ring(q)
      <4>1. q \in DTQCB /\ q.count = c.count - 1 /\ q.dtqcnt = c.dtqcnt
        BY <1>1, <2>2, DtqcbOK
      <4>2. Ring(q)
        BY <1>1, <2>2, RingKept
      <4> HIDE DEF q
      <4> QED BY <1>1, <4>1, <4>2
    <3> HIDE DEF q, s
    <3> QED BY <2>2, <3>1, <3>2, RingKept DEF Goal
  <2>3. CASE d = c
    BY <1>2, <2>3
  <2> QED BY <1>5, <2>1, <2>2, <2>3 DEF DTQ!receive_data, DTQ!swaiting
<1>6. ASSUME NEW cnt \in 0..MaxDtqcnt, DTQ!acre_dtq(cnt) PROVE Goal
  <2>1. cnt \in Nat
    OBVIOUS
  <2> QED BY <1>1, <1>6, <2>1, RingReset DEF DTQ!acre_dtq, Goal
<1>7. CASE DTQ!del_dtq
  BY <1>1, <1>7, RingReset DEF DTQ!del_dtq, Goal
<1>8. CASE DTQ!ini_dtq
  BY <1>1, <1>8, RingKept DEF DTQ!ini_dtq, Goal
<1>9. ASSUME NEW data \in Data, DTQ!psnd_dtq(data) PROVE Goal
  BY <1>3, <1>9 DEF DTQ!psnd_dtq
<1>10. ASSUME NEW data \in Data, NEW timed \in BOOLEAN, DTQ!tsnd_dtq(data, timed)
       PROVE  Goal
  BY <1>2, <1>3, <1>10 DEF DTQ!tsnd_dtq
<1>11. CASE DTQ!prcv_dtq
  BY <1>5, <1>11 DEF DTQ!prcv_dtq, Goal
<1>12. ASSUME NEW timed \in BOOLEAN, DTQ!trcv_dtq(timed) PROVE Goal
  BY <1>2, <1>5, <1>12 DEF DTQ!trcv_dtq
<1> QED BY <1>4, <1>6, <1>7, <1>8, <1>9, <1>10, <1>11, <1>12 DEF DTQ!Services, Goal

(* The blocks of the priority data queue: those in use hold items.         *)
Pri(mb) == [b \in 0..MaxPdqcnt-1 |-> mb[b].datapri]

StoredAt(n, c, h, f, u, mb) ==
  /\ n \in 0..MaxPdqcnt /\ c = Len(h)
  /\ mb \in [0..MaxPdqcnt-1 -> Item \cup {NULL}]
  /\ \A b \in ToSet(h) : mb[b] \in Item
  /\ PriBlocks(Pri(mb), h, f, u, n)

Stored(q) == StoredAt(q.pdqcnt, q.count, q.p_head, q.p_freelist, q.unused, q.p_pdqmb)

LEMMA ItemPri == /\ \A item \in Item : item.datapri \in Nat
                 /\ MaxPdqcnt \in Nat
BY SyncObjectsAssumption DEF PDQ!PriDataQueueAssumption

LEMMA StoredBlocks ==
  ASSUME NEW n, NEW c, NEW h, NEW f, NEW u, NEW mb, StoredAt(n, c, h, f, u, mb)
  PROVE  /\ n \in Nat /\ n <= MaxPdqcnt /\ u \in Nat /\ u <= n /\ Blocks(h, f, u)
         /\ QueueOf(h, ToSet(h)) /\ Len(h) \in Nat
         /\ \A b \in ToSet(h) : b \in 0..MaxPdqcnt-1
         /\ \A b \in ToSet(f) : b \in 0..MaxPdqcnt-1
<1>1. /\ n \in Nat /\ n <= MaxPdqcnt /\ u \in Nat /\ u <= n /\ Blocks(h, f, u)
      /\ QueueOf(h, ToSet(h)) /\ ToSet(h) \cup ToSet(f) = 0..u-1
  BY ItemPri DEF StoredAt, PriBlocks, Blocks
<1>2. Len(h) \in Nat
  BY <1>1, QueueIndex
<1>3. 0..u-1 \subseteq 0..MaxPdqcnt-1
  BY <1>1, ItemPri
<1> QED BY <1>1, <1>2, <1>3

(* The place of the first block that holds a lower priority than pri.      *)
Below(mb, h, pri) == PDQ!SelectInSeq(h, LAMBDA x : mb[x].datapri > pri)

LEMMA BlockFilled ==
  ASSUME NEW n, NEW c, NEW h, NEW f, NEW u, NEW mb, StoredAt(n, c, h, f, u, mb), c < n,
         NEW item \in Item,
         NEW b, b = IF f # << >> THEN Head(f) ELSE u,
         NEW i, i = Below(mb, h, item.datapri)
  PROVE  StoredAt(n, c + 1, IF i = 0 THEN Append(h, b) ELSE PDQ!InsertAt(h, i, b),
                  IF f # << >> THEN Tail(f) ELSE f, IF f # << >> THEN u ELSE u + 1,
                  [mb EXCEPT ![b] = item])
<1> DEFINE A   == ToSet(h)
           D   == 0..MaxPdqcnt-1
           mb2 == [mb EXCEPT ![b] = item]
           f2  == IF f # << >> THEN Tail(f) ELSE f
           u2  == IF f # << >> THEN u ELSE u + 1
           h2  == PutAt(h, i, b)
           key2 == Pri(mb2)
<1>1. /\ n \in Nat /\ n <= MaxPdqcnt /\ u \in Nat /\ u <= n /\ Blocks(h, f, u)
      /\ QueueOf(h, A) /\ Len(h) \in Nat
      /\ \A x \in A : x \in D
      /\ \A x \in ToSet(f) : x \in D
  BY StoredBlocks
<1>2. /\ n \in 0..MaxPdqcnt /\ c = Len(h)
      /\ mb \in [D -> Item \cup {NULL}]
      /\ \A x \in A : mb[x] \in Item
      /\ PriBlocks(Pri(mb), h, f, u, n)
  BY DEF StoredAt
<1>3. b \in D /\ b \notin A
  <2>1. /\ f # << >> => Head(f) \in ToSet(f) /\ Head(f) \notin A
        /\ f = << >> => u \notin A /\ Len(h) = u
    BY <1>1, BlockFree
  <2>2. CASE f # << >>
    BY <1>1, <2>1, <2>2
  <2>3. CASE f = << >>
    <3>1. b = u /\ u < n
      BY <1>2, <2>1, <2>3
    <3> QED BY <1>1, <2>1, <2>3, <3>1, ItemPri
  <2> QED BY <2>2, <2>3
<1>4. /\ mb2 \in [D -> Item \cup {NULL}] /\ mb2[b] = item
      /\ \A x \in A : mb2[x] = mb[x]
  <2> HIDE DEF A, D
  <2> QED BY <1>1, <1>2, <1>3
<1>5. \A x \in A : mb[x].datapri \in Nat /\ Pri(mb)[x] = mb[x].datapri
  BY <1>1, <1>2, ItemPri DEF Pri
<1>6. /\ key2[b] = item.datapri /\ key2[b] \in Nat
      /\ \A x \in A : key2[x] = Pri(mb)[x] /\ key2[x] = mb[x].datapri
  <2> HIDE DEF mb2
  <2> QED BY <1>1, <1>3, <1>4, <1>5, ItemPri DEF Pri
<1> HIDE DEF key2, mb2
<1>7. i = Place(key2, h, b)
  <2>1. \A j \in 1..Len(h) : h[j] \in A
    BY <1>1, QueueIndex
  <2> DEFINE B == {j \in 1..Len(h) : mb[h[j]].datapri > item.datapri}
  <2>2. Behind(key2, h, b) = B
    <3> HIDE DEF A
    <3>1. \A j \in 1..Len(h) : key2[b] < key2[h[j]] <=> mb[h[j]].datapri > item.datapri
      BY <1>5, <1>6, <2>1, ItemPri
    <3> QED BY <3>1 DEF Behind
  <2>3. i = IF B # {} THEN Min(B) ELSE 0
    <3>1. i = Below(mb, h, item.datapri)
      OBVIOUS
    <3> QED BY ONLY <3>1 DEF Below, PDQ!SelectInSeq, PDQ!Min, Min
  <2> HIDE DEF B
  <2> QED BY ONLY <2>2, <2>3 DEF Place
<1>8. h2 = IF i = 0 THEN Append(h, b) ELSE PDQ!InsertAt(h, i, b)
  BY DEF PutAt, InsertAt, PDQ!InsertAt
<1> HIDE DEF h2
<1>9. PriBlocks(key2, h2, f2, u2, n) /\ Len(h2) = Len(h) + 1 /\ ToSet(h2) = A \cup {b}
  <2>1. /\ Len(h) < n /\ PriBlocks(Pri(mb), h, f, u, n)
        /\ key2[b] \in Nat /\ \A x \in ToSet(h) : key2[x] = Pri(mb)[x]
        /\ b = IF f # << >> THEN Head(f) ELSE u
        /\ i = Place(key2, h, b)
    BY <1>2, <1>6, <1>7
  <2>2. LET r == PutAt(h, i, b)
        IN  /\ PriBlocks(key2, r, IF f # << >> THEN Tail(f) ELSE f,
                         IF f # << >> THEN u ELSE u + 1, n)
            /\ Len(r) = Len(h) + 1 /\ ToSet(r) = ToSet(h) \cup {b}
    BY ONLY <2>1, PriTaken
  <2> QED BY ONLY <2>2 DEF h2, f2, u2, A
<1> HIDE DEF f2, u2
<1>10. \A x \in ToSet(h2) : mb2[x] \in Item
  BY <1>2, <1>4, <1>9
<1>11. StoredAt(n, c + 1, h2, f2, u2, mb2)
  BY <1>2, <1>4, <1>9, <1>10 DEF StoredAt, key2
<1> QED BY <1>8, <1>11 DEF f2, u2, mb2

LEMMA BlockEmptied ==
  ASSUME NEW n, NEW c, NEW h, NEW f, NEW u, NEW mb, StoredAt(n, c, h, f, u, mb), c > 0
  PROVE  StoredAt(n, c - 1, Tail(h), PDQ!Cons(Head(h), f), u, [mb EXCEPT ![Head(h)] = NULL])
<1> DEFINE A   == ToSet(h)
           D   == 0..MaxPdqcnt-1
           b   == Head(h)
           mb2 == [mb EXCEPT ![b] = NULL]
           h2  == Tail(h)
           f2  == Cons(b, f)
           key2 == Pri(mb2)
<1>1. /\ n \in Nat /\ n <= MaxPdqcnt /\ u \in Nat /\ u <= n /\ Blocks(h, f, u)
      /\ QueueOf(h, A) /\ Len(h) \in Nat
      /\ \A x \in A : x \in D
  BY StoredBlocks
<1>2. /\ n \in 0..MaxPdqcnt /\ c = Len(h)
      /\ mb \in [D -> Item \cup {NULL}]
      /\ \A x \in A : mb[x] \in Item
      /\ PriBlocks(Pri(mb), h, f, u, n)
  BY DEF StoredAt
<1>3. h # << >>
  BY <1>2, EmptySeq
<1>4. /\ mb2 \in [D -> Item \cup {NULL}]
      /\ \A x \in A \ {b} : mb2[x] = mb[x]
  <2> HIDE DEF A, D, b
  <2> QED BY <1>1, <1>2
<1>5. \A x \in A \ {b} : key2[x] = Pri(mb)[x]
  <2> HIDE DEF mb2, b
  <2> QED BY <1>1, <1>4 DEF Pri
<1> HIDE DEF key2, mb2
<1>6. /\ PriBlocks(key2, h2, f2, u, n)
      /\ Len(h2) = Len(h) - 1 /\ ToSet(h2) = A \ {b}
  BY <1>2, <1>3, <1>5, PriReturned
<1> HIDE DEF h2, f2, A, b
<1>7. \A x \in ToSet(h2) : mb2[x] \in Item
  BY <1>2, <1>4, <1>6
<1>8. StoredAt(n, c - 1, h2, f2, u, mb2)
  BY <1>2, <1>4, <1>6, <1>7 DEF StoredAt, key2
<1>9. f2 = PDQ!Cons(Head(h), f)
  BY DEF f2, b, Cons, PDQ!Cons
<1> QED BY <1>8, <1>9 DEF h2, mb2, b

LEMMA NothingStored ==
  ASSUME NEW n \in 0..MaxPdqcnt
  PROVE  StoredAt(n, 0, << >>, << >>, 0, PDQ!NoBlocks)
<1> DEFINE e == << >>
           mb == PDQ!NoBlocks
           z == 0
<1>1. mb \in [0..MaxPdqcnt-1 -> Item \cup {NULL}]
  BY DEF PDQ!NoBlocks
<1>2. n \in Nat
  BY ItemPri
<1>3. QueueOf(e, {}) /\ Len(e) = z
  BY QueueEmpty, EmptySeq
<1> HIDE DEF mb
<1>4. PriBlocks(Pri(mb), e, e, z, n)
  BY <1>2, PriEmpty
<1> HIDE DEF e, z
<1>5. ToSet(e) = {}
  BY <1>3 DEF QueueOf
<1> QED BY <1>1, <1>3, <1>4, <1>5 DEF StoredAt, e, z, mb

(* What the changes of the management area keep.                           *)
LEMMA StoredKept ==
  ASSUME NEW q, PDQCB(q), Stored(q), NEW q2
  PROVE  /\ \A item \in Item : q.count < q.pdqcnt /\ q2 = PDQ!enqueue_pridata(q, item) =>
               Stored(q2)
         /\ q.count > 0 /\ q2 = PDQ!dequeue_pridata(q) => Stored(q2)
<1> DEFINE n0 == q.pdqcnt
           c0 == q.count
           h0 == q.p_head
           u0 == q.unused
           f0 == q.p_freelist
           b0 == q.p_pdqmb
<1>1. StoredAt(n0, c0, h0, f0, u0, b0) /\ c0 \in Nat
  BY DEF Stored, PDQCB
<1>2. ASSUME NEW c \in Nat, NEW h, NEW u, NEW f, NEW mb, q2 = Filled(q, c, h, u, f, mb),
             StoredAt(n0, c, h, f, u, mb)
      PROVE  Stored(q2)
  <2>1. /\ q2.count = c /\ q2.pdqcnt = q.pdqcnt /\ q2.p_head = h /\ q2.unused = u
        /\ q2.p_freelist = f /\ q2.p_pdqmb = mb
    BY <1>2, PdqcbFilled
  <2> QED BY <1>2, <2>1 DEF Stored
<1>3. ASSUME NEW item \in Item, c0 < n0, q2 = PDQ!enqueue_pridata(q, item)
      PROVE  Stored(q2)
  <2> DEFINE b  == IF f0 # << >> THEN Head(f0) ELSE u0
             i  == Below(b0, h0, item.datapri)
             f  == IF f0 # << >> THEN Tail(f0) ELSE f0
             u  == IF f0 # << >> THEN u0 ELSE u0 + 1
             mb == [b0 EXCEPT ![b] = item]
             h  == IF i = 0 THEN Append(h0, b) ELSE PDQ!InsertAt(h0, i, b)
             m  == c0 + 1
  <2>1. q2 = Filled(q, m, h, u, f, mb)
    BY <1>3 DEF PDQ!enqueue_pridata, PDQ!behind, PDQCB, Filled, Below
  <2>2. m \in Nat
    BY <1>1
  <2> HIDE DEF n0, c0, h0, u0, f0, b0
  <2>3. /\ i = Below(b0, h0, item.datapri)
        /\ b = IF f0 # << >> THEN Head(f0) ELSE u0
    OBVIOUS
  <2> HIDE DEF i, b
  <2>4. StoredAt(n0, m, h, f, u, mb)
    BY <1>1, <1>3, <2>3, BlockFilled
  <2> HIDE DEF f, u, mb, h, m
  <2> QED BY <1>2, <2>1, <2>2, <2>4
<1>4. ASSUME c0 > 0, q2 = PDQ!dequeue_pridata(q) PROVE Stored(q2)
  <2> DEFINE f  == PDQ!Cons(Head(h0), f0)
             mb == [b0 EXCEPT ![Head(h0)] = NULL]
             h  == Tail(h0)
             m  == c0 - 1
  <2>1. q2 = Filled(q, m, h, u0, f, mb)
    BY <1>4 DEF PDQ!dequeue_pridata, PDQCB, Filled
  <2>2. m \in Nat
    BY <1>1, <1>4
  <2> HIDE DEF n0, c0, h0, u0, f0, b0
  <2>3. StoredAt(n0, m, h, f, u0, mb)
    BY <1>1, <1>4, BlockEmptied
  <2> HIDE DEF f, mb, h, m
  <2> QED BY <1>2, <2>1, <2>2, <2>3
<1> QED BY <1>3, <1>4

LEMMA StoredReset ==
  ASSUME NEW q, PDQCB(q), NEW q2
  PROVE  /\ \A e \in BOOLEAN, n \in 0..MaxPdqcnt :
               q2 = Reset(PDQ!Empty(q), e, n) => Stored(q2)
         /\ \A e \in BOOLEAN : Stored(q) /\ q2 = Reset(q, e, q.pdqcnt) => Stored(q2)
<1>1. ASSUME NEW e \in BOOLEAN, NEW n \in 0..MaxPdqcnt, q2 = Reset(PDQ!Empty(q), e, n)
      PROVE  Stored(q2)
  <2> DEFINE s  == << >>
             z  == 0
             mb == PDQ!NoBlocks
             q1 == PDQ!Empty(q)
  <2>1. q1 = Filled(q, z, s, z, s, mb)
    BY DEF PDQ!Empty, PDQCB, Filled
  <2>2. z \in Nat /\ n \in Nat
    OBVIOUS
  <2>3. StoredAt(n, z, s, s, z, mb)
    BY NothingStored
  <2>4. q2 = Reset(q1, e, n)
    BY <1>1
  <2> HIDE DEF s, z, mb, q1
  <2>5. PDQCB(q1) /\ q1.count = z /\ q1.p_head = s /\ q1.unused = z
        /\ q1.p_freelist = s /\ q1.p_pdqmb = mb
    BY <2>1, <2>2, PdqcbFilled
  <2>6. q2.count = z /\ q2.pdqcnt = n /\ q2.p_head = s /\ q2.unused = z
        /\ q2.p_freelist = s /\ q2.p_pdqmb = mb
    BY <2>2, <2>4, <2>5, PdqcbSet
  <2> QED BY <2>3, <2>6 DEF Stored
<1>2. ASSUME NEW e \in BOOLEAN, Stored(q), q2 = Reset(q, e, q.pdqcnt) PROVE Stored(q2)
  <2> DEFINE n == q.pdqcnt
  <2>1. n \in Nat /\ q2 = Reset(q, e, n)
    BY <1>2 DEF PDQCB
  <2> HIDE DEF n
  <2>2. /\ q2.count = q.count /\ q2.pdqcnt = n
        /\ q2.p_head = q.p_head /\ q2.unused = q.unused
        /\ q2.p_freelist = q.p_freelist /\ q2.p_pdqmb = q.p_pdqmb
    BY <2>1, PdqcbSet
  <2> QED BY <1>2, <2>2 DEF Stored, n
<1> QED BY <1>1, <1>2

LEMMA PdqStores ==
  ASSUME Sound, PdqOK, Stored(p_pdqcb), PDQ!Services
  PROVE  Stored(p_pdqcb')
<1> DEFINE c == p_pdqcb
           d == p_pdqcb'
           Goal == Stored(d)
<1>1. PDQCB(c) /\ c.count \in Nat /\ c.pdqcnt \in Nat /\ c.count <= c.pdqcnt
  BY DEF PdqOK, PDQCB
<1>2. d = c => Goal
  OBVIOUS
<1> HIDE DEF Goal
<1>3. ASSUME NEW item \in Item, PDQ!send_pridata(item) PROVE Goal
  <2>1. d = c \/ (c.count < c.pdqcnt /\ d = PDQ!enqueue_pridata(c, item))
    BY <1>3 DEF PDQ!send_pridata
  <2> HIDE DEF c, d
  <2> QED BY <1>1, <1>2, <2>1, StoredKept DEF Goal, c
<1>4. ASSUME PDQ!receive_pridata PROVE Goal
  <2> DEFINE q == PDQ!dequeue_pridata(c)
             s == PDQ!sent
  <2>1. CASE c.count > 0 /\ d = q
    BY <1>1, <2>1, StoredKept DEF Goal
  <2>2. CASE /\ c.count > 0 /\ d = PDQ!enqueue_pridata(q, s)
             /\ kernel.wait_queue[pdq_swait] # << >>
    <3>1. s \in Item
      <4> DEFINE W == Waiters(kernel, {}, pdq_swait)
                 w == kernel.wait_queue[pdq_swait]
                 t == Head(w)
      <4>1. QueueOf(w, W)
        BY SevenQueues DEF Sound, SoundAt, Tidy, QueuesOK, WaitQueueOK
      <4>2. \A x \in W : x \in Task /\ Waits(kernel.tcb[x], pdq_swait)
        BY DEF Waiters
      <4>3. w # << >>
        BY <2>2
      <4>4. s = kernel.tcb[t].winfo
        BY DEF PDQ!sent, PDQ!swaiting
      <4> HIDE DEF W, w, s
      <4>5. t \in W
        BY <4>1, <4>3, QueueHead
      <4> HIDE DEF t
      <4> QED BY <4>2, <4>4, <4>5 DEF PdqOK, OffersIn
    <3>2. PDQCB(q) /\ q.count = c.count - 1 /\ q.pdqcnt = c.pdqcnt
      BY <1>1, <2>2, PdqcbOK
    <3>3. Stored(q)
      BY <1>1, <2>2, StoredKept
    <3> HIDE DEF q, s
    <3>4. q.count < q.pdqcnt
      BY <1>1, <3>2
    <3> QED BY <2>2, <3>1, <3>2, <3>3, <3>4, StoredKept DEF Goal
  <2>3. CASE d = c
    BY <1>2, <2>3
  <2> QED BY <1>4, <2>1, <2>2, <2>3 DEF PDQ!receive_pridata, PDQ!swaiting
<1>5. ASSUME NEW cnt \in 0..MaxPdqcnt, PDQ!acre_pdq(cnt) PROVE Goal
  <2> DEFINE e == TRUE
             q == PDQ!Empty(c)
  <2>1. e \in BOOLEAN /\ PDQCB(q) /\ d = Reset(q, e, cnt)
    BY <1>1, <1>5, PdqcbOK DEF PDQ!acre_pdq, Reset
  <2> HIDE DEF e
  <2> QED BY <1>1, <2>1, StoredReset DEF Goal
<1>6. CASE PDQ!del_pdq
  <2> DEFINE e == FALSE
  <2>1. e \in BOOLEAN /\ d = Reset(c, e, c.pdqcnt)
    BY <1>1, <1>6 DEF PDQ!del_pdq, PDQCB, Reset
  <2> HIDE DEF e
  <2> QED BY <1>1, <2>1, StoredReset DEF Goal
<1>7. CASE PDQ!ini_pdq
  <2> DEFINE q == PDQ!Empty(c)
  <2>1. d = q
    BY <1>7 DEF PDQ!ini_pdq
  <2>2. PDQCB(q) /\ q.exists = c.exists /\ q.pdqcnt = c.pdqcnt
    BY <1>1, PdqcbOK
  <2>3. c.exists \in BOOLEAN /\ c.pdqcnt \in 0..MaxPdqcnt
    BY <1>1 DEF PDQCB, Stored, StoredAt
  <2>4. d = Reset(q, c.exists, c.pdqcnt)
    <3> DEFINE e == c.exists
               n == c.pdqcnt
    <3> HIDE DEF q, e, n
    <3>1. q.exists = e /\ q.pdqcnt = n
      BY <2>2 DEF e, n
    <3>2. q = [q EXCEPT !.exists = e, !.pdqcnt = n]
      BY <2>2, <3>1 DEF PDQCB
    <3> QED BY <2>1, <3>2 DEF Reset, e, n
  <2> QED BY <1>1, <2>3, <2>4, StoredReset DEF Goal
<1>8. ASSUME NEW item \in Item, PDQ!psnd_pdq(item) PROVE Goal
  BY <1>3, <1>8 DEF PDQ!psnd_pdq
<1>9. ASSUME NEW item \in Item, NEW timed \in BOOLEAN, PDQ!tsnd_pdq(item, timed)
      PROVE  Goal
  BY <1>2, <1>3, <1>9 DEF PDQ!tsnd_pdq
<1>10. CASE PDQ!prcv_pdq
  BY <1>4, <1>10 DEF PDQ!prcv_pdq, Goal
<1>11. ASSUME NEW timed \in BOOLEAN, PDQ!trcv_pdq(timed) PROVE Goal
  BY <1>2, <1>4, <1>11 DEF PDQ!trcv_pdq
<1> QED BY <1>5, <1>6, <1>7, <1>8, <1>9, <1>10, <1>11 DEF PDQ!Services, Goal

(* The memory pool: the list of the returned blocks, linked through next.  *)
Pool(n, fb, u, fl, nx, hd, list) ==
  PoolAt(MaxBlkcnt, INDEX_NULL, INDEX_ALLOC, n, fb, u, fl, nx, hd, list)

MpfLink == Link(MaxBlkcnt, INDEX_NULL, INDEX_ALLOC)

MpfStored ==
  /\ blkcnt \in 0..MaxBlkcnt
  /\ next \in [0..MaxBlkcnt-1 -> MpfLink]
  /\ mpf_exists => \E list : Pool(blkcnt, fblkcnt, unused, freelist, next, held, list)

LEMMA PoolMarks == Marks(MaxBlkcnt, INDEX_NULL, INDEX_ALLOC)
BY SyncObjectsAssumption DEF MPF!MemPoolAssumption, Marks

LEMMA MpfUnchanged ==
  ASSUME MpfStored, UNCHANGED MPF!mpf
  PROVE  MpfStored'
BY DEF MpfStored, MPF!mpf, Pool, PoolAt, Linked, LinkOf, MpfLink, Link

LEMMA MpfStores ==
  ASSUME MpfStored, MPF!Services
  PROVE  MpfStored'
<1> USE DEF MpfStored
<1> DEFINE P(list) == Pool(blkcnt, fblkcnt, unused, freelist, next, held, list)
           P2(list) == Pool(blkcnt', fblkcnt', unused', freelist', next', held', list)
           Goal == MpfStored'
<1>1. ASSUME blkcnt' \in 0..MaxBlkcnt, next' \in [0..MaxBlkcnt-1 -> MpfLink],
             mpf_exists' => \E list : P2(list)
      PROVE  Goal
  BY <1>1 DEF Pool, PoolAt, Linked, LinkOf, MpfLink, Link
<1>2. UNCHANGED MPF!mpf => Goal
  BY MpfUnchanged
<1> HIDE DEF Goal, P, P2
<1>3. ASSUME blkcnt' \in 0..MaxBlkcnt, MPF!Refill(blkcnt') PROVE Goal
  <2>1. P2(<< >>)
    BY <1>3, PoolMarks, PoolFull DEF MPF!Refill, P2, Pool, MpfLink
  <2> QED BY <1>1, <1>3, <2>1 DEF MPF!Refill
<1>4. ASSUME NEW list, P2(list) PROVE Goal
  BY <1>1, <1>4 DEF P2, Pool, PoolAt, MpfLink
<1>5. ASSUME NEW cnt \in 1..MaxBlkcnt, MPF!acre_mpf(cnt) PROVE Goal
  <2>1. cnt \in 0..MaxBlkcnt
    BY PoolMarks DEF Marks
  <2> QED BY <1>3, <1>5, <2>1 DEF MPF!acre_mpf
<1>6. CASE MPF!del_mpf
  BY <1>1, <1>6 DEF MPF!del_mpf
<1>7. ASSUME MPF!pget_mpf PROVE Goal
  <2>1. PICK list : P(list)
    BY <1>7 DEF MPF!pget_mpf, P
  <2>2. fblkcnt > 0 /\ blkcnt' = blkcnt /\ MPF!get_mpf_block
    BY <1>7 DEF MPF!pget_mpf
  <2>3. \E l : P2(l)
    <3> DEFINE blk == IF freelist # INDEX_NULL THEN freelist ELSE unused
    <3> HIDE DEF blk
    <3>1. /\ PoolAt(MaxBlkcnt, INDEX_NULL, INDEX_ALLOC, blkcnt, fblkcnt, unused, freelist,
                    next, held, list)
          /\ blk = FreeBlock(INDEX_NULL, unused, freelist) /\ fblkcnt > 0
      BY <2>1, <2>2 DEF P, Pool, blk, FreeBlock
    <3>2. PoolLess(MaxBlkcnt, INDEX_NULL, INDEX_ALLOC, blkcnt, fblkcnt, unused, freelist,
                   next, held, blk)
      BY ONLY <3>1, PoolMarks, PoolGet
    <3> QED BY <2>2, <3>2 DEF P2, Pool, PoolLess, MPF!get_mpf_block, blk
  <2> QED BY <1>4, <2>3
<1>8. ASSUME NEW timed \in BOOLEAN, MPF!tget_mpf(timed) PROVE Goal
  BY <1>2, <1>7, <1>8 DEF MPF!tget_mpf
<1>9. ASSUME NEW blk \in 0..MaxBlkcnt-1, MPF!rel_mpf(blk) PROVE Goal
  <2>1. CASE UNCHANGED MPF!mpf
    BY <1>2, <2>1
  <2>2. CASE ~UNCHANGED MPF!mpf
    <3>1. /\ blk < unused /\ next[blk] = INDEX_ALLOC /\ blkcnt' = blkcnt
          /\ fblkcnt' = fblkcnt + 1 /\ unused' = unused /\ freelist' = blk
          /\ next' = [next EXCEPT ![blk] = freelist] /\ held' = held \ {blk}
      BY <1>9, <2>2 DEF MPF!rel_mpf, MPF!return_block
    <3>2. PICK list : P(list)
      BY <1>9 DEF MPF!rel_mpf, P
    <3>3. \E l : Pool(blkcnt, fblkcnt + 1, unused, blk, [next EXCEPT ![blk] = freelist],
                      held \ {blk}, l)
      BY <3>1, <3>2, PoolMarks, PoolReturn DEF P, Pool
    <3>4. \E l : P2(l)
      BY <3>1, <3>3 DEF P2
    <3> QED BY <1>4, <3>4
  <2> QED BY <2>1, <2>2
<1>10. CASE MPF!ini_mpf
  BY <1>3, <1>10 DEF MPF!ini_mpf, Goal
<1>11. CASE MPF!pget_mpf
  BY <1>7, <1>11 DEF Goal
<1> QED BY <1>5, <1>6, <1>8, <1>9, <1>10, <1>11 DEF MPF!Services, Goal

--------------------------------------------------------------------------
(* The objects' areas together.                                            *)
StInv ==
  SInv /\ SemStored /\ Ring(p_dtqcb) /\ Stored(p_pdqcb) /\ MpfStored

LEMMA StorageStays ==
  /\ SemStored /\ UNCHANGED semVars => SemStored'
  /\ Ring(p_dtqcb) /\ UNCHANGED dtqVars => Ring(p_dtqcb')
  /\ Stored(p_pdqcb) /\ UNCHANGED pdqVars => Stored(p_pdqcb')
  /\ MpfStored /\ UNCHANGED mpfVars => MpfStored'
<1>1. SemStored /\ UNCHANGED semVars => SemStored'
  BY DEF SemStored, semVars
<1>2. UNCHANGED dtqVars => p_dtqcb' = p_dtqcb
  BY DEF dtqVars
<1>3. UNCHANGED pdqVars => p_pdqcb' = p_pdqcb
  BY DEF pdqVars
<1>4. ASSUME MpfStored, UNCHANGED mpfVars PROVE MpfStored'
  <2>1. UNCHANGED MPF!mpf
    BY <1>4 DEF mpfVars, MPF!mpf
  <2> QED BY <1>4, <2>1, MpfUnchanged
<1> QED BY <1>1, <1>2, <1>3, <1>4

LEMMA InitStInv == Init => StInv
<1> SUFFICES ASSUME Init PROVE StInv
  OBVIOUS
<1>1. SInv
  BY InitSInv
<1>2. SemStored
  BY DEF Init, SEM!ObjectInit, SemStored
<1>3. Ring(p_dtqcb)
  <2> DEFINE z == 0
  <2>1. /\ p_dtqcb.dtqcnt = z /\ p_dtqcb.count = 0 /\ p_dtqcb.head = 0
        /\ p_dtqcb.tail = 0 /\ z \in Nat
    BY DEF Init, DTQ!ObjectInit
  <2> HIDE DEF z
  <2>2. RingAt(z, 0, 0, 0)
    BY <2>1, RingEmpty
  <2> QED BY <2>1, <2>2 DEF Ring
<1>4. Stored(p_pdqcb)
  <2> DEFINE z == 0
  <2>1. /\ p_pdqcb.pdqcnt = z /\ p_pdqcb.count = 0 /\ p_pdqcb.p_head = << >>
        /\ p_pdqcb.unused = 0 /\ p_pdqcb.p_freelist = << >>
        /\ p_pdqcb.p_pdqmb = PDQ!NoBlocks
    BY DEF Init, PDQ!ObjectInit
  <2>2. z \in 0..MaxPdqcnt
    BY ItemPri
  <2> HIDE DEF z
  <2>3. StoredAt(z, 0, << >>, << >>, 0, PDQ!NoBlocks)
    BY <2>2, NothingStored
  <2> QED BY <2>1, <2>3 DEF Stored
<1>5. MpfStored
  BY PoolMarks DEF Init, MPF!ObjectInit, MpfStored, Marks, MpfLink, Link
<1> QED BY <1>1, <1>2, <1>3, <1>4, <1>5 DEF StInv

LEMMA NextStInv ==
  ASSUME StInv, [Next]_vars
  PROVE  StInv'
<1>1. SInv /\ SInv' /\ SemStored /\ Ring(p_dtqcb) /\ Stored(p_pdqcb) /\ MpfStored
  BY NextSInv DEF StInv
<1>2. Sound /\ DtqOK /\ PdqOK
  BY <1>1 DEF SInv
<1>3. Ring(p_dtqcb)' <=> Ring(p_dtqcb')
  BY DEF Ring
<1>4. Stored(p_pdqcb)' <=> Stored(p_pdqcb')
  BY DEF Stored, StoredAt, Pri
<1>5. SemStored'
  <2>1. UNCHANGED semVars \/ SEM!Services
    BY DEF Next, vars
  <2> QED BY <1>1, <2>1, SemStores, StorageStays
<1>6. Ring(p_dtqcb')
  <2>1. UNCHANGED dtqVars \/ DTQ!Services
    BY DEF Next, vars
  <2> QED BY <1>1, <1>2, <2>1, DtqStores, StorageStays
<1>7. Stored(p_pdqcb')
  <2>1. UNCHANGED pdqVars \/ PDQ!Services
    BY DEF Next, vars
  <2> QED BY <1>1, <1>2, <2>1, PdqStores, StorageStays
<1>8. MpfStored'
  <2>1. UNCHANGED mpfVars \/ MPF!Services
    BY DEF Next, vars
  <2> QED BY <1>1, <2>1, MpfStores, StorageStays
<1> QED BY <1>1, <1>3, <1>4, <1>5, <1>6, <1>7, <1>8 DEF StInv

(* A queue is as long as there are elements.                               *)
(* Whatever was created, deleted, initialized, sent, received, taken and   *)
(* returned: the semaphore's count is in its range, the indexes of the     *)
(* ring fit its count, every block of the priority data queue is in one of *)
(* its lists and the data are in the order of their priorities, and every  *)
(* block of the memory pool is handed out, in its free list or untouched.  *)
THEOREM StorageCorrect == Spec => []StorageOK
<1>1. ASSUME StInv PROVE StorageOK
  <2>1. /\ SInv /\ SemStored /\ Ring(p_dtqcb) /\ Stored(p_pdqcb) /\ MpfStored
        /\ DtqOK /\ PdqOK
    BY <1>1 DEF StInv, SInv
  <2>2. SEM!CountOK
    BY <2>1 DEF SemStored, SEM!CountOK
  <2>3. DTQ!RingOK
    <3> DEFINE n == p_dtqcb.dtqcnt
               c == p_dtqcb.count
               h == p_dtqcb.head
               t == p_dtqcb.tail
    <3>1. RingAt(n, c, h, t)
      BY <2>1 DEF Ring
    <3> HIDE DEF n, c, h, t
    <3>2. n # 0 => t = (h + c) % n
      BY <3>1, RingIndex
    <3>3. c \in 0..n /\ (n = 0 => h = 0 /\ t = 0) /\ (n # 0 => h \in 0..n-1)
      BY <3>1 DEF RingAt
    <3> QED BY <3>2, <3>3 DEF DTQ!RingOK, DTQ!dtqcnt, n, c, h, t
  <2>4. PDQ!BlocksOK
    <3> DEFINE q == p_pdqcb
               h == q.p_head
               f == q.p_freelist
               u == q.unused
               mb == q.p_pdqmb
               n == q.pdqcnt
    <3>1. StoredAt(n, q.count, h, f, u, mb)
      BY <2>1 DEF Stored
    <3> HIDE DEF h, f, u, mb, n
    <3>2. /\ u <= n /\ Blocks(h, f, u) /\ QueueOf(h, ToSet(h))
          /\ \A b \in ToSet(h) : b \in 0..MaxPdqcnt-1
      BY <3>1, StoredBlocks
    <3>3. q.count = Len(h) /\ SortedBy(Pri(mb), h)
      BY <3>1 DEF StoredAt, PriBlocks
    <3>4. IsInjective(h \o f) /\ ToSet(h \o f) = 0..u-1
      BY <3>2, BlocksOnce
    <3>5. DOMAIN h = 1..Len(h) /\ \A i \in 1..Len(h) : h[i] \in ToSet(h)
      BY <3>2, QueueIndex
    <3>6. \A i, j \in DOMAIN h : i < j => mb[h[i]].datapri <= mb[h[j]].datapri
      <4>1. \A i \in 1..Len(h) : Pri(mb)[h[i]] = mb[h[i]].datapri
        BY <3>2, <3>5 DEF Pri
      <4> QED BY <3>3, <3>5, <4>1 DEF SortedBy
    <3>7. PDQ!IsInjective(h \o f) /\ PDQ!ToSet(h \o f) = 0..u-1
      BY <3>4 DEF IsInjective, PDQ!IsInjective, ToSet, PDQ!ToSet
    <3> QED BY <3>2, <3>3, <3>6, <3>7 DEF PDQ!BlocksOK, h, f, u, mb, n
  <2>5. MPF!BlocksOK
    <3>1. CASE ~mpf_exists
      BY <3>1 DEF MPF!BlocksOK
    <3>2. CASE mpf_exists
      <4>1. PICK list : Pool(blkcnt, fblkcnt, unused, freelist, next, held, list)
        BY <2>1, <3>2 DEF MpfStored
      <4>2. held = {b \in 0..unused-1 : next[b] = INDEX_ALLOC}
        BY <4>1 DEF Pool, PoolAt
      <4>3. PoolFits(INDEX_NULL, blkcnt, fblkcnt, unused, freelist, next, held, list)
        BY <4>1, PoolMarks, PoolOK DEF Pool
      <4>4. \A S : MPF!Cardinality(S) = Cardinality(S)
        BY DEF Cardinality, MPF!Cardinality
      <4>5. \A S : MPF!SetToSeqs(S) = SetToSeqs(S)
        BY <4>4 DEF SetToSeqs, MPF!SetToSeqs
      <4> QED BY <4>2, <4>3, <4>4, <4>5 DEF MPF!BlocksOK, PoolFits
    <3> QED BY <3>1, <3>2
  <2> QED BY <2>2, <2>3, <2>4, <2>5 DEF StorageOK
<1>2. Spec => []StInv
  BY InitStInv, NextStInv, PTL DEF Spec
<1> QED BY <1>1, <1>2, PTL
--------------------------------------------------------------------------
(* The data queues are channels.  What the tasks in a send queue offer,    *)
(* and what becomes of it.                                                 *)
Offers(k, w) ==
  [t \in Task |-> IF Waits(k.tcb[t], w) THEN k.tcb[t].winfo ELSE NULL]

NoOffers == [t \in Task |-> NULL]

LEMMA OffersNone ==
  ASSUME NEW k, NEW w, NobodyWaits(k, w)
  PROVE  Offers(k, w) = NoOffers
BY DEF NobodyWaits, Offers, NoOffers

LEMMA OffersTaken ==
  ASSUME NEW k, NEW k2, Leaves(k, k2), NEW w \in WaitQueue, NEW s \in Task,
         Remains(k, k2, {s}), ~Waits(k2.tcb[s], w)
  PROVE  Offers(k2, w) = [Offers(k, w) EXCEPT ![s] = NULL]
<1>1. \A u \in Task \ {s} :
        /\ Waits(k2.tcb[u], w) <=> Waits(k.tcb[u], w)
        /\ Waits(k2.tcb[u], w) => k2.tcb[u].winfo = k.tcb[u].winfo
  BY DEF Leaves, Stays, Remains
<1> QED BY <1>1 DEF Offers

LEMMA OffersKept ==
  ASSUME NEW k, NEW k2, Leaves(k, k2), NEW w \in WaitQueue, NEW S, Remains(k, k2, S),
         \A s \in S : Waits(k.tcb[s], w) => Waits(k2.tcb[s], w)
  PROVE  Offers(k2, w) = Offers(k, w)
<1>1. \A u \in Task :
        /\ Waits(k2.tcb[u], w) <=> Waits(k.tcb[u], w)
        /\ Waits(k2.tcb[u], w) => k2.tcb[u].winfo = k.tcb[u].winfo
  BY DEF Leaves, Stays, Remains
<1> QED BY <1>1 DEF Offers

LEMMA OffersMade ==
  ASSUME NEW k, NEW k2, NEW t \in Task, NEW w \in WaitQueue, NEW info, Joins(k, k2, t, w, info),
         Remains(k, k2, {t}), Waits(k2.tcb[t], w)
  PROVE  Offers(k2, w) = [Offers(k, w) EXCEPT ![t] = info]
<1>1. \A u \in Task \ {t} :
        /\ Waits(k2.tcb[u], w) <=> Waits(k.tcb[u], w)
        /\ Waits(k2.tcb[u], w) => k2.tcb[u].winfo = k.tcb[u].winfo
  BY DEF Joins, Stays, Remains
<1>2. k2.tcb[t].winfo = info
  BY DEF Joins
<1> QED BY <1>1, <1>2 DEF Offers

(* The steps of the kernel once more, for this module's invariant.         *)
LEMMA OneServed ==
  ASSUME Sound, NEW w \in WaitQueue, kernel.wait_queue[w] # << >>,
         Dispatch(Served(kernel, w))
  PROVE  LET t == Head(kernel.wait_queue[w])
         IN  /\ t \in Task /\ Waits(kernel.tcb[t], w)
             /\ \A v \in WaitQueue : ~Waits(kernel'.tcb[t], v)
             /\ Remains(kernel, kernel', {t})
<1> QED BY NullWinfo, SoundHere, KernelServesOne

LEMMA OneJoined ==
  ASSUME Sound, TaskContext, NEW w \in WaitQueue, NEW s \in States, TSTAT_WAITING(s),
         w \in TPRI => TSTAT_WAIT_WOBJCB(s),
         NEW info \in WINFO, NEW timed \in BOOLEAN, wobj_wait(w, s, info, timed)
  PROVE  /\ p_runtsk \in Task
         /\ \A v \in WaitQueue : ~Waits(kernel.tcb[p_runtsk], v)
         /\ Waits(kernel'.tcb[p_runtsk], w) /\ kernel'.tcb[p_runtsk].winfo = info
         /\ Remains(kernel, kernel', {p_runtsk})
<1> QED BY NullWinfo, SoundHere, KernelJoinsOne

LEMMA OneTaskLeaves ==
  ASSUME Sound, TaskNext, NEW w \in WaitQueue
  PROVE  \/ Offers(kernel', w) = Offers(kernel, w)
         \/ \E s \in Task : /\ Waits(kernel.tcb[s], w)
                            /\ Offers(kernel', w) = [Offers(kernel, w) EXCEPT ![s] = NULL]
<1>1. Leaves(kernel, kernel')
  BY TaskStep
<1>2. Remains(kernel, kernel', {}) \/ \E t \in Task : Remains(kernel, kernel', {t})
  BY NullWinfo, SoundHere, KernelTasksOne
<1>3. CASE Remains(kernel, kernel', {})
  <2> DEFINE S == {}
  <2>1. Remains(kernel, kernel', S) /\ \A s \in S : FALSE
    BY <1>3
  <2> HIDE DEF S
  <2> QED BY <1>1, <2>1, OffersKept
<1>4. ASSUME NEW t \in Task, Remains(kernel, kernel', {t})
      PROVE  \/ Offers(kernel', w) = Offers(kernel, w)
             \/ \E s \in Task : /\ Waits(kernel.tcb[s], w)
                                /\ Offers(kernel', w) = [Offers(kernel, w) EXCEPT ![s] = NULL]
  <2>1. CASE Waits(kernel.tcb[t], w) => Waits(kernel'.tcb[t], w)
    <3> DEFINE S == {t}
    <3>1. Remains(kernel, kernel', S) /\ \A s \in S : Waits(kernel.tcb[s], w) => Waits(kernel'.tcb[s], w)
      BY <1>4, <2>1
    <3> HIDE DEF S
    <3> QED BY <1>1, <3>1, OffersKept
  <2>2. CASE Waits(kernel.tcb[t], w) /\ ~Waits(kernel'.tcb[t], w)
    <3>1. Offers(kernel', w) = [Offers(kernel, w) EXCEPT ![t] = NULL]
      BY <1>1, <1>4, <2>2, OffersTaken
    <3> QED BY <2>2, <3>1
  <2> QED BY <2>1, <2>2
<1> QED BY <1>2, <1>3, <1>4
(* The channel that the data queue implements.                             *)
DtqCap(q) == IF q.exists THEN q.dtqcnt ELSE 0
DtqCh(q) ==
  IF q.exists THEN RingSeq(q.dtqcnt, q.count, q.head, q.dtqmb) ELSE << >>

DtqChannel(cap, ch, offers, got) ==
  /\ DtqCap(p_dtqcb) = cap /\ DtqCh(p_dtqcb) = ch
  /\ Offers(kernel, dtq_swait) = offers /\ dtq_received = got

LEMMA DtqChannelSteps ==
  ASSUME NEW cap, NEW ch, NEW offers, NEW got, DtqChannel(cap, ch, offers, got),
         NEW cap2, NEW ch2, NEW offers2, NEW got2, DtqChannel(cap2, ch2, offers2, got2)'
  PROVE  /\ cap2 \in 0..MaxDtqcnt /\ ch2 = << >> /\ offers2 = NoOffers /\ got2 = got
              => DTQ!Abstract!Next
         /\ \A d \in Data : Len(ch) < cap /\ offers = NoOffers /\ ch2 = Append(ch, d)
              /\ cap2 = cap /\ offers2 = offers /\ got2 = got
              => DTQ!Abstract!Next
         /\ \A d \in Data : cap > 0 /\ Len(ch) = cap /\ ch2 = Append(Tail(ch), d)
              /\ cap2 = cap /\ offers2 = offers /\ got2 = got
              => DTQ!Abstract!Next
         /\ \A d \in Data, s \in Task : Len(ch) = cap /\ offers[s] = NULL
              /\ offers2 = [offers EXCEPT ![s] = d]
              /\ cap2 = cap /\ ch2 = ch /\ got2 = got
              => DTQ!Abstract!Next
         /\ \A s \in Task : offers[s] # NULL /\ offers2 = [offers EXCEPT ![s] = NULL]
              /\ cap2 = cap /\ ch2 = ch /\ got2 = got
              => DTQ!Abstract!Next
         /\ \A d \in Data : ch = << >> /\ offers = NoOffers /\ got2 = d
              /\ cap2 = cap /\ ch2 = ch /\ offers2 = offers
              => DTQ!Abstract!Next
         /\ offers = NoOffers /\ ch # << >> /\ got2 = Head(ch) /\ ch2 = Tail(ch)
              /\ cap2 = cap /\ offers2 = offers
              => DTQ!Abstract!Next
         /\ \A s \in Task : offers[s] # NULL /\ got2 = Head(Append(ch, offers[s]))
              /\ ch2 = Tail(Append(ch, offers[s])) /\ offers2 = [offers EXCEPT ![s] = NULL]
              /\ cap2 = cap
              => DTQ!Abstract!Next
         /\ cap2 = cap /\ ch2 = ch /\ offers2 = offers /\ got2 = got
              => UNCHANGED DTQ!Abstract!vars
<1>1. \A s : DTQ!TSTAT_WAITING(s) <=> TSTAT_WAITING(s)
  BY DEF TSTAT_WAITING, WaitFactor, WobjFactor, WobjcbFactor,
         DTQ!TSTAT_WAITING, DTQ!WaitFactor, DTQ!WobjFactor, DTQ!WobjcbFactor
<1> USE <1>1 DEF DtqChannel, DtqCap, DtqCh, Offers, NoOffers, RingSeq, RingPlace, DTQ!exists, DTQ!dtqcnt,
          Waits, DTQ!Waiting, DTQ!tstat, DTQ!Abstract!NoOffer
<1>2. cap2 \in 0..MaxDtqcnt /\ ch2 = << >> /\ offers2 = NoOffers /\ got2 = got
      => DTQ!Abstract!Reset(cap2)
  BY DEF DTQ!Abstract!Reset
<1>3. \A d \in Data : Len(ch) < cap /\ offers = NoOffers /\ ch2 = Append(ch, d)
      /\ cap2 = cap /\ offers2 = offers /\ got2 = got
      => DTQ!Abstract!Accept(d)
  BY DEF DTQ!Abstract!Accept
<1>4. \A d \in Data : cap > 0 /\ Len(ch) = cap /\ ch2 = Append(Tail(ch), d)
      /\ cap2 = cap /\ offers2 = offers /\ got2 = got
      => DTQ!Abstract!Force(d)
  BY DEF DTQ!Abstract!Force
<1>5. \A d \in Data, s \in Task : Len(ch) = cap /\ offers[s] = NULL
      /\ offers2 = [offers EXCEPT ![s] = d]
      /\ cap2 = cap /\ ch2 = ch /\ got2 = got
      => DTQ!Abstract!Offer(s, d)
  BY DEF DTQ!Abstract!Offer
<1>6. \A s \in Task : offers[s] # NULL /\ offers2 = [offers EXCEPT ![s] = NULL]
      /\ cap2 = cap /\ ch2 = ch /\ got2 = got
      => DTQ!Abstract!Withdraw(s)
  BY DEF DTQ!Abstract!Withdraw
<1>7. \A d \in Data : ch = << >> /\ offers = NoOffers /\ got2 = d
      /\ cap2 = cap /\ ch2 = ch /\ offers2 = offers
      => DTQ!Abstract!HandOver(d)
  BY DEF DTQ!Abstract!HandOver
<1>8. offers = NoOffers /\ ch # << >> /\ got2 = Head(ch) /\ ch2 = Tail(ch)
      /\ cap2 = cap /\ offers2 = offers
      => DTQ!Abstract!Receive
  BY DEF DTQ!Abstract!Receive
<1>9. \A s \in Task : offers[s] # NULL /\ got2 = Head(Append(ch, offers[s]))
      /\ ch2 = Tail(Append(ch, offers[s])) /\ offers2 = [offers EXCEPT ![s] = NULL]
      /\ cap2 = cap
      => DTQ!Abstract!ReceiveAndAccept(s)
  BY DEF DTQ!Abstract!ReceiveAndAccept
<1>10. cap2 = cap /\ ch2 = ch /\ offers2 = offers /\ got2 = got
      => UNCHANGED DTQ!Abstract!vars
  BY DEF DTQ!Abstract!vars
<1> QED BY ONLY <1>2, <1>3, <1>4, <1>5, <1>6, <1>7, <1>8, <1>9, <1>10 DEF DTQ!Abstract!Next

(* What the operations on the ring mean for its contents.                  *)
LEMMA DtqMb ==
  ASSUME NEW q \in DTQCB
  PROVE  /\ \A data \in WINFO :
              /\ DTQ!enqueue_data(q, data).dtqmb = [q.dtqmb EXCEPT ![q.tail] = data]
              /\ DTQ!force_enqueue_data(q, data).dtqmb = [q.dtqmb EXCEPT ![q.tail] = data]
         /\ DTQ!dequeue_data(q).dtqmb = q.dtqmb
<1> DEFINE n == DTQ!NextIndex(q, q.tail)
           h == DTQ!NextIndex(q, q.head)
           a == q.count + 1
           b == q.count - 1
<1>1. ASSUME NEW data \in WINFO
      PROVE  /\ DTQ!enqueue_data(q, data).dtqmb = [q.dtqmb EXCEPT ![q.tail] = data]
             /\ DTQ!force_enqueue_data(q, data).dtqmb = [q.dtqmb EXCEPT ![q.tail] = data]
  <2> DEFINE mb == [q.dtqmb EXCEPT ![q.tail] = data]
             q1 == [q EXCEPT !.dtqmb = mb, !.count = a, !.tail = n]
             q2 == [q EXCEPT !.dtqmb = mb, !.tail = n, !.count = a]
             q3 == [q EXCEPT !.dtqmb = mb, !.tail = n, !.head = n]
  <2>1. DTQ!enqueue_data(q, data) = q1
    BY DEF DTQ!enqueue_data, DTQCB
  <2>2. DTQ!force_enqueue_data(q, data) = q2 \/ DTQ!force_enqueue_data(q, data) = q3
    BY DEF DTQ!force_enqueue_data, DTQCB
  <2> HIDE DEF mb, n, a
  <2>3. q1.dtqmb = mb /\ q2.dtqmb = mb /\ q3.dtqmb = mb
    BY DEF DTQCB
  <2> HIDE DEF q1, q2, q3
  <2> QED BY <2>1, <2>2, <2>3 DEF mb
<1>2. DTQ!dequeue_data(q).dtqmb = q.dtqmb
  <2> DEFINE q2 == [q EXCEPT !.count = b, !.head = h]
  <2>1. DTQ!dequeue_data(q) = q2
    BY DEF DTQ!dequeue_data, DTQCB
  <2> HIDE DEF h, b
  <2>2. q2.dtqmb = q.dtqmb
    BY DEF DTQCB
  <2> QED BY <2>1, <2>2
<1> QED BY <1>1, <1>2

LEMMA DtqLength ==
  ASSUME NEW q \in DTQCB, q.exists
  PROVE  /\ Len(DtqCh(q)) = q.count /\ DtqCap(q) = q.dtqcnt
         /\ q.count = 0 => DtqCh(q) = << >>
<1> DEFINE n == q.dtqcnt
           c == q.count
           h == q.head
           mb == q.dtqmb
<1>1. c \in Nat /\ DtqCap(q) = n /\ DtqCh(q) = RingSeq(n, c, h, mb)
  BY DEF DTQCB, DtqCap, DtqCh
<1> HIDE DEF n, c, h, mb
<1>2. Len(RingSeq(n, c, h, mb)) = c /\ (c = 0 => RingSeq(n, c, h, mb) = << >>)
  BY <1>1, RingSeqOf
<1> QED BY <1>1, <1>2 DEF n, c

LEMMA DtqTakes ==
  ASSUME NEW q \in DTQCB, q.exists, Ring(q), q.count > 0
  PROVE  LET q2 == DTQ!dequeue_data(q)
         IN  /\ DtqCh(q) # << >> /\ Head(DtqCh(q)) = q.dtqmb[q.head]
             /\ DtqCh(q2) = Tail(DtqCh(q)) /\ DtqCap(q2) = DtqCap(q) /\ q2.exists
<1> DEFINE n == q.dtqcnt
           c == q.count
           h == q.head
           t == q.tail
           mb == q.dtqmb
           q2 == DTQ!dequeue_data(q)
<1>1. /\ q2 \in DTQCB /\ q2.count = c - 1 /\ q2.exists /\ q2.dtqcnt = n
      /\ q2.head = NextAt(n, h) /\ q2.dtqmb = mb
  BY DtqcbOK, DtqMb
<1>2. RingAt(n, c, h, t) /\ c > 0
  BY DEF Ring
<1>3. /\ DtqCap(q) = n /\ DtqCap(q2) = n
      /\ DtqCh(q) = RingSeq(n, c, h, mb)
      /\ DtqCh(q2) = RingSeq(n, c - 1, NextAt(n, h), mb)
  BY <1>1 DEF DtqCap, DtqCh
<1> HIDE DEF n, c, h, t, mb, q2
<1>4. /\ RingSeq(n, c, h, mb) # << >>
      /\ Head(RingSeq(n, c, h, mb)) = mb[h]
      /\ Tail(RingSeq(n, c, h, mb)) = RingSeq(n, c - 1, NextAt(n, h), mb)
  BY <1>2, RingTake
<1> QED BY <1>1, <1>3, <1>4 DEF mb, h, q2

LEMMA DtqPuts ==
  ASSUME NEW q \in DTQCB, q.exists, Ring(q), q.count < q.dtqcnt, q.dtqcnt <= MaxDtqcnt,
         NEW data \in WINFO, NEW q2 \in DTQCB, q2.exists, q2.dtqcnt = q.dtqcnt,
         q2.count = q.count + 1, q2.head = q.head,
         q2.dtqmb = [q.dtqmb EXCEPT ![q.tail] = data]
  PROVE  DtqCh(q2) = Append(DtqCh(q), data) /\ DtqCap(q2) = DtqCap(q)
<1> DEFINE n == q.dtqcnt
           c == q.count
           h == q.head
           t == q.tail
           mb == q.dtqmb
           mb2 == q2.dtqmb
<1>1. RingAt(n, c, h, t) /\ c < n
  BY DEF Ring
<1>2. mb2[t] = data /\ \A j \in 0..n-1 : j # t => mb2[j] = mb[j]
  <2>1. t \in 0..MaxDtqcnt-1 /\ 0..n-1 \subseteq 0..MaxDtqcnt-1
    <3>1. n \in Nat /\ t \in Nat /\ t < n /\ n <= MaxDtqcnt /\ MaxDtqcnt \in Nat
      BY <1>1, SyncObjectsAssumption DEF RingAt, DTQ!DataQueueAssumption
    <3> HIDE DEF n, t
    <3> QED BY <3>1
  <2>2. mb \in DTQMB /\ mb2 = [mb EXCEPT ![t] = data]
    BY DEF DTQCB
  <2> HIDE DEF mb, mb2, t, n
  <2> QED BY <2>1, <2>2 DEF DTQMB
<1>3. /\ DtqCap(q) = n /\ DtqCap(q2) = n
      /\ DtqCh(q) = RingSeq(n, c, h, mb)
      /\ DtqCh(q2) = RingSeq(n, c + 1, h, mb2)
  BY DEF DtqCap, DtqCh
<1> HIDE DEF n, c, h, t, mb, mb2
<1>4. PutIn(n, t, mb, mb2, data)
  BY <1>2 DEF PutIn
<1>5. RingSeq(n, c + 1, h, mb2) = Append(RingSeq(n, c, h, mb), data)
  BY ONLY <1>1, <1>4, RingPut
<1> QED BY <1>3, <1>5

LEMMA DtqEnqueues ==
  ASSUME NEW q \in DTQCB, q.exists, Ring(q), q.dtqcnt <= MaxDtqcnt, NEW data \in WINFO
  PROVE  /\ q.count < q.dtqcnt =>
              LET q2 == DTQ!enqueue_data(q, data)
              IN  DtqCh(q2) = Append(DtqCh(q), data) /\ DtqCap(q2) = DtqCap(q)
         /\ q.count < q.dtqcnt =>
              LET q2 == DTQ!force_enqueue_data(q, data)
              IN  DtqCh(q2) = Append(DtqCh(q), data) /\ DtqCap(q2) = DtqCap(q)
         /\ q.count = q.dtqcnt /\ q.dtqcnt > 0 =>
              LET q2 == DTQ!force_enqueue_data(q, data)
              IN  DtqCh(q2) = Append(Tail(DtqCh(q)), data) /\ DtqCap(q2) = DtqCap(q)
<1>1. ASSUME q.count < q.dtqcnt
      PROVE  LET q2 == DTQ!enqueue_data(q, data)
             IN  DtqCh(q2) = Append(DtqCh(q), data) /\ DtqCap(q2) = DtqCap(q)
  <2> DEFINE q2 == DTQ!enqueue_data(q, data)
  <2>1. /\ q2 \in DTQCB /\ q2.count = q.count + 1 /\ q2.exists /\ q2.dtqcnt = q.dtqcnt
        /\ q2.head = q.head /\ q2.dtqmb = [q.dtqmb EXCEPT ![q.tail] = data]
    BY DtqcbOK, DtqMb
  <2> HIDE DEF q2
  <2>2. DtqCh(q2) = Append(DtqCh(q), data) /\ DtqCap(q2) = DtqCap(q)
    BY <1>1, <2>1, DtqPuts
  <2> QED BY <2>2 DEF q2
<1>2. ASSUME q.count < q.dtqcnt
      PROVE  LET q2 == DTQ!force_enqueue_data(q, data)
             IN  DtqCh(q2) = Append(DtqCh(q), data) /\ DtqCap(q2) = DtqCap(q)
  <2> DEFINE q2 == DTQ!force_enqueue_data(q, data)
  <2>1. /\ q2 \in DTQCB /\ q2.count = q.count + 1 /\ q2.exists /\ q2.dtqcnt = q.dtqcnt
        /\ q2.head = q.head /\ q2.dtqmb = [q.dtqmb EXCEPT ![q.tail] = data]
    BY <1>2, DtqcbOK, DtqMb
  <2> HIDE DEF q2
  <2>2. DtqCh(q2) = Append(DtqCh(q), data) /\ DtqCap(q2) = DtqCap(q)
    BY <1>2, <2>1, DtqPuts
  <2> QED BY <2>2 DEF q2
<1>3. ASSUME q.count = q.dtqcnt, q.dtqcnt > 0
      PROVE  LET q2 == DTQ!force_enqueue_data(q, data)
             IN  DtqCh(q2) = Append(Tail(DtqCh(q)), data) /\ DtqCap(q2) = DtqCap(q)
  (* It is as if the oldest were taken first.                              *)
  <2> DEFINE q1 == DTQ!dequeue_data(q)
             q2 == DTQ!force_enqueue_data(q, data)
  <2>1. /\ q1 \in DTQCB /\ q1.count = q.count - 1 /\ q1.exists /\ q1.dtqcnt = q.dtqcnt
        /\ q1.head = NextAt(q.dtqcnt, q.head) /\ q1.tail = q.tail
        /\ q1.dtqmb = q.dtqmb
    BY <1>3, DtqcbOK, DtqMb
  <2>2. Ring(q1) /\ DtqCh(q1) = Tail(DtqCh(q)) /\ DtqCap(q1) = DtqCap(q)
    BY <1>3, RingKept, DtqTakes
  <2>3. /\ q2 \in DTQCB /\ q2.count = q.count /\ q2.exists /\ q2.dtqcnt = q.dtqcnt
        /\ q2.head = NextAt(q.dtqcnt, q.tail)
        /\ q2.dtqmb = [q.dtqmb EXCEPT ![q.tail] = data]
    <3>1. ~(q.count < q.dtqcnt)
      BY <1>3 DEF DTQCB
    <3>2. /\ q2 \in DTQCB
          /\ q2.count = IF q.count < q.dtqcnt THEN q.count + 1 ELSE q.count
          /\ q2.exists = q.exists /\ q2.dtqcnt = q.dtqcnt
          /\ q2.head = IF q.count < q.dtqcnt THEN q.head ELSE q2.tail
          /\ q2.tail = NextAt(q.dtqcnt, q.tail)
      BY DtqcbOK
    <3>3. q2.dtqmb = [q.dtqmb EXCEPT ![q.tail] = data]
      BY DtqMb
    <3> HIDE DEF q2
    <3> QED BY <3>1, <3>2, <3>3
  <2>4. q.tail = q.head /\ q.count \in Nat /\ q.dtqcnt \in Nat
    <3> DEFINE n == q.dtqcnt
               c == q.count
               h == q.head
               t == q.tail
    <3>1. RingAt(n, c, h, t) /\ c = n /\ n > 0
      BY <1>3 DEF Ring
    <3> HIDE DEF n, c, h, t
    <3>2. t = h /\ c \in Nat /\ n \in Nat
      BY <3>1 DEF RingAt
    <3> QED BY <3>2 DEF t, h, c, n
  <2> HIDE DEF q1, q2
  <2>5. /\ q1.count < q1.dtqcnt /\ q2.count = q1.count + 1 /\ q2.head = q1.head
        /\ q2.dtqmb = [q1.dtqmb EXCEPT ![q1.tail] = data] /\ q1.dtqcnt <= MaxDtqcnt
        /\ q2.dtqcnt = q1.dtqcnt
    BY <1>3, <2>1, <2>3, <2>4
  <2>6. DtqCh(q2) = Append(DtqCh(q1), data) /\ DtqCap(q2) = DtqCap(q1)
    BY <2>1, <2>2, <2>3, <2>5, DtqPuts
  <2> QED BY <2>2, <2>6 DEF q2
<1> QED BY <1>1, <1>2, <1>3

(* What the steps of the kernel do to the offers.                          *)
LEMMA OffersServed ==
  ASSUME Sound, NEW w \in WaitQueue, kernel.wait_queue[w] # << >>,
         Dispatch(Served(kernel, w))
  PROVE  LET t == Head(kernel.wait_queue[w])
         IN  /\ t \in Task /\ Waits(kernel.tcb[t], w)
             /\ Offers(kernel, w)[t] = kernel.tcb[t].winfo
             /\ Offers(kernel', w) = [Offers(kernel, w) EXCEPT ![t] = NULL]
             /\ \A v \in WaitQueue \ {w} : Offers(kernel', v) = Offers(kernel, v)
<1> DEFINE t == Head(kernel.wait_queue[w])
           k2 == kernel'
<1>1. /\ t \in Task /\ Waits(kernel.tcb[t], w)
      /\ \A v \in WaitQueue : ~Waits(k2.tcb[t], v)
      /\ Remains(kernel, k2, {t})
  BY OneServed
<1>2. Leaves(kernel, k2)
  BY ServeStep
<1> HIDE DEF t, k2
<1>3. Offers(k2, w) = [Offers(kernel, w) EXCEPT ![t] = NULL]
  BY <1>1, <1>2, OffersTaken
<1>4. ASSUME NEW v \in WaitQueue \ {w} PROVE Offers(k2, v) = Offers(kernel, v)
  <2>1. \A s \in {t} : Waits(kernel.tcb[s], v) => Waits(k2.tcb[s], v)
    BY <1>1 DEF Waits
  <2> DEFINE S == {t}
  <2>2. Remains(kernel, k2, S) /\ \A s \in S : Waits(kernel.tcb[s], v) => Waits(k2.tcb[s], v)
    BY <1>1, <2>1
  <2> HIDE DEF S
  <2> QED BY <1>2, <2>2, OffersKept
<1>5. Offers(kernel, w)[t] = kernel.tcb[t].winfo
  BY <1>1 DEF Offers
<1> QED BY <1>1, <1>3, <1>4, <1>5 DEF t, k2

LEMMA OffersWaited ==
  ASSUME Sound, TaskContext, NEW w \in WaitQueue, NEW s \in States, TSTAT_WAITING(s),
         w \in TPRI => TSTAT_WAIT_WOBJCB(s),
         NEW info \in WINFO, NEW timed \in BOOLEAN, wobj_wait(w, s, info, timed)
  PROVE  /\ p_runtsk \in Task /\ Joins(kernel, kernel', p_runtsk, w, info)
         /\ Offers(kernel, w)[p_runtsk] = NULL
         /\ Offers(kernel', w) = [Offers(kernel, w) EXCEPT ![p_runtsk] = info]
         /\ \A v \in WaitQueue \ {w} : Offers(kernel', v) = Offers(kernel, v)
<1> DEFINE t == p_runtsk
           k2 == kernel'
<1>1. /\ t \in Task
      /\ \A v \in WaitQueue : ~Waits(kernel.tcb[t], v)
      /\ Waits(k2.tcb[t], w) /\ Remains(kernel, k2, {t})
  BY OneJoined
<1>2. Joins(kernel, k2, t, w, info)
  BY WaitStep
<1> HIDE DEF t, k2
<1>3. Offers(k2, w) = [Offers(kernel, w) EXCEPT ![t] = info]
  <2>1. t \in Task /\ Waits(k2.tcb[t], w) /\ Remains(kernel, k2, {t})
    BY <1>1
  <2> QED BY ONLY w \in WaitQueue, <1>2, <2>1, OffersMade
<1>4. ASSUME NEW v \in WaitQueue \ {w} PROVE Offers(k2, v) = Offers(kernel, v)
  <2>1. ~Waits(k2.tcb[t], v) /\ ~Waits(kernel.tcb[t], v)
    BY <1>1 DEF Waits
  <2>2. \A u \in Task \ {t} :
          /\ Waits(k2.tcb[u], v) <=> Waits(kernel.tcb[u], v)
          /\ Waits(k2.tcb[u], v) => k2.tcb[u].winfo = kernel.tcb[u].winfo
    BY <1>1, <1>2 DEF Joins, Stays, Remains
  <2> QED BY <2>1, <2>2 DEF Offers
<1>5. Offers(kernel, w)[t] = NULL
  BY <1>1 DEF Offers
<1> QED BY <1>1, <1>2, <1>3, <1>4, <1>5 DEF t, k2

LEMMA SentBy ==
  ASSUME Sound, NEW w \in WaitQueue, kernel.wait_queue[w] # << >>
  PROVE  LET t == Head(kernel.wait_queue[w])
         IN  t \in Task /\ Waits(kernel.tcb[t], w)
<1> DEFINE q == kernel.wait_queue[w]
           W == Waiters(kernel, {}, w)
<1>1. QueueOf(q, W)
  BY DEF Sound, SoundAt, Tidy, QueuesOK, WaitQueueOK
<1> HIDE DEF W, q
<1>2. Head(q) \in W
  BY <1>1, QueueHead DEF q
<1>3. \A t \in W : t \in Task /\ Waits(kernel.tcb[t], w)
  BY DEF W, Waiters
<1> QED BY <1>2, <1>3 DEF q

LEMMA DtqHeadTail ==
  ASSUME NEW q \in DTQCB, q.exists, DtqCh(q) # << >>, NEW x \in Data
  PROVE  LET s == DtqCh(q)
         IN  Head(Append(s, x)) = Head(s) /\ Tail(Append(s, x)) = Append(Tail(s), x)
<1> DEFINE n == q.dtqcnt
           c == q.count
           h == q.head
           mb == q.dtqmb
           s == DtqCh(q)
           D == {mb[RingPlace(n, h, i)] : i \in 1..c} \cup {x}
<1>1. c \in Nat /\ s = RingSeq(n, c, h, mb)
  BY DEF DTQCB, DtqCh
<1>2. \A i \in 1..c : mb[RingPlace(n, h, i)] \in D
  OBVIOUS
<1>3. x \in D
  OBVIOUS
<1> HIDE DEF D, n, c, h, mb, s
<1>4. s \in Seq(D)
  BY <1>1, <1>2, RingSeqIn
<1>5. s # << >>
  BY DEF s
<1>6. Head(Append(s, x)) = Head(s) /\ Tail(Append(s, x)) = Append(Tail(s), x)
  BY <1>3, <1>4, <1>5, HeadTailAppend
<1> QED BY <1>6 DEF s

(* What the data queue needs besides to be a channel.                      *)
DtqChanOK ==
  /\ p_dtqcb.dtqcnt <= MaxDtqcnt
  /\ OffersIn(kernel, dtq_swait, Data)

DtqChannelStep == DTQ!Abstract!Next \/ UNCHANGED DTQ!Abstract!vars

(* The channel before and after.                                           *)
LEMMA DtqViews ==
  /\ \E cap, ch, offers, got : DtqChannel(cap, ch, offers, got)
  /\ \E cap, ch, offers, got : DtqChannel(cap, ch, offers, got)'
BY DEF DtqChannel

(* Every service is a step of the channel.                                 *)
LEMMA DtqServes ==
  ASSUME Sound, DtqOK, Ring(p_dtqcb), DtqChanOK, DTQ!Services
  PROVE  /\ p_dtqcb'.dtqcnt <= MaxDtqcnt /\ OffersIn(kernel', dtq_swait, Data)
         /\ DtqChannelStep
<1> DEFINE c    == p_dtqcb
           d    == p_dtqcb'
           NS   == NobodyWaits(kernel, dtq_swait)
           NR   == NobodyWaits(kernel, dtq_rwait)
           In   == OffersIn(kernel', dtq_swait, Data)
           Fits == d.dtqcnt <= MaxDtqcnt
           Goal == Fits /\ In /\ DtqChannelStep
           full == kernel.wait_queue[dtq_swait] # << >>
           some == kernel.wait_queue[dtq_rwait] # << >>
<1>1. PICK cap, ch, offers, got : DtqChannel(cap, ch, offers, got)
  BY DtqViews
<1>2. PICK cap2, ch2, offers2, got2 : DtqChannel(cap2, ch2, offers2, got2)'
  BY DtqViews
<1>3. /\ cap = DtqCap(c) /\ ch = DtqCh(c) /\ offers = Offers(kernel, dtq_swait)
      /\ got = dtq_received
  BY <1>1 DEF DtqChannel
<1>4. /\ cap2 = DtqCap(d) /\ ch2 = DtqCh(d) /\ offers2 = Offers(kernel', dtq_swait)
      /\ got2 = dtq_received'
  BY <1>2 DEF DtqChannel, Offers, DtqCap, DtqCh, Waits
(* The steps of the channel, as they are needed here.                      *)
<1>5. /\ cap2 \in 0..MaxDtqcnt /\ ch2 = << >> /\ offers2 = NoOffers /\ got2 = got
           => DtqChannelStep
      /\ \A x \in Data : Len(ch) < cap /\ offers = NoOffers /\ ch2 = Append(ch, x)
           /\ cap2 = cap /\ offers2 = offers /\ got2 = got
           => DtqChannelStep
      /\ \A x \in Data : cap > 0 /\ Len(ch) = cap /\ ch2 = Append(Tail(ch), x)
           /\ cap2 = cap /\ offers2 = offers /\ got2 = got
           => DtqChannelStep
      /\ \A x \in Data, s \in Task : Len(ch) = cap /\ offers[s] = NULL
           /\ offers2 = [offers EXCEPT ![s] = x]
           /\ cap2 = cap /\ ch2 = ch /\ got2 = got
           => DtqChannelStep
      /\ \A x \in Data : ch = << >> /\ offers = NoOffers /\ got2 = x
           /\ cap2 = cap /\ ch2 = ch /\ offers2 = offers
           => DtqChannelStep
      /\ offers = NoOffers /\ ch # << >> /\ got2 = Head(ch) /\ ch2 = Tail(ch)
           /\ cap2 = cap /\ offers2 = offers
           => DtqChannelStep
      /\ \A s \in Task : offers[s] # NULL /\ got2 = Head(Append(ch, offers[s]))
           /\ ch2 = Tail(Append(ch, offers[s])) /\ offers2 = [offers EXCEPT ![s] = NULL]
           /\ cap2 = cap
           => DtqChannelStep
      /\ cap2 = cap /\ ch2 = ch /\ offers2 = offers /\ got2 = got
           => DtqChannelStep
  BY <1>1, <1>2, DtqChannelSteps DEF DtqChannelStep
<1>6. /\ c \in DTQCB /\ c.count \in Nat /\ c.dtqcnt \in Nat /\ c.count <= c.dtqcnt
      /\ c.dtqcnt <= MaxDtqcnt /\ OffersIn(kernel, dtq_swait, Data)
      /\ NR \/ (c.exists /\ c.count = 0 /\ NS)
      /\ NS \/ (c.exists /\ c.count = c.dtqcnt)
      /\ full <=> ~NS
      /\ some <=> ~NR
  BY SevenQueues, EmptyQueue DEF DtqOK, DtqChanOK, DTQCB
<1>7. c.exists => cap = c.dtqcnt /\ Len(ch) = c.count /\ (c.count = 0 => ch = << >>)
  BY <1>3, <1>6, DtqLength
<1>8. NS => offers = NoOffers
  BY <1>3, OffersNone
<1>9. UNCHANGED taskVars => In /\ offers2 = offers
  <2>1. OffersIn(kernel, dtq_swait, Data)
    BY <1>6
  <2> QED BY <1>3, <1>4, <2>1 DEF taskVars
<1>10. UNCHANGED p_dtqcb => Fits /\ cap2 = cap /\ ch2 = ch
  BY <1>3, <1>4, <1>6
<1>11. UNCHANGED dtq_received => got2 = got
  BY <1>3, <1>4
<1>12. Data \subseteq WINFO /\ dtq_swait \in WaitQueue /\ dtq_rwait \in WaitQueue
       /\ dtq_swait # dtq_rwait /\ NULL \notin Data
  BY SevenQueues, SyncObjectsAssumption DEF WINFO
<1> HIDE DEF Goal, In, Fits, DtqChannelStep
(* The ways to send.                                                       *)
<1>13. ASSUME NEW x \in Data, DTQ!hand_over(x), c.exists PROVE Goal
  <2>1. some /\ UNCHANGED p_dtqcb /\ got2 = x /\ Dispatch(Served(kernel, dtq_rwait))
    BY <1>4, <1>13, DtqKernel DEF DTQ!hand_over, DTQ!rwaiting, Served
  <2>2. Offers(kernel', dtq_swait) = Offers(kernel, dtq_swait)
    BY <1>12, <2>1, OffersServed
  <2>3. In
    BY <1>6, <1>12, <2>1, ServeStep, OffersLeft DEF In
  <2>4. NS /\ c.count = 0
    BY <1>6, <2>1
  <2>5. /\ ch = << >> /\ offers = NoOffers /\ got2 = x
        /\ cap2 = cap /\ ch2 = ch /\ offers2 = offers
    BY <1>3, <1>4, <1>7, <1>8, <1>10, <1>13, <2>1, <2>2, <2>4
  <2>6. DtqChannelStep
    BY <1>5, <2>5
  <2> QED BY <1>10, <2>1, <2>3, <2>6 DEF Goal
<1>14. ASSUME NEW x \in Data, DTQ!send_data(x), c.exists PROVE Goal
  <2>1. CASE DTQ!hand_over(x)
    BY <1>13, <1>14, <2>1
  <2>2. CASE ~DTQ!hand_over(x)
    <3>1. /\ c.count < c.dtqcnt
          /\ d = DTQ!enqueue_data(c, x) /\ UNCHANGED <<taskVars, dtq_received>>
      BY <1>14, <2>2, DtqKernel DEF DTQ!send_data, DTQ!dtqcnt
    <3>2. /\ d.dtqcnt = c.dtqcnt
          /\ DtqCh(d) = Append(DtqCh(c), x) /\ DtqCap(d) = DtqCap(c)
      BY <1>6, <1>12, <1>14, <3>1, DtqcbOK, DtqEnqueues
    <3>3. NS /\ Fits
      BY <1>6, <3>1, <3>2 DEF Fits
    <3>4. /\ Len(ch) < cap /\ offers = NoOffers /\ ch2 = Append(ch, x)
          /\ cap2 = cap /\ offers2 = offers /\ got2 = got
      BY <1>3, <1>4, <1>7, <1>8, <1>9, <1>11, <1>14, <3>1, <3>2, <3>3
    <3>5. DtqChannelStep
      BY <1>5, <3>4
    <3> QED BY <1>9, <3>1, <3>3, <3>5 DEF Goal
  <2> QED BY <2>1, <2>2
<1>15. ASSUME NEW x \in Data, DTQ!force_send_data(x), c.exists, c.dtqcnt > 0 PROVE Goal
  <2>1. CASE DTQ!hand_over(x)
    BY <1>13, <1>15, <2>1
  <2>2. CASE ~DTQ!hand_over(x)
    <3>1. d = DTQ!force_enqueue_data(c, x) /\ UNCHANGED <<taskVars, dtq_received>>
      BY <1>15, <2>2, DtqKernel DEF DTQ!force_send_data
    <3>2. d.dtqcnt = c.dtqcnt /\ Fits
      BY <1>6, <1>12, <3>1, DtqcbOK DEF Fits
    <3>3. CASE c.count < c.dtqcnt
      <4>1. DtqCh(d) = Append(DtqCh(c), x) /\ DtqCap(d) = DtqCap(c)
        BY <1>6, <1>12, <1>15, <3>1, <3>3, DtqEnqueues
      <4>2. NS
        BY <1>6, <3>3
      <4> QED BY <1>3, <1>4, <1>5, <1>7, <1>8, <1>9, <1>11, <1>15, <3>1, <3>2, <3>3, <4>1, <4>2
              DEF Goal
    <3>4. CASE c.count = c.dtqcnt
      <4>1. DtqCh(d) = Append(Tail(DtqCh(c)), x) /\ DtqCap(d) = DtqCap(c)
        BY <1>6, <1>12, <1>15, <3>1, <3>4, DtqEnqueues
      <4> QED BY <1>3, <1>4, <1>5, <1>7, <1>9, <1>11, <1>15, <3>1, <3>2, <3>4, <4>1 DEF Goal
    <3> QED BY <1>6, <3>3, <3>4
  <2> QED BY <2>1, <2>2
<1>16. ASSUME NEW x \in Data, NEW timed \in BOOLEAN, TaskContext, c.exists,
              c.count >= c.dtqcnt,
              wobj_wait(dtq_swait, TS_WAITING_SDTQ, x, timed),
              UNCHANGED <<p_dtqcb, dtq_received>>
       PROVE  Goal
  <2> DEFINE s == TS_WAITING_SDTQ
  <2>1. /\ s \in States /\ TSTAT_WAITING(s) /\ TSTAT_WAIT_WOBJCB(s) /\ x \in WINFO
    BY <1>12 DEF TS_WAITING_SDTQ, States, TSTAT_WAITING, TSTAT_WAIT_WOBJCB, WaitFactor,
           WobjFactor, WobjcbFactor
  <2>2. wobj_wait(dtq_swait, s, x, timed)
    BY <1>16
  <2> HIDE DEF s
  <2>3. /\ p_runtsk \in Task /\ Joins(kernel, kernel', p_runtsk, dtq_swait, x)
        /\ Offers(kernel, dtq_swait)[p_runtsk] = NULL
        /\ Offers(kernel', dtq_swait) = [Offers(kernel, dtq_swait) EXCEPT ![p_runtsk] = x]
    BY <1>12, <1>16, <2>1, <2>2, OffersWaited
  <2>4. In
    BY <1>6, <1>12, <2>3, OffersJoined DEF In
  <2>5. Len(ch) = cap
    BY <1>6, <1>7, <1>16
  <2> QED BY <1>3, <1>4, <1>5, <1>10, <1>11, <1>16, <2>3, <2>4, <2>5 DEF Goal
(* The ways to receive.                                                    *)
<1>17. ASSUME full
       PROVE  LET t == Head(kernel.wait_queue[dtq_swait])
              IN  /\ t \in Task /\ DTQ!sent \in Data /\ offers[t] = DTQ!sent
                  /\ DTQ!release_sender =>
                       /\ In /\ offers2 = [offers EXCEPT ![t] = NULL]
  <2> DEFINE t == Head(kernel.wait_queue[dtq_swait])
  <2>1. DTQ!sent = kernel.tcb[t].winfo
    BY DEF DTQ!sent, DTQ!swaiting
  <2>2. t \in Task /\ Waits(kernel.tcb[t], dtq_swait)
    BY <1>12, <1>17, SentBy
  <2>3. offers[t] = kernel.tcb[t].winfo /\ kernel.tcb[t].winfo \in Data
    BY <1>3, <1>6, <2>2 DEF Offers, OffersIn
  <2>4. ASSUME DTQ!release_sender
        PROVE  In /\ offers2 = [offers EXCEPT ![t] = NULL]
    <3>1. Dispatch(Served(kernel, dtq_swait))
      BY <2>4, DtqKernel DEF DTQ!release_sender, DTQ!swaiting, Served
    <3>2. In
      BY <1>6, <1>12, <1>17, <3>1, ServeStep, OffersLeft DEF In
    <3>3. Offers(kernel', dtq_swait) = [Offers(kernel, dtq_swait) EXCEPT ![t] = NULL]
      BY <1>12, <1>17, <3>1, OffersServed
    <3> QED BY <1>3, <1>4, <3>2, <3>3
  <2> HIDE DEF t
  <2> QED BY <2>1, <2>2, <2>3, <2>4 DEF t
<1>18. ASSUME DTQ!receive_data, c.exists PROVE Goal
  <2>1. CASE c.count > 0 /\ ~full
    <3>1. /\ d = DTQ!dequeue_data(c) /\ UNCHANGED taskVars
          /\ got2 = c.dtqmb[c.head]
      BY <1>4, <1>6, <1>18, <2>1, DtqKernel DEF DTQ!receive_data, DTQ!swaiting
    <3>2. d.dtqcnt = c.dtqcnt /\ Fits
      BY <1>6, <2>1, <3>1, DtqcbOK DEF Fits
    <3>3. /\ DtqCh(c) # << >> /\ Head(DtqCh(c)) = c.dtqmb[c.head]
          /\ DtqCh(d) = Tail(DtqCh(c)) /\ DtqCap(d) = DtqCap(c)
      BY <1>6, <1>18, <2>1, <3>1, DtqTakes
    <3>4. /\ offers = NoOffers /\ ch # << >> /\ got2 = Head(ch) /\ ch2 = Tail(ch)
          /\ cap2 = cap /\ offers2 = offers
      BY <1>3, <1>4, <1>6, <1>8, <1>9, <2>1, <3>1, <3>3
    <3>5. DtqChannelStep
      BY <1>5, <3>4
    <3> QED BY <1>9, <3>1, <3>2, <3>5 DEF Goal
  <2>2. CASE c.count > 0 /\ full
    <3> DEFINE q == DTQ!dequeue_data(c)
               x == DTQ!sent
               t == Head(kernel.wait_queue[dtq_swait])
    <3>1. d = DTQ!enqueue_data(q, x) /\ DTQ!release_sender /\ got2 = c.dtqmb[c.head]
      BY <1>4, <1>6, <1>18, <2>2, DtqKernel DEF DTQ!receive_data, DTQ!swaiting
    <3>2. /\ x \in Data /\ t \in Task /\ offers[t] = x /\ In
          /\ offers2 = [offers EXCEPT ![t] = NULL]
      BY <1>17, <2>2, <3>1
    <3>3. /\ q \in DTQCB /\ q.count = c.count - 1 /\ q.dtqcnt = c.dtqcnt /\ q.exists
          /\ Ring(q)
      BY <1>6, <1>18, <2>2, DtqcbOK, RingKept
    <3>4. /\ DtqCh(c) # << >> /\ Head(DtqCh(c)) = c.dtqmb[c.head]
          /\ DtqCh(q) = Tail(DtqCh(c)) /\ DtqCap(q) = DtqCap(c)
      BY <1>6, <1>18, <2>2, DtqTakes
    <3> HIDE DEF q, x, t
    <3>5. d.dtqcnt = c.dtqcnt /\ Fits
      BY <1>6, <1>12, <3>1, <3>2, <3>3, DtqcbOK DEF Fits
    <3>6. q.count < q.dtqcnt /\ q.dtqcnt <= MaxDtqcnt /\ x \in WINFO
      BY <1>6, <1>12, <3>2, <3>3
    <3>7. DtqCh(d) = Append(DtqCh(q), x) /\ DtqCap(d) = DtqCap(q)
      BY <3>1, <3>3, <3>6, DtqEnqueues
    <3>8. /\ Head(Append(ch, x)) = Head(ch) /\ Tail(Append(ch, x)) = Append(Tail(ch), x)
      BY <1>3, <1>6, <1>18, <3>2, <3>4, DtqHeadTail
    <3>9. /\ offers[t] # NULL /\ got2 = Head(Append(ch, offers[t]))
          /\ ch2 = Tail(Append(ch, offers[t])) /\ offers2 = [offers EXCEPT ![t] = NULL]
          /\ cap2 = cap /\ t \in Task
      BY <1>3, <1>4, <1>12, <3>1, <3>2, <3>4, <3>7, <3>8
    <3>10. DtqChannelStep
      BY <1>5, <3>9
    <3> QED BY <3>2, <3>5, <3>10 DEF Goal
  <2>3. CASE ~(c.count > 0)
    <3> DEFINE x == DTQ!sent
               t == Head(kernel.wait_queue[dtq_swait])
    <3>1. full /\ DTQ!release_sender /\ UNCHANGED p_dtqcb /\ got2 = x
      BY <1>4, <1>18, <2>3, DtqKernel DEF DTQ!receive_data, DTQ!swaiting
    <3>2. /\ x \in Data /\ t \in Task /\ offers[t] = x /\ In
          /\ offers2 = [offers EXCEPT ![t] = NULL]
      BY <1>17, <3>1
    <3> HIDE DEF x, t
    <3>3. ch = << >>
      BY <1>6, <1>7, <1>18, <2>3
    <3>4. Head(Append(ch, x)) = x /\ Tail(Append(ch, x)) = << >>
      BY <3>3
    <3>5. /\ offers[t] # NULL /\ got2 = Head(Append(ch, offers[t]))
          /\ ch2 = Tail(Append(ch, offers[t])) /\ offers2 = [offers EXCEPT ![t] = NULL]
          /\ cap2 = cap /\ t \in Task
      BY <1>10, <1>12, <3>1, <3>2, <3>3, <3>4
    <3>6. DtqChannelStep
      BY <1>5, <3>5
    <3> QED BY <1>10, <3>1, <3>2, <3>6 DEF Goal
  <2> QED BY <2>1, <2>2, <2>3
<1>19. ASSUME NEW timed \in BOOLEAN, TaskContext,
              wobj_wait(dtq_rwait, TS_WAITING_RDTQ, NULL, timed),
              UNCHANGED <<p_dtqcb, dtq_received>>
       PROVE  Goal
  <2> DEFINE s == TS_WAITING_RDTQ
  <2>1. /\ s \in States /\ TSTAT_WAITING(s) /\ dtq_rwait \notin TPRI /\ NULL \in WINFO
    BY SevenQueues, NullWinfo DEF TS_WAITING_RDTQ, States, TSTAT_WAITING, WaitFactor,
           WobjFactor, WobjcbFactor
  <2>2. wobj_wait(dtq_rwait, s, NULL, timed)
    BY <1>19
  <2> HIDE DEF s
  <2>3. /\ p_runtsk \in Task /\ Joins(kernel, kernel', p_runtsk, dtq_rwait, NULL)
        /\ Offers(kernel', dtq_swait) = Offers(kernel, dtq_swait)
    BY <1>12, <1>19, <2>1, <2>2, OffersWaited
  <2>4. In
    BY <1>6, <1>12, <2>3, OffersJoined DEF In
  <2>5. cap2 = cap /\ ch2 = ch /\ offers2 = offers /\ got2 = got
    BY <1>3, <1>4, <1>10, <1>11, <1>19, <2>3
  <2>6. DtqChannelStep
    BY <1>5, <2>5
  <2> QED BY <1>10, <1>19, <2>4, <2>6 DEF Goal
(* Creation, deletion and initialization.                                  *)
<1>20. ASSUME Dispatch(init_wait_queue(init_wait_queue(kernel, dtq_swait), dtq_rwait)),
              UNCHANGED dtq_received, Fits, ch2 = << >>, cap2 \in 0..MaxDtqcnt
       PROVE  Goal
  <2>1. Leaves(kernel, kernel') /\ NobodyWaits(kernel', dtq_swait)
    BY <1>12, <1>20, ReleaseAllStep
  <2>2. In
    BY <1>6, <1>12, <2>1, OffersLeft DEF In
  <2>3. offers2 = NoOffers
    BY <1>4, <2>1, OffersNone
  <2>4. DtqChannelStep
    BY <1>5, <1>11, <1>20, <2>3
  <2> QED BY <1>20, <2>2, <2>4 DEF Goal
<1>21. ASSUME NEW cnt \in 0..MaxDtqcnt, DTQ!acre_dtq(cnt) PROVE Goal
  <2>1. NS /\ UNCHANGED <<taskVars, dtq_received>>
    BY <1>6, <1>21, DtqKernel DEF DTQ!acre_dtq, DTQ!exists
  <2> DEFINE q == DTQ!Empty(c)
             e == TRUE
  <2>2. q \in DTQCB /\ q.count = 0 /\ d = [q EXCEPT !.exists = e, !.dtqcnt = cnt]
    BY <1>6, <1>21, DtqcbOK DEF DTQ!acre_dtq
  <2>3. e \in BOOLEAN /\ e /\ cnt \in Nat /\ cnt <= MaxDtqcnt /\ MaxDtqcnt \in Nat
    BY SyncObjectsAssumption DEF DTQ!DataQueueAssumption
  <2> HIDE DEF q, e
  <2>4. d \in DTQCB /\ d.exists /\ d.count = 0 /\ d.dtqcnt = cnt
    BY <2>2, <2>3 DEF DTQCB
  <2>5. DtqCap(d) = cnt /\ DtqCh(d) = << >>
    BY <2>4, DtqLength
  <2>6. /\ cap2 \in 0..MaxDtqcnt /\ ch2 = << >> /\ offers2 = NoOffers /\ got2 = got
    BY <1>4, <1>8, <1>9, <1>11, <2>1, <2>5
  <2>7. DtqChannelStep
    BY <1>5, <2>6
  <2>8. Fits
    BY <2>3, <2>4 DEF Fits
  <2> QED BY <1>9, <2>1, <2>7, <2>8 DEF Goal
<1>22. ASSUME DTQ!del_dtq PROVE Goal
  <2>1. /\ Dispatch(init_wait_queue(init_wait_queue(kernel, dtq_swait), dtq_rwait))
        /\ UNCHANGED dtq_received /\ d = [c EXCEPT !.exists = FALSE]
    BY <1>22, DtqKernel DEF DTQ!del_dtq, DTQ!release_all
  <2>2. ~d.exists /\ d.dtqcnt = c.dtqcnt
    BY <1>6, <2>1 DEF DTQCB
  <2>3. Fits /\ cap2 = 0 /\ ch2 = << >>
    BY <1>4, <1>6, <2>2 DEF DtqCap, DtqCh, Fits
  <2>4. cap2 \in 0..MaxDtqcnt
    BY <2>3, SyncObjectsAssumption DEF DTQ!DataQueueAssumption
  <2> QED BY <1>20, <2>1, <2>3, <2>4
<1>23. ASSUME DTQ!ini_dtq PROVE Goal
  <2> DEFINE q == DTQ!Empty(c)
  <2>1. /\ Dispatch(init_wait_queue(init_wait_queue(kernel, dtq_swait), dtq_rwait))
        /\ UNCHANGED dtq_received /\ d = q /\ c.exists
    BY <1>23, DtqKernel DEF DTQ!ini_dtq, DTQ!release_all, DTQ!exists
  <2>2. q \in DTQCB /\ q.count = 0 /\ q.dtqcnt = c.dtqcnt
    BY <1>6, DtqcbOK
  <2>3. q.exists = c.exists
    <3> DEFINE z == 0
    <3>1. q = [c EXCEPT !.count = z, !.head = z, !.tail = z]
      BY DEF DTQ!Empty
    <3> HIDE DEF z, q
    <3> QED BY <1>6, <3>1 DEF DTQCB
  <2> HIDE DEF q
  <2>4. DtqCap(d) = c.dtqcnt /\ DtqCh(d) = << >> /\ Fits
    BY <1>6, <2>1, <2>2, <2>3, DtqLength DEF Fits
  <2>5. cap2 \in 0..MaxDtqcnt /\ ch2 = << >>
    BY <1>4, <1>6, <2>4, SyncObjectsAssumption DEF DTQ!DataQueueAssumption
  <2> QED BY <1>20, <2>1, <2>4, <2>5
(* The services that send and receive.                                     *)
<1>24. ASSUME NEW x \in Data, DTQ!psnd_dtq(x) PROVE Goal
  BY <1>14, <1>24 DEF DTQ!psnd_dtq, DTQ!exists
<1>25. ASSUME NEW x \in Data, DTQ!fsnd_dtq(x) PROVE Goal
  BY <1>15, <1>25 DEF DTQ!fsnd_dtq, DTQ!exists, DTQ!dtqcnt
<1>26. ASSUME NEW x \in Data, NEW timed \in BOOLEAN, DTQ!tsnd_dtq(x, timed) PROVE Goal
  <2>1. CASE DTQ!send_data(x)
    BY <1>14, <1>26, <2>1 DEF DTQ!tsnd_dtq, DTQ!exists
  <2>2. CASE ~DTQ!send_data(x)
    BY <1>16, <1>26, <2>2, DtqKernel DEF DTQ!tsnd_dtq, DTQ!exists, DTQ!dtqcnt
  <2> QED BY <2>1, <2>2
<1>27. ASSUME DTQ!prcv_dtq PROVE Goal
  BY <1>18, <1>27 DEF DTQ!prcv_dtq, DTQ!exists
<1>28. ASSUME NEW timed \in BOOLEAN, DTQ!trcv_dtq(timed) PROVE Goal
  <2>1. CASE DTQ!receive_data
    BY <1>18, <1>28, <2>1 DEF DTQ!trcv_dtq, DTQ!exists
  <2>2. CASE ~DTQ!receive_data
    BY <1>19, <1>28, <2>2, DtqKernel DEF DTQ!trcv_dtq
  <2> QED BY <2>1, <2>2
<1>29. Goal
  BY <1>21, <1>22, <1>23, <1>24, <1>25, <1>26, <1>27, <1>28 DEF DTQ!Services
<1> QED BY <1>29 DEF Goal, In, Fits

(* Task services and timeouts withdraw an offer or change nothing.         *)
LEMMA DtqTasks ==
  ASSUME Sound, DtqChanOK, TaskNext, UNCHANGED dtqVars
  PROVE  OffersIn(kernel', dtq_swait, Data) /\ DtqChannelStep
<1>1. PICK cap, ch, offers, got : DtqChannel(cap, ch, offers, got)
  BY DtqViews
<1>2. PICK cap2, ch2, offers2, got2 : DtqChannel(cap2, ch2, offers2, got2)'
  BY DtqViews
<1>3. /\ \A s \in Task : offers[s] # NULL /\ offers2 = [offers EXCEPT ![s] = NULL]
           /\ cap2 = cap /\ ch2 = ch /\ got2 = got
           => DtqChannelStep
      /\ cap2 = cap /\ ch2 = ch /\ offers2 = offers /\ got2 = got
           => DtqChannelStep
  BY <1>1, <1>2, DtqChannelSteps DEF DtqChannelStep
<1> HIDE DEF DtqChannelStep
<1>4. /\ cap2 = cap /\ ch2 = ch /\ got2 = got
      /\ offers = Offers(kernel, dtq_swait) /\ offers2 = Offers(kernel', dtq_swait)
  BY <1>1, <1>2 DEF DtqChannel, Offers, DtqCap, DtqCh, Waits, dtqVars
<1>5. dtq_swait \in WaitQueue /\ NULL \notin Data /\ OffersIn(kernel, dtq_swait, Data)
  BY SevenQueues, SyncObjectsAssumption DEF DtqChanOK
<1>6. OffersIn(kernel', dtq_swait, Data)
  BY <1>5, TaskStep, OffersLeft
<1>7. \/ Offers(kernel', dtq_swait) = Offers(kernel, dtq_swait)
      \/ \E s \in Task :
           /\ Waits(kernel.tcb[s], dtq_swait)
           /\ Offers(kernel', dtq_swait) = [Offers(kernel, dtq_swait) EXCEPT ![s] = NULL]
  BY <1>5, OneTaskLeaves
<1>8. \A s \in Task : Waits(kernel.tcb[s], dtq_swait) => Offers(kernel, dtq_swait)[s] # NULL
  BY <1>5 DEF OffersIn, Offers
<1> QED BY <1>3, <1>4, <1>6, <1>7, <1>8

(* Nobody waits for a data queue that is not.                              *)
LEMMA DtqRests ==
  ASSUME DtqOK, DtqOK', UNCHANGED dtqVars,
         ~p_dtqcb.exists \/ UNCHANGED kernel, OffersIn(kernel, dtq_swait, Data)
  PROVE  OffersIn(kernel', dtq_swait, Data) /\ DtqChannelStep
<1>1. PICK cap, ch, offers, got : DtqChannel(cap, ch, offers, got)
  BY DtqViews
<1>2. PICK cap2, ch2, offers2, got2 : DtqChannel(cap2, ch2, offers2, got2)'
  BY DtqViews
<1>3. cap2 = cap /\ ch2 = ch /\ offers2 = offers /\ got2 = got
        => DtqChannelStep
  BY <1>1, <1>2, DtqChannelSteps DEF DtqChannelStep
<1> HIDE DEF DtqChannelStep
<1>4. /\ cap2 = cap /\ ch2 = ch /\ got2 = got
      /\ offers = Offers(kernel, dtq_swait) /\ offers2 = Offers(kernel', dtq_swait)
  BY <1>1, <1>2 DEF DtqChannel, Offers, DtqCap, DtqCh, Waits, dtqVars
<1>5. CASE UNCHANGED kernel
  BY <1>3, <1>4, <1>5
<1>6. CASE ~p_dtqcb.exists
  <2>1. NobodyWaits(kernel, dtq_swait) /\ NobodyWaits(kernel', dtq_swait)
    <3>1. p_dtqcb' = p_dtqcb
      BY DEF dtqVars
    <3> QED BY <1>6, <3>1 DEF DtqOK, NobodyWaits
  <2>2. offers = NoOffers /\ offers2 = NoOffers
    BY <1>4, <2>1, OffersNone
  <2>3. OffersIn(kernel', dtq_swait, Data)
    BY <2>1 DEF OffersIn, NobodyWaits
  <2> QED BY <1>3, <1>4, <2>2, <2>3
<1> QED BY <1>5, <1>6

(* The invariant: only who uses the data queue creates it.                 *)
ChanInv == StInv /\ DtqChanOK /\ (used # "dtq" => ~p_dtqcb.exists)

LEMMA NextChanInv ==
  ASSUME ChanInv, [Next]_vars
  PROVE  ChanInv' /\ DtqChannelStep
<1>1. /\ Sound /\ DtqOK /\ Ring(p_dtqcb) /\ DtqOK'
      /\ p_dtqcb.dtqcnt <= MaxDtqcnt /\ OffersIn(kernel, dtq_swait, Data)
      /\ DtqChanOK /\ StInv' /\ (used # "dtq" => ~p_dtqcb.exists)
  BY NextStInv DEF ChanInv, StInv, SInv, DtqChanOK
<1> DEFINE Goal == /\ p_dtqcb'.dtqcnt <= MaxDtqcnt
                   /\ OffersIn(kernel', dtq_swait, Data) /\ DtqChannelStep
           Unused == used' # "dtq" => ~p_dtqcb'.exists
<1> HIDE DEF DtqChannelStep
<1>2. UNCHANGED dtqVars => p_dtqcb' = p_dtqcb
  BY DEF dtqVars
<1>3. OffersIn(kernel', dtq_swait, Data) <=> OffersIn(kernel, dtq_swait, Data)'
  BY DEF OffersIn, Waits
<1> SUFFICES Goal /\ Unused
  BY <1>1, <1>3 DEF ChanInv, DtqChanOK
<1>4. CASE UNCHANGED vars
  <2>1. UNCHANGED dtqVars /\ UNCHANGED kernel /\ UNCHANGED used
    BY <1>4 DEF vars, taskVars
  <2> QED BY <1>1, <1>2, <2>1, DtqRests
<1>5. CASE TaskNext /\ UNCHANGED dtqVars /\ UNCHANGED used
  BY <1>1, <1>2, <1>5, DtqTasks
<1>6. CASE used # "dtq" /\ UNCHANGED dtqVars /\ UNCHANGED used
  BY <1>1, <1>2, <1>6, DtqRests
<1>7. CASE used = "dtq" /\ DTQ!Services /\ UNCHANGED used
  BY <1>1, <1>7, DtqServes
<1>8. \/ UNCHANGED vars
      \/ TaskNext /\ UNCHANGED dtqVars /\ UNCHANGED used
      \/ used # "dtq" /\ UNCHANGED dtqVars /\ UNCHANGED used
      \/ used = "dtq" /\ DTQ!Services /\ UNCHANGED used
  BY DEF Next
<1> HIDE DEF Goal, Unused
<1> QED BY <1>4, <1>5, <1>6, <1>7, <1>8

LEMMA InitChanInv == Init => ChanInv /\ DTQ!Abstract!Init
<1> SUFFICES ASSUME Init PROVE ChanInv /\ DTQ!Abstract!Init
  OBVIOUS
<1>1. StInv
  BY InitStInv
<1>2. /\ p_dtqcb.dtqcnt = 0 /\ p_dtqcb.exists = FALSE /\ dtq_received = NULL
  BY DEF Init, DTQ!ObjectInit
<1>3. MaxDtqcnt \in Nat
  BY SyncObjectsAssumption DEF DTQ!DataQueueAssumption
<1>4. NobodyWaits(kernel, dtq_swait)
  BY <1>1, <1>2 DEF StInv, SInv, DtqOK
<1>5. DtqChanOK
  BY <1>2, <1>3, <1>4 DEF DtqChanOK, OffersIn, NobodyWaits
<1>6. DTQ!Abstract!Init
  <2>1. \A s : DTQ!TSTAT_WAITING(s) <=> TSTAT_WAITING(s)
    BY DEF TSTAT_WAITING, WaitFactor, WobjFactor, WobjcbFactor,
           DTQ!TSTAT_WAITING, DTQ!WaitFactor, DTQ!WobjFactor, DTQ!WobjcbFactor
  <2>2. \A t \in Task : ~(DTQ!Waiting(t) /\ kernel.tcb[t].wobj = dtq_swait)
    BY <1>4, <2>1 DEF NobodyWaits, Waits, DTQ!Waiting, DTQ!tstat
  <2> QED BY <1>2, <2>2 DEF DTQ!Abstract!Init, DTQ!Abstract!NoOffer, DTQ!exists
<1> QED BY <1>1, <1>2, <1>5, <1>6 DEF ChanInv

(* Whoever serves, times out, releases or terminates the tasks that wait,  *)
(* and over whichever of the ways: what is sent through the data queue is  *)
(* received in the order in which it was accepted, once and unchanged, and *)
(* what a sender offers while it waits is accepted or withdrawn.           *)
THEOREM ChannelImplemented == Spec => ChannelSpec
<1>1. ChanInv /\ [Next]_vars => ChanInv' /\ [DTQ!Abstract!Next]_(DTQ!Abstract!vars)
  BY NextChanInv DEF DtqChannelStep
<1>2. Init => ChanInv /\ DTQ!Abstract!Init
  BY InitChanInv
<1> QED BY <1>1, <1>2, PTL DEF Spec, ChannelSpec, DTQ!Abstract!Spec
==========================================================================
