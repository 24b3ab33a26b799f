------------------------ MODULE SyncKernel_proofs -----------------------
(***************************************************************************)
(* What the kernel of SyncKernel keeps whatever objects use it: wait       *)
(* queues and task states stay consistent, and a task waits after a        *)
(* service only if it did before, or if it is the caller.                  *)
(*                                                                         *)
(* As with mutexes, a task is in no queue between two helpers although its *)
(* state says that it is in one.  The parts of the invariant are stated    *)
(* for a kernel state k with a set X of such tasks in transit, for the     *)
(* helpers that the services of all objects are made of.  V stands for     *)
(* what the objects keep in a WINFO.                                       *)
(***************************************************************************)
EXTENDS SyncKernel, SchedLemmas

(* The states of the tasks here, and task control blocks.                  *)
States == {TS_DORMANT, TS_RUNNABLE} \cup {{f} : f \in WobjFactor}

TCB(V) == [tstat : States, priority : TPri, wobj : WaitQueue \cup {NULL}, winfo : V]

SSet(V) ==
  [tcb : [Task -> TCB(V)], ready_queue : [TPri -> Seq(Task)],
   ready_primap : SUBSET TPri, p_schedtsk : Task \cup {NULL},
   dspflg : BOOLEAN, tmevtb : SUBSET Task, asserted : BOOLEAN,
   wait_queue : [WaitQueue -> Seq(Task)]]

(* The part of the state that the helpers of the ready queues work on.     *)
Core(k) ==
  [tcb |-> k.tcb, ready_queue |-> k.ready_queue,
   ready_primap |-> k.ready_primap, p_schedtsk |-> k.p_schedtsk,
   dspflg |-> k.dspflg, tmevtb |-> k.tmevtb, asserted |-> k.asserted]

With(k, c) ==
  [k EXCEPT !.tcb = c.tcb, !.ready_queue = c.ready_queue,
            !.ready_primap = c.ready_primap, !.p_schedtsk = c.p_schedtsk,
            !.dspflg = c.dspflg, !.tmevtb = c.tmevtb, !.asserted = c.asserted]

(* The parts that change_priority() and the others leave alone.            *)
SameSched(k, k2) ==
  /\ k2.ready_queue = k.ready_queue /\ k2.ready_primap = k.ready_primap
  /\ k2.p_schedtsk = k.p_schedtsk /\ k2.dspflg = k.dspflg

--------------------------------------------------------------------------
(* The helpers of the ready queues, on the larger state.                   *)
LEMMA CoreOK ==
  ASSUME NEW V, NEW k \in SSet(V)
  PROVE  /\ Core(k) \in KSet(TCB(V))
         /\ \A R : KInv(Core(k), R) <=> KInv(k, R)
<1>1. Core(k) \in KSet(TCB(V))
  BY DEF Core, KSet, SSet
<1> DEFINE c == Core(k)
<1>2. /\ c.tcb = k.tcb /\ c.ready_queue = k.ready_queue
      /\ c.ready_primap = k.ready_primap /\ c.p_schedtsk = k.p_schedtsk
      /\ c.dspflg = k.dspflg
  BY DEF Core
<1> HIDE DEF c
<1>3. ASSUME NEW R PROVE KInv(c, R) <=> KInv(k, R)
  <2>1. ReadyOK(c, R) <=> ReadyOK(k, R)
    BY <1>2 DEF ReadyOK, AtPri
  <2>2. SchedOK(c, R) <=> SchedOK(k, R)
    BY <1>2 DEF SchedOK, IsFirst
  <2> QED BY <2>1, <2>2 DEF KInv
<1> QED BY <1>1, <1>3 DEF c

LEMMA WithOK ==
  ASSUME NEW V, NEW k \in SSet(V), NEW c \in KSet(TCB(V))
  PROVE  /\ With(k, c) \in SSet(V)
         /\ With(k, c).tcb = c.tcb
         /\ With(k, c).ready_queue = c.ready_queue
         /\ With(k, c).ready_primap = c.ready_primap
         /\ With(k, c).p_schedtsk = c.p_schedtsk
         /\ With(k, c).dspflg = c.dspflg
         /\ With(k, c).tmevtb = c.tmevtb
         /\ With(k, c).asserted = c.asserted
         /\ With(k, c).wait_queue = k.wait_queue
         /\ \A R : KInv(c, R) <=> KInv(With(k, c), R)
<1> DEFINE k2 == With(k, c)
<1>1. /\ k2 \in SSet(V)
      /\ k2.tcb = c.tcb /\ k2.ready_queue = c.ready_queue
      /\ k2.ready_primap = c.ready_primap /\ k2.p_schedtsk = c.p_schedtsk
      /\ k2.dspflg = c.dspflg /\ k2.tmevtb = c.tmevtb /\ k2.asserted = c.asserted
      /\ k2.wait_queue = k.wait_queue
  BY DEF With, SSet, KSet
<1> HIDE DEF k2
<1>2. ASSUME NEW R PROVE KInv(c, R) <=> KInv(k2, R)
  <2>1. ReadyOK(c, R) <=> ReadyOK(k2, R)
    BY <1>1 DEF ReadyOK, AtPri
  <2>2. SchedOK(c, R) <=> SchedOK(k2, R)
    BY <1>1 DEF SchedOK, IsFirst
  <2> QED BY <2>1, <2>2 DEF KInv
<1> QED BY <1>1, <1>2 DEF k2

LEMMA OnCore ==
  ASSUME NEW V, NEW k \in SSet(V), NEW t \in Task
  PROVE  /\ make_runnable(k, t) = With(k, make_runnable(Core(k), t))
         /\ make_non_runnable(k, t) = With(k, make_non_runnable(Core(k), t))
<1> DEFINE c == Core(k)
<1>1. make_runnable(k, t) = With(k, make_runnable(c, t))
  <2> DEFINE pri == k.tcb[t].priority
             rq  == [k.ready_queue EXCEPT ![pri] = Append(@, t)]
             map == k.ready_primap \cup {pri}
             s   == IF k.dspflg /\ (k.p_schedtsk = NULL \/ pri < k.tcb[k.p_schedtsk].priority)
                    THEN t ELSE k.p_schedtsk
  <2>1. make_runnable(k, t) =
          [k EXCEPT !.ready_queue = rq, !.ready_primap = map, !.p_schedtsk = s]
    BY DEF make_runnable
  <2>2. make_runnable(c, t) =
          [c EXCEPT !.ready_queue = rq, !.ready_primap = map, !.p_schedtsk = s]
    BY DEF make_runnable, Core
  <2> HIDE DEF rq, map, s
  <2>3. [k EXCEPT !.ready_queue = rq, !.ready_primap = map, !.p_schedtsk = s]
          = With(k, [c EXCEPT !.ready_queue = rq, !.ready_primap = map,
                              !.p_schedtsk = s])
    BY DEF With, Core, SSet
  <2> QED BY <2>1, <2>2, <2>3, Zenon
<1>2. make_non_runnable(k, t) = With(k, make_non_runnable(c, t))
  <2> DEFINE pri == k.tcb[t].priority
             q   == RemoveFirst(k.ready_queue[pri], t)
             rq  == [k.ready_queue EXCEPT ![pri] = q]
             map == IF q = << >> THEN k.ready_primap \ {pri} ELSE k.ready_primap
             a   == k.asserted /\ k.dspflg
             s   == IF q # << >> THEN Head(q)
                    ELSE IF map = {} THEN NULL
                    ELSE Head(rq[primap_search(map)])
  <2>1. make_non_runnable(k, t) =
          IF k.p_schedtsk # t THEN [k EXCEPT !.ready_queue = rq, !.ready_primap = map]
          ELSE [k EXCEPT !.ready_queue = rq, !.ready_primap = map, !.asserted = a,
                         !.p_schedtsk = s]
    BY DEF make_non_runnable, search_schedtsk, SSet
  <2>2. make_non_runnable(c, t) =
          IF k.p_schedtsk # t THEN [c EXCEPT !.ready_queue = rq, !.ready_primap = map]
          ELSE [c EXCEPT !.ready_queue = rq, !.ready_primap = map, !.asserted = a,
                         !.p_schedtsk = s]
    BY DEF make_non_runnable, search_schedtsk, Core
  <2> HIDE DEF rq, map, s, a
  <2>3. /\ [k EXCEPT !.ready_queue = rq, !.ready_primap = map]
             = With(k, [c EXCEPT !.ready_queue = rq, !.ready_primap = map])
        /\ [k EXCEPT !.ready_queue = rq, !.ready_primap = map, !.asserted = a,
                     !.p_schedtsk = s]
             = With(k, [c EXCEPT !.ready_queue = rq, !.ready_primap = map,
                                 !.asserted = a, !.p_schedtsk = s])
    BY DEF With, Core, SSet
  <2> QED BY <2>1, <2>2, <2>3, Zenon
<1> QED BY <1>1, <1>2

LEMMA RequeueOnCore ==
  ASSUME NEW V, NEW k \in SSet(V), NEW t \in Task, NEW old, NEW new, NEW mode
  PROVE  requeue(k, t, old, new, mode) = With(k, requeue(Core(k), t, old, new, mode))
<1> DEFINE c   == Core(k)
           q   == RemoveFirst(k.ready_queue[old], t)
           rq1 == [k.ready_queue EXCEPT ![old] = q]
           rq  == [rq1 EXCEPT ![new] = IF mode THEN Cons(t, @) ELSE Append(@, t)]
           map == (IF q = << >> THEN k.ready_primap \ {old} ELSE k.ready_primap) \cup {new}
           s   == IF k.p_schedtsk = t THEN Head(rq[primap_search(map)]) ELSE Head(rq[new])
           moves == /\ k.dspflg
                    /\ IF k.p_schedtsk = t THEN new >= old
                       ELSE new <= k.tcb[k.p_schedtsk].priority
<1>1. requeue(k, t, old, new, mode) =
        IF moves THEN [k EXCEPT !.ready_queue = rq, !.ready_primap = map, !.p_schedtsk = s]
        ELSE [k EXCEPT !.ready_queue = rq, !.ready_primap = map]
  BY DEF requeue, search_schedtsk, SSet
<1>2. requeue(c, t, old, new, mode) =
        IF moves THEN [c EXCEPT !.ready_queue = rq, !.ready_primap = map, !.p_schedtsk = s]
        ELSE [c EXCEPT !.ready_queue = rq, !.ready_primap = map]
  BY DEF requeue, search_schedtsk, Core
<1> HIDE DEF rq, map, s, moves
<1>3. /\ [k EXCEPT !.ready_queue = rq, !.ready_primap = map]
           = With(k, [c EXCEPT !.ready_queue = rq, !.ready_primap = map])
      /\ [k EXCEPT !.ready_queue = rq, !.ready_primap = map, !.p_schedtsk = s]
           = With(k, [c EXCEPT !.ready_queue = rq, !.ready_primap = map,
                               !.p_schedtsk = s])
  BY DEF With, Core, SSet
<1> QED BY <1>1, <1>2, <1>3, Zenon

--------------------------------------------------------------------------
(* What the flag words mean.                                               *)
LEMMA Flags ==
  /\ TS_DORMANT \in States /\ TS_RUNNABLE \in States
  /\ TSTAT_DORMANT(TS_DORMANT) /\ TSTAT_RUNNABLE(TS_RUNNABLE)
  /\ ~TSTAT_WAITING(TS_DORMANT) /\ ~TSTAT_RUNNABLE(TS_DORMANT)
  /\ ~TSTAT_WAITING(TS_RUNNABLE)
  /\ \A x \in States :
       /\ ~TSTAT_SUSPENDED(x)
       /\ TSTAT_WAIT_WOBJ(x) <=> TSTAT_WAITING(x)
       /\ TSTAT_WAIT_WOBJCB(x) => TSTAT_WAITING(x)
       /\ TSTAT_WAITING(x) => ~TSTAT_RUNNABLE(x) /\ ~TSTAT_DORMANT(x)
       /\ TSTAT_RUNNABLE(x) => ~TSTAT_DORMANT(x)
       /\ TSTAT_DORMANT(x) \/ TSTAT_RUNNABLE(x) \/ TSTAT_WAITING(x)
<1>1. \A f \in WaitFactor : f # "RUNNABLE" /\ f # "SUSPENDED"
  BY DEF WaitFactor, WobjFactor, WobjcbFactor
<1>2. WobjcbFactor \subseteq WobjFactor /\ WobjFactor \subseteq WaitFactor
  BY DEF WaitFactor, WobjFactor
<1>3. ASSUME NEW x \in States
      PROVE  x = {} \/ x = {"RUNNABLE"} \/ \E f \in WobjFactor : x = {f}
  BY DEF States, TS_DORMANT, TS_RUNNABLE
<1>4. ASSUME NEW x \in States
      PROVE  /\ ~TSTAT_SUSPENDED(x)
             /\ TSTAT_WAIT_WOBJ(x) <=> TSTAT_WAITING(x)
             /\ TSTAT_WAIT_WOBJCB(x) => TSTAT_WAITING(x)
             /\ TSTAT_WAITING(x) => ~TSTAT_RUNNABLE(x) /\ ~TSTAT_DORMANT(x)
             /\ TSTAT_RUNNABLE(x) => ~TSTAT_DORMANT(x)
             /\ TSTAT_DORMANT(x) \/ TSTAT_RUNNABLE(x) \/ TSTAT_WAITING(x)
  BY <1>1, <1>2, <1>3 DEF TSTAT_RUNNABLE, TSTAT_WAITING, TSTAT_DORMANT,
       TSTAT_SUSPENDED, TSTAT_WAIT_WOBJ, TSTAT_WAIT_WOBJCB, TS_DORMANT
<1>5. /\ TS_DORMANT \in States /\ TS_RUNNABLE \in States
      /\ TSTAT_DORMANT(TS_DORMANT) /\ TSTAT_RUNNABLE(TS_RUNNABLE)
      /\ ~TSTAT_WAITING(TS_DORMANT) /\ ~TSTAT_RUNNABLE(TS_DORMANT)
      /\ ~TSTAT_WAITING(TS_RUNNABLE)
  BY <1>1 DEF States, TSTAT_RUNNABLE, TSTAT_DORMANT, TSTAT_WAITING, TS_RUNNABLE, TS_DORMANT
<1> QED BY <1>4, <1>5

--------------------------------------------------------------------------
(* One task control block is replaced.                                     *)
Put(k, t, r) == [k EXCEPT !.tcb = [k.tcb EXCEPT ![t] = r]]

OthersSame(k, k2, t) == \A u \in Task \ {t} : k2.tcb[u] = k.tcb[u]

LEMMA PutOK ==
  ASSUME NEW V, NEW k \in SSet(V), NEW t \in Task, NEW r \in TCB(V)
  PROVE  /\ Put(k, t, r) \in SSet(V)
         /\ SameSched(k, Put(k, t, r))
         /\ Put(k, t, r).wait_queue = k.wait_queue
         /\ Put(k, t, r).tmevtb = k.tmevtb
         /\ Put(k, t, r).asserted = k.asserted
         /\ Put(k, t, r).tcb[t] = r
         /\ OthersSame(k, Put(k, t, r), t)
<1> DEFINE c == [k.tcb EXCEPT ![t] = r]
<1>1. /\ c \in [Task -> TCB(V)] /\ c[t] = r
      /\ \A u \in Task \ {t} : c[u] = k.tcb[u]
  BY DEF SSet
<1> HIDE DEF c
<1>2. LET k2 == [k EXCEPT !.tcb = c] IN
      /\ k2 \in SSet(V) /\ k2.tcb = c
      /\ SameSched(k, k2) /\ k2.wait_queue = k.wait_queue
      /\ k2.tmevtb = k.tmevtb /\ k2.asserted = k.asserted
  BY <1>1 DEF SSet, SameSched
<1> QED BY <1>1, <1>2 DEF c, Put, OthersSame

(* A wait queue is replaced.                                               *)
PutQueue(k, w, q) == [k EXCEPT !.wait_queue = [k.wait_queue EXCEPT ![w] = q]]

LEMMA PutQueueOK ==
  ASSUME NEW V, NEW k \in SSet(V), NEW w \in WaitQueue, NEW q \in Seq(Task)
  PROVE  /\ PutQueue(k, w, q) \in SSet(V)
         /\ SameSched(k, PutQueue(k, w, q))
         /\ PutQueue(k, w, q).tcb = k.tcb
         /\ PutQueue(k, w, q).tmevtb = k.tmevtb
         /\ PutQueue(k, w, q).asserted = k.asserted
         /\ PutQueue(k, w, q).wait_queue[w] = q
         /\ \A n \in WaitQueue \ {w} : PutQueue(k, w, q).wait_queue[n] = k.wait_queue[n]
<1> DEFINE f == [k.wait_queue EXCEPT ![w] = q]
<1>1. /\ f \in [WaitQueue -> Seq(Task)] /\ f[w] = q
      /\ \A n \in WaitQueue \ {w} : f[n] = k.wait_queue[n]
  BY DEF SSet
<1> HIDE DEF f
<1>2. LET k2 == [k EXCEPT !.wait_queue = f] IN
      /\ k2 \in SSet(V) /\ k2.wait_queue = f
      /\ SameSched(k, k2) /\ k2.tcb = k.tcb
      /\ k2.tmevtb = k.tmevtb /\ k2.asserted = k.asserted
  BY <1>1 DEF SSet, SameSched
<1> QED BY <1>1, <1>2 DEF f, PutQueue

LEMMA TcbType ==
  ASSUME NEW V, NEW k \in SSet(V), NEW t \in Task
  PROVE  /\ k.tcb[t] \in TCB(V)
         /\ k.tcb[t].tstat \in States
         /\ k.tcb[t].priority \in TPri
         /\ k.tcb[t].wobj \in WaitQueue \cup {NULL}
         /\ k.tcb[t].winfo \in V
<1>1. k.tcb[t] \in TCB(V)
  BY DEF SSet
<1> QED BY <1>1 DEF TCB

--------------------------------------------------------------------------
(* The queues.  The tasks of X are in transit: they are in no queue,       *)
(* whatever their flag words say.                                          *)
Waits(r, w) == TSTAT_WAITING(r.tstat) /\ r.wobj = w

Queued(k, X) == {t \in Task \ X : TSTAT_RUNNABLE(k.tcb[t].tstat)}

Waiters(k, X, w) == {t \in Task \ X : Waits(k.tcb[t], w)}

(* A task in a queue that has to be sorted is one that change_priority()   *)
(* sorts again.                                                            *)
WobjOK(r) ==
  TSTAT_WAITING(r.tstat) =>
    r.wobj \in WaitQueue /\ (r.wobj \in TPRI => TSTAT_WAIT_WOBJCB(r.tstat))

(* The ready queues hold the tasks R, which differ from Queued(k, X) when  *)
(* a flag word is set before its task moves.                               *)
QueuesOK(k, V, R, X) ==
  /\ k \in SSet(V)
  /\ k.dspflg = TRUE
  /\ KInv(k, R)
  /\ \A w \in WaitQueue : WaitQueueOK(TPRI, k, w, k.wait_queue[w], Waiters(k, X, w))
  /\ \A t \in Task \ X : WobjOK(k.tcb[t])
  /\ \A t \in k.tmevtb : TSTAT_WAITING(k.tcb[t].tstat)
  /\ k.asserted = TRUE

Tidy(k, V, X) == QueuesOK(k, V, Queued(k, X), X)

(* The ready queues depend on the priorities of the queued tasks alone.    *)
LEMMA SameReady ==
  ASSUME NEW V, NEW k \in SSet(V), NEW R, KInv(k, R), NEW k2 \in SSet(V), SameSched(k, k2),
         \A t \in R : k2.tcb[t].priority = k.tcb[t].priority
  PROVE  KInv(k2, R)
<1>1. R \subseteq Task
  BY DEF KInv, ReadyOK
<1>2. \A p \in TPri : AtPri(k2, R, p) = AtPri(k, R, p)
  BY <1>1 DEF AtPri
<1>3. \A t \in Task : k2.tcb[t].priority \in TPri
  BY TcbType
<1>4. ReadyOK(k2, R)
  BY <1>1, <1>2, <1>3 DEF KInv, ReadyOK, SameSched
<1>5. SchedOK(k2, R)
  BY <1>1 DEF KInv, SchedOK, IsFirst, SameSched
<1> QED BY <1>4, <1>5 DEF KInv

(* A change of what the queues do not depend on.                           *)
Quiet(k, V, R, X, k2, X2) ==
  /\ k2 \in SSet(V) /\ SameSched(k, k2) /\ k2.wait_queue = k.wait_queue
  /\ \A t \in R : k2.tcb[t].priority = k.tcb[t].priority
  /\ \A w \in WaitQueue : Waiters(k2, X2, w) = Waiters(k, X, w)
  /\ \A w \in WaitQueue : \A t \in Waiters(k, X, w) :
       k2.tcb[t].priority = k.tcb[t].priority
  /\ \A t \in Task \ X2 : WobjOK(k2.tcb[t])
  /\ \A t \in k2.tmevtb : TSTAT_WAITING(k2.tcb[t].tstat)
  /\ k2.asserted = TRUE

LEMMA QuietChange ==
  ASSUME NEW V, NEW k, NEW R, NEW X, QueuesOK(k, V, R, X), NEW k2, NEW X2,
         Quiet(k, V, R, X, k2, X2)
  PROVE  QueuesOK(k2, V, R, X2)
<1>1. KInv(k2, R)
  BY SameReady DEF QueuesOK, Quiet
<1>2. \A w \in WaitQueue : WaitQueueOK(TPRI, k2, w, k2.wait_queue[w], Waiters(k2, X2, w))
  <2>1. TAKE w \in WaitQueue
  <2>2. WaitQueueOK(TPRI, k, w, k.wait_queue[w], Waiters(k, X, w))
    BY DEF QueuesOK
  <2>3. WaitQueueOK(TPRI, k2, w, k.wait_queue[w], Waiters(k, X, w))
    BY <2>2, WaitQueueSame DEF Quiet
  <2> QED BY <2>3 DEF Quiet
<1> QED BY <1>1, <1>2 DEF QueuesOK, SameSched, Quiet

(* A task control block is replaced by one with the same meaning for the   *)
(* queues, or that of a task in transit by any other.                      *)
LEMMA PutQuiet ==
  ASSUME NEW V, NEW k, NEW X, Tidy(k, V, X), NEW t \in Task, NEW r \in TCB(V),
         \/ t \in X
         \/ /\ r.priority = k.tcb[t].priority
            /\ TSTAT_RUNNABLE(r.tstat) <=> TSTAT_RUNNABLE(k.tcb[t].tstat)
            /\ \A w \in WaitQueue : Waits(r, w) <=> Waits(k.tcb[t], w)
            /\ WobjOK(r),
         t \in k.tmevtb => TSTAT_WAITING(r.tstat)
  PROVE  Tidy(Put(k, t, r), V, X)
<1> DEFINE k2 == Put(k, t, r)
<1>1. /\ k2 \in SSet(V) /\ SameSched(k, k2) /\ k2.wait_queue = k.wait_queue
      /\ k2.tmevtb = k.tmevtb /\ k2.asserted = k.asserted
      /\ k2.tcb[t] = r
      /\ \A u \in Task \ {t} : k2.tcb[u] = k.tcb[u]
  BY PutOK DEF Tidy, QueuesOK, OthersSame
<1> HIDE DEF k2
<1>2. \A u \in Task \ X :
        /\ k2.tcb[u].priority = k.tcb[u].priority
        /\ TSTAT_RUNNABLE(k2.tcb[u].tstat) <=> TSTAT_RUNNABLE(k.tcb[u].tstat)
        /\ \A w \in WaitQueue : Waits(k2.tcb[u], w) <=> Waits(k.tcb[u], w)
        /\ WobjOK(k2.tcb[u])
  BY <1>1 DEF Tidy, QueuesOK
<1>3. Queued(k2, X) = Queued(k, X)
  BY <1>2 DEF Queued
<1>4. \A w \in WaitQueue : Waiters(k2, X, w) = Waiters(k, X, w)
  BY <1>2 DEF Waiters
<1>5. \A u \in k2.tmevtb : TSTAT_WAITING(k2.tcb[u].tstat)
  BY <1>1 DEF Tidy, QueuesOK, SSet
<1>6. QueuesOK(k2, V, Queued(k, X), X)
  <2>1. \A u \in Queued(k, X) : k2.tcb[u].priority = k.tcb[u].priority
    BY <1>2 DEF Queued
  <2>2. \A w \in WaitQueue : \A u \in Waiters(k, X, w) :
           k2.tcb[u].priority = k.tcb[u].priority
    BY <1>2 DEF Waiters
  <2>3. k2.asserted = TRUE
    BY <1>1 DEF Tidy, QueuesOK
  <2>4. \A u \in Task \ X : WobjOK(k2.tcb[u])
    BY <1>2
  <2>5. Quiet(k, V, Queued(k, X), X, k2, X)
    BY <1>1, <1>4, <1>5, <2>1, <2>2, <2>3, <2>4 DEF Quiet
  <2> QED BY <2>5, QuietChange DEF Tidy
<1> QED BY <1>3, <1>6 DEF Tidy, k2

(* A task in transit enters the ready queue.                               *)
LEMMA EntersReady ==
  ASSUME NEW V, NEW k, NEW X, Tidy(k, V, X), NEW t \in X, t \in Task,
         TSTAT_RUNNABLE(k.tcb[t].tstat)
  PROVE  Tidy(make_runnable(k, t), V, X \ {t}) /\ make_runnable(k, t).tcb = k.tcb
<1> DEFINE c  == Core(k)
           c2 == make_runnable(c, t)
           k2 == make_runnable(k, t)
           R  == Queued(k, X)
<1>1. k \in SSet(V) /\ KInv(k, R) /\ t \notin R
  BY DEF Tidy, QueuesOK, Queued
<1>2. c \in KSet(TCB(V)) /\ KInv(c, R)
  BY <1>1, CoreOK
<1>3. /\ c.tcb = k.tcb /\ c.tmevtb = k.tmevtb /\ c.asserted = k.asserted
      /\ c.dspflg = k.dspflg /\ c.p_schedtsk = k.p_schedtsk
  BY DEF Core
<1>4. k2 = With(k, c2)
  BY <1>1, OnCore
<1> HIDE DEF R, c, k2
<1>5. c2 \in KSet(TCB(V)) /\ KInv(c2, R \cup {t}) /\ Same(c, c2)
  BY <1>1, <1>2, MakeRunnable
<1> HIDE DEF c2
<1>6. /\ k2 \in SSet(V)
      /\ k2.tcb = k.tcb /\ k2.tmevtb = k.tmevtb /\ k2.asserted = k.asserted
      /\ k2.wait_queue = k.wait_queue /\ k2.dspflg = k.dspflg
      /\ KInv(k2, R \cup {t})
  BY <1>1, <1>3, <1>4, <1>5, WithOK DEF Same
<1>7. k.tcb[t].tstat \in States
  BY <1>1, TcbType
<1>8. Queued(k2, X \ {t}) = R \cup {t}
  BY <1>6 DEF Queued, R
<1>9. ~TSTAT_WAITING(k.tcb[t].tstat)
  BY <1>7, Flags
<1>10. \A w \in WaitQueue : Waiters(k2, X \ {t}, w) = Waiters(k, X, w)
  BY <1>6, <1>9 DEF Waiters, Waits
<1>11. \A w \in WaitQueue : WaitQueueOK(TPRI, k2, w, k2.wait_queue[w], Waiters(k2, X \ {t}, w))
  <2>1. TAKE w \in WaitQueue
  <2>2. WaitQueueOK(TPRI, k, w, k.wait_queue[w], Waiters(k, X, w))
    BY DEF Tidy, QueuesOK
  <2>3. WaitQueueOK(TPRI, k2, w, k.wait_queue[w], Waiters(k, X, w))
    BY <1>6, <2>2, WaitQueueSame
  <2> QED BY <1>6, <1>10, <2>3
<1>12. \A u \in Task \ (X \ {t}) : WobjOK(k2.tcb[u])
  BY <1>6, <1>9 DEF Tidy, QueuesOK, WobjOK
<1>13. \A u \in k2.tmevtb : TSTAT_WAITING(k2.tcb[u].tstat)
  BY <1>6 DEF Tidy, QueuesOK
<1>14. k2.asserted = TRUE /\ k2.dspflg = TRUE
  BY <1>6 DEF Tidy, QueuesOK
<1> QED BY <1>6, <1>8, <1>11, <1>12, <1>13, <1>14 DEF Tidy, QueuesOK, k2

(* A task leaves the ready queue.                                          *)
LEMMA LeavesReady ==
  ASSUME NEW V, NEW k, NEW R, NEW X, QueuesOK(k, V, R, X), NEW t \in R
  PROVE  LET k2 == make_non_runnable(k, t)
         IN  QueuesOK(k2, V, R \ {t}, X) /\ k2.tcb = k.tcb /\ k2.tmevtb = k.tmevtb
<1> DEFINE c  == Core(k)
           c2 == make_non_runnable(c, t)
           k2 == make_non_runnable(k, t)
<1>1. k \in SSet(V) /\ KInv(k, R) /\ t \in Task /\ k.dspflg = TRUE
  BY DEF QueuesOK, KInv, ReadyOK
<1>2. c \in KSet(TCB(V)) /\ KInv(c, R)
  BY <1>1, CoreOK
<1>3. /\ c.tcb = k.tcb /\ c.tmevtb = k.tmevtb /\ c.asserted = k.asserted
      /\ c.dspflg = k.dspflg /\ c.p_schedtsk = k.p_schedtsk
  BY DEF Core
<1>4. k2 = With(k, c2)
  BY <1>1, OnCore
<1> HIDE DEF c, k2
<1>5. c2 \in KSet(TCB(V)) /\ KInv(c2, R \ {t}) /\ Same(c, c2)
  BY <1>1, <1>2, <1>3, MakeNonRunnable
<1> HIDE DEF c2
<1>6. /\ k2 \in SSet(V)
      /\ k2.tcb = k.tcb /\ k2.tmevtb = k.tmevtb /\ k2.asserted = k.asserted
      /\ k2.wait_queue = k.wait_queue /\ k2.dspflg = k.dspflg
      /\ KInv(k2, R \ {t})
  BY <1>1, <1>3, <1>4, <1>5, WithOK DEF Same
<1>7. \A w \in WaitQueue : Waiters(k2, X, w) = Waiters(k, X, w)
  BY <1>6 DEF Waiters
<1>8. \A w \in WaitQueue : WaitQueueOK(TPRI, k2, w, k2.wait_queue[w], Waiters(k2, X, w))
  <2>1. TAKE w \in WaitQueue
  <2>2. WaitQueueOK(TPRI, k, w, k.wait_queue[w], Waiters(k, X, w))
    BY DEF QueuesOK
  <2>3. WaitQueueOK(TPRI, k2, w, k.wait_queue[w], Waiters(k, X, w))
    BY <1>6, <2>2, WaitQueueSame
  <2> QED BY <1>6, <1>7, <2>3
<1> QED BY <1>6, <1>8 DEF QueuesOK, k2

(* Tasks leave a wait queue for transit.                                   *)
LEMMA LeaveQueue ==
  ASSUME NEW V, NEW k, Tidy(k, V, {}), NEW w \in WaitQueue,
         NEW S, S \subseteq Waiters(k, {}, w),
         NEW q, WaitQueueOK(TPRI, k, w, q, Waiters(k, {}, w) \ S)
  PROVE  LET k2 == PutQueue(k, w, q)
         IN  Tidy(k2, V, S) /\ k2.tcb = k.tcb /\ k2.tmevtb = k.tmevtb
<1> DEFINE k2 == PutQueue(k, w, q)
           X  == {}
           X2 == S
<1>1. q \in Seq(Task)
  <2>1. QueueOf(q, Waiters(k, X, w) \ S)
    BY DEF WaitQueueOK
  <2>2. Waiters(k, X, w) \ S \subseteq Task
    BY DEF Waiters
  <2> QED BY <2>1, <2>2, QueueIn
<1>2. /\ k2 \in SSet(V) /\ SameSched(k, k2) /\ k2.tcb = k.tcb
      /\ k2.tmevtb = k.tmevtb
      /\ k2.asserted = k.asserted /\ k2.wait_queue[w] = q
      /\ \A n \in WaitQueue \ {w} : k2.wait_queue[n] = k.wait_queue[n]
  BY <1>1, PutQueueOK DEF Tidy, QueuesOK
<1> HIDE DEF k2
<1>3. \A u \in S : u \in Task /\ Waits(k.tcb[u], w) /\ ~TSTAT_RUNNABLE(k.tcb[u].tstat)
  <2>1. TAKE u \in S
  <2>2. u \in Task /\ Waits(k.tcb[u], w)
    BY DEF Waiters
  <2>3. k.tcb[u].tstat \in States
    BY <2>2, TcbType DEF Tidy, QueuesOK
  <2> QED BY <2>2, <2>3, Flags DEF Waits
<1>4. Queued(k2, X2) = Queued(k, X)
  BY <1>2, <1>3 DEF Queued
<1>5. KInv(k2, Queued(k, X))
  BY <1>2, SameReady DEF Tidy, QueuesOK
<1>6. Waiters(k2, X2, w) = Waiters(k, X, w) \ S
  BY <1>2 DEF Waiters
<1>7. \A n \in WaitQueue \ {w} : Waiters(k2, X2, n) = Waiters(k, X, n)
  BY <1>2, <1>3 DEF Waiters, Waits
<1>8. \A n \in WaitQueue : WaitQueueOK(TPRI, k2, n, k2.wait_queue[n], Waiters(k2, X2, n))
  <2>1. WaitQueueOK(TPRI, k2, w, q, Waiters(k, X, w) \ S)
    BY <1>2, WaitQueueSame
  <2>2. ASSUME NEW n \in WaitQueue \ {w}
        PROVE  WaitQueueOK(TPRI, k2, n, k.wait_queue[n], Waiters(k, X, n))
    <3>1. WaitQueueOK(TPRI, k, n, k.wait_queue[n], Waiters(k, X, n))
      BY DEF Tidy, QueuesOK
    <3> QED BY <1>2, <3>1, WaitQueueSame
  <2> QED BY <1>2, <1>6, <1>7, <2>1, <2>2
<1>9. /\ \A u \in Task \ X2 : WobjOK(k2.tcb[u])
      /\ \A u \in k2.tmevtb : TSTAT_WAITING(k2.tcb[u].tstat)
      /\ k2.asserted = TRUE /\ k2.dspflg = TRUE
  BY <1>2 DEF Tidy, QueuesOK, SameSched
<1> QED BY <1>2, <1>4, <1>5, <1>8, <1>9 DEF Tidy, QueuesOK, k2

(* A task in transit that waits enters its queue.                          *)
LEMMA EntersQueue ==
  ASSUME NEW V, NEW k, NEW X, Tidy(k, V, X), NEW w \in WaitQueue, NEW t \in X, t \in Task,
         Waits(k.tcb[t], w), WobjOK(k.tcb[t]), NEW q,
         WaitQueueOK(TPRI, k, w, q, Waiters(k, X, w) \cup {t})
  PROVE  LET k2 == PutQueue(k, w, q)
         IN  /\ Tidy(k2, V, X \ {t})
             /\ k2.tcb = k.tcb
<1> DEFINE k2 == PutQueue(k, w, q)
           X2 == X \ {t}
<1>1. q \in Seq(Task)
  <2>1. QueueOf(q, Waiters(k, X, w) \cup {t})
    BY DEF WaitQueueOK
  <2>2. Waiters(k, X, w) \cup {t} \subseteq Task
    BY DEF Waiters
  <2> QED BY <2>1, <2>2, QueueIn
<1>2. /\ k2 \in SSet(V) /\ SameSched(k, k2) /\ k2.tcb = k.tcb
      /\ k2.tmevtb = k.tmevtb
      /\ k2.asserted = k.asserted /\ k2.wait_queue[w] = q
      /\ \A n \in WaitQueue \ {w} : k2.wait_queue[n] = k.wait_queue[n]
  BY <1>1, PutQueueOK DEF Tidy, QueuesOK
<1> HIDE DEF k2
<1>3. ~TSTAT_RUNNABLE(k.tcb[t].tstat)
  <2>1. k.tcb[t].tstat \in States
    BY TcbType DEF Tidy, QueuesOK
  <2> QED BY <2>1, Flags DEF Waits
<1>4. Queued(k2, X2) = Queued(k, X)
  BY <1>2, <1>3 DEF Queued
<1>5. KInv(k2, Queued(k, X))
  BY <1>2, SameReady DEF Tidy, QueuesOK
<1>6. Waiters(k2, X2, w) = Waiters(k, X, w) \cup {t}
  BY <1>2 DEF Waiters
<1>7. \A n \in WaitQueue \ {w} : Waiters(k2, X2, n) = Waiters(k, X, n)
  BY <1>2 DEF Waiters, Waits
<1>8. \A n \in WaitQueue : WaitQueueOK(TPRI, k2, n, k2.wait_queue[n], Waiters(k2, X2, n))
  <2>1. WaitQueueOK(TPRI, k2, w, q, Waiters(k, X, w) \cup {t})
    BY <1>2, WaitQueueSame
  <2>2. ASSUME NEW n \in WaitQueue \ {w}
        PROVE  WaitQueueOK(TPRI, k2, n, k.wait_queue[n], Waiters(k, X, n))
    <3>1. WaitQueueOK(TPRI, k, n, k.wait_queue[n], Waiters(k, X, n))
      BY DEF Tidy, QueuesOK
    <3> QED BY <1>2, <3>1, WaitQueueSame
  <2> QED BY <1>2, <1>6, <1>7, <2>1, <2>2
<1>9. /\ \A u \in Task \ X2 : WobjOK(k2.tcb[u])
      /\ \A u \in k2.tmevtb : TSTAT_WAITING(k2.tcb[u].tstat)
      /\ k2.asserted = TRUE /\ k2.dspflg = TRUE
  BY <1>2 DEF Tidy, QueuesOK, SameSched
<1> QED BY <1>2, <1>4, <1>5, <1>8, <1>9 DEF Tidy, QueuesOK, k2

--------------------------------------------------------------------------
(* Waits end.                                                              *)
Woken(r) == [r EXCEPT !.tstat = TS_RUNNABLE]

LEMMA WokenOK ==
  ASSUME NEW V, NEW r \in TCB(V)
  PROVE  /\ Woken(r) \in TCB(V)
         /\ Woken(r).tstat = TS_RUNNABLE
         /\ Woken(r).priority = r.priority
         /\ Woken(r).winfo = r.winfo
         /\ \A w : ~Waits(Woken(r), w)
         /\ WobjOK(Woken(r))
<1>1. TS_RUNNABLE \in States
  BY Flags
<1>2. /\ Woken(r) \in TCB(V)
      /\ Woken(r).tstat = TS_RUNNABLE
      /\ Woken(r).priority = r.priority
      /\ Woken(r).winfo = r.winfo
  BY <1>1 DEF Woken, TCB
<1> QED BY <1>2, Flags DEF Waits, WobjOK

(* A task that waits leaves its queue.                                     *)
LEMMA DequeueWobj ==
  ASSUME NEW V, NEW k, Tidy(k, V, {}), NEW t \in Task, TSTAT_WAITING(k.tcb[t].tstat)
  PROVE  LET k2 == wait_dequeue_wobj(k, t)
         IN  /\ Tidy(k2, V, {t}) /\ k2.tcb = k.tcb /\ k2.tmevtb = k.tmevtb
<1> DEFINE w == k.tcb[t].wobj
           q == RemoveFirst(k.wait_queue[w], t)
           S == {t}
           N == {}
<1>1. TSTAT_WAIT_WOBJ(k.tcb[t].tstat)
  <2>1. k.tcb[t].tstat \in States
    BY TcbType DEF Tidy, QueuesOK
  <2> QED BY <2>1, Flags
<1>2. wait_dequeue_wobj(k, t) = PutQueue(k, w, q)
  BY <1>1 DEF wait_dequeue_wobj, PutQueue
<1>3. w \in WaitQueue /\ t \in Waiters(k, N, w)
  BY DEF Tidy, QueuesOK, WobjOK, Waiters, Waits
<1>4. WaitQueueOK(TPRI, k, w, k.wait_queue[w], Waiters(k, N, w))
  BY <1>3 DEF Tidy, QueuesOK
<1> HIDE DEF w
<1>5. WaitQueueOK(TPRI, k, w, q, Waiters(k, N, w) \ S)
  BY <1>3, <1>4, WaitQueueRemove
<1>6. S \subseteq Waiters(k, N, w)
  BY <1>3
<1> HIDE DEF q, S
<1>7. LET k2 == PutQueue(k, w, q)
      IN  Tidy(k2, V, S) /\ k2.tcb = k.tcb /\ k2.tmevtb = k.tmevtb
  BY <1>3, <1>5, <1>6, LeaveQueue
<1> QED BY <1>2, <1>7 DEF S

(* The time event of a wait is unregistered.                               *)
LEMMA DequeueTmevtb ==
  ASSUME NEW V, NEW k, NEW X, Tidy(k, V, X), NEW t
  PROVE  LET k2 == wait_dequeue_tmevtb(k, t)
         IN  Tidy(k2, V, X) /\ k2.tcb = k.tcb /\ k2.tmevtb = k.tmevtb \ {t}
<1> DEFINE k2 == wait_dequeue_tmevtb(k, t)
<1>1. /\ k2 \in SSet(V) /\ SameSched(k, k2) /\ k2.tcb = k.tcb
      /\ k2.wait_queue = k.wait_queue
      /\ k2.tmevtb = k.tmevtb \ {t} /\ k2.asserted = k.asserted
  BY DEF wait_dequeue_tmevtb, Tidy, QueuesOK, SSet, SameSched
<1> HIDE DEF k2
<1>2. Queued(k2, X) = Queued(k, X)
  BY <1>1 DEF Queued
<1>3. Quiet(k, V, Queued(k, X), X, k2, X)
  BY <1>1 DEF Quiet, Tidy, QueuesOK, Waiters
<1>4. QueuesOK(k2, V, Queued(k, X), X)
  BY <1>3, QuietChange DEF Tidy
<1> QED BY <1>1, <1>2, <1>4 DEF Tidy, k2

LEMMA CodeStored ==
  ASSUME NEW V, NEW k, NEW X, Tidy(k, V, X), NEW t, t \notin k.tmevtb
  PROVE  set_wercd(k, t) = k
<1>1. k.asserted = TRUE /\ k \in SSet(V)
  BY DEF Tidy, QueuesOK
<1>2. (k.asserted /\ t \notin k.tmevtb) = k.asserted
  BY <1>1
<1> QED BY <1>1, <1>2 DEF set_wercd, SSet

(* The flag word is set.                                                   *)
LEMMA SetTstat ==
  ASSUME NEW V, NEW k \in SSet(V), NEW t \in Task, NEW s \in States
  PROVE  LET r == [k.tcb[t] EXCEPT !.tstat = s]
         IN  /\ set_tstat(k, t, s) = Put(k, t, r)
             /\ r \in TCB(V) /\ r.tstat = s
             /\ r.priority = k.tcb[t].priority
<1>1. k.tcb[t] \in TCB(V)
  BY TcbType
<1>2. LET r == [k.tcb[t] EXCEPT !.tstat = s]
      IN  r \in TCB(V) /\ r.tstat = s /\ r.priority = k.tcb[t].priority
  BY <1>1 DEF TCB
<1>3. set_tstat(k, t, s) = Put(k, t, [k.tcb[t] EXCEPT !.tstat = s])
  BY DEF set_tstat, Put, SSet
<1> QED BY <1>2, <1>3

(* make_non_wait(), for a task in transit with no time event.              *)
LEMMA WakesUp ==
  ASSUME NEW V, NEW k, NEW X, Tidy(k, V, X), NEW t \in X, t \in Task,
         TSTAT_WAITING(k.tcb[t].tstat), t \notin k.tmevtb
  PROVE  LET k2 == make_non_wait(k, t)
         IN  /\ Tidy(k2, V, X \ {t})
             /\ OthersSame(k, k2, t) /\ k2.tcb[t] = Woken(k.tcb[t])
<1> DEFINE k2 == make_non_wait(k, t)
           k1 == [k EXCEPT !.asserted = @ /\ TSTAT_WAITING(k.tcb[t].tstat)]
           r  == Woken(k.tcb[t])
           k3 == Put(k, t, r)
<1>1. k \in SSet(V) /\ k.asserted = TRUE /\ k.tcb[t].tstat \in States /\ k.tcb[t] \in TCB(V)
  BY TcbType DEF Tidy, QueuesOK
<1>2. k1 = k
  <2>1. (k.asserted /\ TSTAT_WAITING(k.tcb[t].tstat)) = k.asserted
    BY <1>1
  <2> QED BY <1>1, <2>1 DEF SSet
<1>3. ~TSTAT_SUSPENDED(k.tcb[t].tstat)
  BY <1>1, Flags
<1>4. k2 = make_runnable(set_tstat(k1, t, TS_RUNNABLE), t)
  BY <1>3 DEF make_non_wait
<1>5. set_tstat(k, t, TS_RUNNABLE) = k3
  BY <1>1, SetTstat, Flags DEF Woken
<1> HIDE DEF k1, k2
<1>6. r \in TCB(V) /\ r.tstat = TS_RUNNABLE
  BY <1>1, WokenOK
<1>7. OthersSame(k, k3, t) /\ k3.tcb[t] = r
  BY <1>1, <1>6, PutOK
<1> HIDE DEF r
<1>8. Tidy(k3, V, X)
  BY <1>6, PutQuiet
<1> HIDE DEF k3
<1>9. TSTAT_RUNNABLE(k3.tcb[t].tstat)
  BY <1>6, <1>7, Flags
<1>10. k2 = make_runnable(k3, t)
  BY <1>2, <1>4, <1>5
<1>11. Tidy(k2, V, X \ {t}) /\ k2.tcb = k3.tcb
  BY <1>8, <1>9, <1>10, EntersReady
<1> QED BY <1>7, <1>11 DEF OthersSame, k2, r

(* wait_complete(), for a task that has left the wait queue.               *)
LEMMA WaitCompleted ==
  ASSUME NEW V, NEW k, NEW X, Tidy(k, V, X), NEW t \in X, t \in Task,
         TSTAT_WAITING(k.tcb[t].tstat)
  PROVE  LET k2 == wait_complete(k, t)
         IN  /\ Tidy(k2, V, X \ {t})
             /\ OthersSame(k, k2, t) /\ k2.tcb[t] = Woken(k.tcb[t])
<1> DEFINE k1 == wait_dequeue_tmevtb(k, t)
<1>1. Tidy(k1, V, X) /\ k1.tcb = k.tcb /\ k1.tmevtb = k.tmevtb \ {t}
  BY DequeueTmevtb
<1>2. wait_complete(k, t) = make_non_wait(k1, t)
  <2> HIDE DEF k1
  <2>1. set_wercd(k1, t) = k1
    BY <1>1, CodeStored
  <2> QED BY <2>1 DEF wait_complete, k1
<1> HIDE DEF k1
<1>3. LET k2 == make_non_wait(k1, t)
      IN  /\ Tidy(k2, V, X \ {t})
          /\ OthersSame(k1, k2, t) /\ k2.tcb[t] = Woken(k1.tcb[t])
  BY <1>1, WakesUp
<1> QED BY <1>1, <1>2, <1>3 DEF OthersSame

--------------------------------------------------------------------------
(* Waits begin.  A task that can run is taken out of the ready queue; its  *)
(* flag word is set before.                                                *)
LEMMA StopsRunning ==
  ASSUME NEW V, NEW k, Tidy(k, V, {}), NEW t \in Task, TSTAT_RUNNABLE(k.tcb[t].tstat),
         NEW s \in States, ~TSTAT_RUNNABLE(s)
  PROVE  LET k2 == make_non_runnable(set_tstat(k, t, s), t)
         IN  /\ Tidy(k2, V, {t}) /\ k2.tmevtb = k.tmevtb
             /\ OthersSame(k, k2, t)
             /\ k2.tcb[t] = [k.tcb[t] EXCEPT !.tstat = s]
<1> DEFINE r  == [k.tcb[t] EXCEPT !.tstat = s]
           k1 == set_tstat(k, t, s)
           k2 == make_non_runnable(k1, t)
           R  == Queued(k, {})
<1>0. k \in SSet(V)
  BY DEF Tidy, QueuesOK
<1>1. /\ k1 = Put(k, t, r) /\ r \in TCB(V)
      /\ r.tstat = s /\ r.priority = k.tcb[t].priority
  BY <1>0, SetTstat
<1> HIDE DEF r, k1
<1>2. /\ k1 \in SSet(V) /\ SameSched(k, k1) /\ k1.wait_queue = k.wait_queue
      /\ k1.tmevtb = k.tmevtb /\ k1.asserted = k.asserted
      /\ k1.tcb[t] = r /\ OthersSame(k, k1, t)
  BY <1>0, <1>1, PutOK
<1>3. ~TSTAT_WAITING(k.tcb[t].tstat)
  BY <1>0, TcbType, Flags
<1>4. t \notin k.tmevtb
  BY <1>3 DEF Tidy, QueuesOK
<1>5. Quiet(k, V, R, {}, k1, {t})
  <2>1. \A u \in Task : k1.tcb[u].priority = k.tcb[u].priority
    BY <1>1, <1>2 DEF OthersSame
  <2>2. \A w \in WaitQueue : Waiters(k1, {t}, w) = Waiters(k, {}, w)
    BY <1>2, <1>3 DEF Waiters, OthersSame, Waits
  <2>3. R \subseteq Task /\ \A w \in WaitQueue : Waiters(k, {}, w) \subseteq Task
    BY DEF Queued, Waiters
  <2>4. \A u \in Task \ {t} : WobjOK(k1.tcb[u])
    BY <1>2 DEF Tidy, QueuesOK, OthersSame
  <2>5. \A u \in k1.tmevtb : TSTAT_WAITING(k1.tcb[u].tstat)
    BY <1>0, <1>2, <1>4 DEF Tidy, QueuesOK, OthersSame, SSet
  <2>6. k1.asserted = TRUE /\ k1.wait_queue = k.wait_queue
    BY <1>2 DEF Tidy, QueuesOK
  <2> HIDE DEF R
  <2> QED BY <1>2, <2>1, <2>2, <2>3, <2>4, <2>5, <2>6 DEF Quiet
<1>6. t \in R
  BY DEF Queued
<1> HIDE DEF R
<1>7. QueuesOK(k1, V, R, {t})
  BY <1>5, QuietChange DEF Tidy, R
<1>8. /\ QueuesOK(k2, V, R \ {t}, {t})
      /\ k2.tcb = k1.tcb /\ k2.tmevtb = k1.tmevtb
  BY <1>6, <1>7, LeavesReady
<1> HIDE DEF k2
<1>9. Queued(k2, {t}) = R \ {t}
  BY <1>2, <1>8 DEF Queued, R, OthersSame
<1>10. Tidy(k2, V, {t})
  BY <1>8, <1>9 DEF Tidy
<1>11. /\ k2.tmevtb = k.tmevtb /\ OthersSame(k, k2, t) /\ k2.tcb[t] = r
  BY <1>2, <1>8 DEF OthersSame
<1> QED BY <1>10, <1>11 DEF k2, k1, r

(* make_wait_tmout(): the task is still to enter its wait queue.           *)
LEMMA StartsWait ==
  ASSUME NEW V, NEW k, Tidy(k, V, {}), NEW t \in Task, TSTAT_RUNNABLE(k.tcb[t].tstat),
         NEW s \in States, TSTAT_WAITING(s), NEW timed \in BOOLEAN
  PROVE  LET k2 == make_wait_tmout(k, t, s, timed)
         IN  /\ Tidy(k2, V, {t})
             /\ OthersSame(k, k2, t)
             /\ k2.tcb[t] = [k.tcb[t] EXCEPT !.tstat = s]
<1> DEFINE r  == [k.tcb[t] EXCEPT !.tstat = s]
           k1 == make_non_runnable(set_tstat(k, t, s), t)
           k2 == make_wait_tmout(k, t, s, timed)
<1>1. /\ Tidy(k1, V, {t}) /\ k1.tmevtb = k.tmevtb
      /\ OthersSame(k, k1, t) /\ k1.tcb[t] = r
  BY StopsRunning, Flags
<1>2. r.tstat = s
  <2>1. k.tcb[t] \in TCB(V)
    BY TcbType DEF Tidy, QueuesOK
  <2> QED BY <2>1 DEF TCB
<1>3. k2 = IF timed THEN [k1 EXCEPT !.tmevtb = @ \cup {t}] ELSE k1
  BY DEF make_wait_tmout
<1> HIDE DEF k1, k2, r
<1>4. CASE timed
  <2>1. /\ k2 \in SSet(V) /\ SameSched(k1, k2) /\ k2.wait_queue = k1.wait_queue
        /\ k2.tcb = k1.tcb
        /\ k2.tmevtb = k1.tmevtb \cup {t} /\ k2.asserted = k1.asserted
    BY <1>1, <1>3, <1>4 DEF Tidy, QueuesOK, SSet, SameSched
  <2>2. Queued(k2, {t}) = Queued(k1, {t})
    BY <2>1 DEF Queued
  <2>3. Quiet(k1, V, Queued(k1, {t}), {t}, k2, {t})
    BY <1>1, <1>2, <2>1 DEF Quiet, Tidy, QueuesOK, Waiters
  <2>4. QueuesOK(k2, V, Queued(k1, {t}), {t})
    BY <1>1, <2>3, QuietChange DEF Tidy
  <2>5. Tidy(k2, V, {t})
    BY <2>2, <2>4 DEF Tidy
  <2> QED BY <1>1, <2>1, <2>5 DEF OthersSame, k2, r
<1>5. CASE ~timed
  BY <1>1, <1>3, <1>5 DEF k2, r
<1> QED BY <1>4, <1>5

(* wobj_wait(): a task enters the queue w.                                 *)
Waited(k, t, w, s, info, timed) ==
  [wobj_make_wait_tmout(k, w, t, s, timed) EXCEPT !.tcb[t].winfo = info]

WaitTCB(r, w, s, info) == [r EXCEPT !.tstat = s, !.wobj = w, !.winfo = info]

LEMMA WaitsForObject ==
  ASSUME NEW V, NEW k, Tidy(k, V, {}), NEW t \in Task, TSTAT_RUNNABLE(k.tcb[t].tstat),
         NEW s \in States, TSTAT_WAITING(s), NEW timed \in BOOLEAN,
         NEW w \in WaitQueue, w \in TPRI => TSTAT_WAIT_WOBJCB(s), NEW info \in V
  PROVE  LET k2 == Waited(k, t, w, s, info, timed)
         IN  /\ Tidy(k2, V, {})
             /\ OthersSame(k, k2, t) /\ k2.tcb[t] = WaitTCB(k.tcb[t], w, s, info)
<1> DEFINE k1 == make_wait_tmout(k, t, s, timed)
           k2 == Waited(k, t, w, s, info, timed)
           q0 == k1.wait_queue[w]
           q  == IF w \in TPRI THEN queue_insert_tpri(k1, q0, t) ELSE Append(q0, t)
           r  == WaitTCB(k.tcb[t], w, s, info)
           k3 == Put(k1, t, r)
           N  == {t} \ {t}
<1>1. Tidy(k1, V, {t}) /\ OthersSame(k, k1, t) /\ k1.tcb[t] = [k.tcb[t] EXCEPT !.tstat = s]
  BY StartsWait
<1>2. k2 = [[k1 EXCEPT !.wait_queue[w] = q, !.tcb[t].wobj = w] EXCEPT !.tcb[t].winfo = info]
  BY DEF wobj_make_wait_tmout, Waited
<1> HIDE DEF k1, k2, q
<1>3. k1 \in SSet(V) /\ k.tcb[t] \in TCB(V) /\ k1.tcb[t] \in TCB(V)
  BY <1>1, TcbType DEF Tidy, QueuesOK
<1>4. /\ r \in TCB(V) /\ r.priority = k1.tcb[t].priority
      /\ r.tstat = s /\ r.wobj = w
      /\ r = [[k1.tcb[t] EXCEPT !.wobj = w] EXCEPT !.winfo = info]
  BY <1>1, <1>3 DEF TCB, WaitTCB
<1>5. k2 = PutQueue(k3, w, q)
  <2> DEFINE f  == [k1.wait_queue EXCEPT ![w] = q]
             c1 == [k1.tcb EXCEPT ![t] = [k1.tcb[t] EXCEPT !.wobj = w]]
             k4 == [k1 EXCEPT !.wait_queue = f, !.tcb = c1]
             c2 == [c1 EXCEPT ![t] = [c1[t] EXCEPT !.winfo = info]]
  <2>1. k4 = [k1 EXCEPT !.wait_queue[w] = q, !.tcb[t].wobj = w]
    BY <1>3 DEF SSet
  <2>2. c2 = [k1.tcb EXCEPT ![t] = r]
    <3>1. c1[t] = [k1.tcb[t] EXCEPT !.wobj = w]
      BY <1>3 DEF SSet
    <3> HIDE DEF r
    <3> QED BY <1>3, <1>4, <3>1 DEF SSet
  <2> HIDE DEF f, c1, r
  <2>3. k4.tcb = c1
    BY <1>3 DEF SSet
  <2>4. k2 = [k4 EXCEPT !.tcb = c2]
    <3> HIDE DEF k4
    <3> QED BY <1>2, <2>1, <2>3
  <2> HIDE DEF c2
  <2>5. k2 = [k1 EXCEPT !.wait_queue = f, !.tcb = c2]
    BY <1>3, <2>4 DEF SSet
  <2>6. PutQueue(k3, w, q) = [k1 EXCEPT !.wait_queue = f, !.tcb = c2]
    <3>1. k3 = [k1 EXCEPT !.tcb = c2]
      BY <2>2 DEF Put
    <3>2. k3.wait_queue = k1.wait_queue
      BY <1>3, <3>1 DEF SSet
    <3>3. PutQueue(k3, w, q) = [k3 EXCEPT !.wait_queue = f]
      BY <3>2 DEF PutQueue, f
    <3> HIDE DEF k3
    <3> QED BY <1>3, <3>1, <3>3 DEF SSet
  <2> QED BY <2>5, <2>6
<1> HIDE DEF r
<1>6. Tidy(k3, V, {t})
  BY <1>1, <1>4, PutQuiet
<1>7. k3.tcb[t] = r /\ OthersSame(k1, k3, t)
  BY <1>3, <1>4, PutOK
<1> HIDE DEF k3
<1>8. WaitQueueOK(TPRI, k3, w, q, Waiters(k3, {t}, w) \cup {t})
  <2> DEFINE S == Waiters(k1, {t}, w)
  <2>1. WaitQueueOK(TPRI, k1, w, q0, S)
    BY <1>1 DEF Tidy, QueuesOK
  <2>2. t \notin S /\ S \subseteq Task
    BY DEF Waiters
  <2>3. S = Waiters(k3, {t}, w)
    BY <1>7 DEF Waiters, OthersSame
  <2> HIDE DEF S, q0
  <2>4. \A u \in S \cup {t} : k1.tcb[u].priority \in TPri
    BY <1>3, <2>2, TcbType
  <2>5. WaitQueueOK(TPRI, k1, w, q, S \cup {t})
    BY <2>1, <2>2, <2>4, WaitQueueInsert DEF q
  <2>6. \A u \in S \cup {t} : k3.tcb[u].priority = k1.tcb[u].priority
    BY <1>4, <1>7, <2>2 DEF OthersSame
  <2>7. WaitQueueOK(TPRI, k3, w, q, S \cup {t})
    BY <2>5, <2>6, WaitQueueSame
  <2> QED BY <2>3, <2>7
<1>9. Waits(k3.tcb[t], w) /\ WobjOK(k3.tcb[t])
  BY <1>4, <1>7 DEF Waits, WobjOK
<1>10. Tidy(k2, V, N) /\ k2.tcb = k3.tcb
  <2> DEFINE X == {t}
             p == PutQueue(k3, w, q)
  <2>1. t \in X /\ Tidy(k3, V, X) /\ N = X \ {t}
    BY <1>6
  <2>2. WaitQueueOK(TPRI, k3, w, q, Waiters(k3, X, w) \cup {t})
    BY <1>8
  <2> HIDE DEF N, X
  <2>3. Tidy(p, V, X \ {t}) /\ p.tcb = k3.tcb
    BY <1>9, <2>1, <2>2, EntersQueue
  <2> QED BY <1>5, <2>1, <2>3
<1>11. N = {}
  OBVIOUS
<1>12. OthersSame(k, k2, t) /\ k2.tcb[t] = r
  BY <1>1, <1>7, <1>10 DEF OthersSame
<1> HIDE DEF N
<1> QED BY <1>10, <1>11, <1>12 DEF k2, r

--------------------------------------------------------------------------
(* change_priority(), for a task in a ready queue, in a wait queue or in   *)
(* none.                                                                   *)
LEMMA ChangesPriority ==
  ASSUME NEW V, NEW k, Tidy(k, V, {}), NEW t \in Task,
         NEW newpri \in TPri, NEW mode \in BOOLEAN
  PROVE  LET k2 == change_priority(k, t, newpri, mode)
         IN  /\ Tidy(k2, V, {})
             /\ OthersSame(k, k2, t)
             /\ k2.tcb[t] = [k.tcb[t] EXCEPT !.priority = newpri]
<1> DEFINE X  == {}
           r  == [k.tcb[t] EXCEPT !.priority = newpri]
           k1 == Put(k, t, r)
           k2 == change_priority(k, t, newpri, mode)
           R  == Queued(k, X)
           old == k.tcb[t].priority
<1>0. k \in SSet(V) /\ Tidy(k, V, X) /\ t \notin X
  BY DEF Tidy, QueuesOK
<1> HIDE DEF X
<1>1. /\ r \in TCB(V)
      /\ r.priority = newpri /\ r.tstat = k.tcb[t].tstat /\ r.wobj = k.tcb[t].wobj
  <2>1. k.tcb[t] \in TCB(V)
    BY <1>0, TcbType
  <2> QED BY <2>1 DEF TCB
<1>2. k2 = IF TSTAT_RUNNABLE(k.tcb[t].tstat) THEN requeue(k1, t, old, newpri, mode)
           ELSE IF TSTAT_WAIT_WOBJCB(k.tcb[t].tstat)
                THEN wobj_change_priority(k1, k.tcb[t].wobj, t)
           ELSE k1
  <2>1. [k EXCEPT !.tcb[t].priority = newpri] = k1
    BY <1>0 DEF Put, SSet
  <2> HIDE DEF k1
  <2> QED BY <2>1 DEF change_priority
<1> HIDE DEF r, k1, k2
<1>3. /\ k1 \in SSet(V) /\ SameSched(k, k1) /\ k1.wait_queue = k.wait_queue
      /\ k1.tmevtb = k.tmevtb /\ k1.asserted = TRUE
      /\ k1.tcb[t] = r /\ OthersSame(k, k1, t)
  BY <1>0, <1>1, PutOK DEF k1, Tidy, QueuesOK
<1>4. /\ \A u \in Task : k1.tcb[u].tstat = k.tcb[u].tstat
      /\ \A u \in Task : k1.tcb[u].wobj = k.tcb[u].wobj
      /\ \A u \in Task \ {t} : k1.tcb[u].priority = k.tcb[u].priority
      /\ k1.tcb[t].priority = newpri
  BY <1>1, <1>3 DEF OthersSame
<1>5. \A u \in Task :
        /\ TSTAT_RUNNABLE(k1.tcb[u].tstat) <=> TSTAT_RUNNABLE(k.tcb[u].tstat)
        /\ TSTAT_WAITING(k1.tcb[u].tstat) <=> TSTAT_WAITING(k.tcb[u].tstat)
        /\ \A w \in WaitQueue : Waits(k1.tcb[u], w) <=> Waits(k.tcb[u], w)
        /\ WobjOK(k1.tcb[u]) <=> WobjOK(k.tcb[u])
  <2>1. TAKE u \in Task
  <2>2. k1.tcb[u].tstat = k.tcb[u].tstat /\ k1.tcb[u].wobj = k.tcb[u].wobj
    BY <1>4, Zenon
  <2> QED BY <2>2, Zenon DEF Waits, WobjOK
<1>6. Queued(k1, X) = R /\ R \subseteq Task
  BY <1>5 DEF Queued
<1>7. \A w \in WaitQueue : Waiters(k1, X, w) = Waiters(k, X, w)
  BY <1>5 DEF Waiters
<1>8. /\ \A u \in Task \ X : WobjOK(k1.tcb[u])
      /\ \A u \in k1.tmevtb : TSTAT_WAITING(k1.tcb[u].tstat)
  BY <1>0, <1>3, <1>5 DEF Tidy, QueuesOK, SSet
<1>9. \A w \in WaitQueue : t \notin Waiters(k, X, w) =>
        WaitQueueOK(TPRI, k1, w, k1.wait_queue[w], Waiters(k1, X, w))
  <2>1. SUFFICES ASSUME NEW w \in WaitQueue, t \notin Waiters(k, X, w)
                 PROVE  WaitQueueOK(TPRI, k1, w, k1.wait_queue[w], Waiters(k1, X, w))
    OBVIOUS
  <2>2. WaitQueueOK(TPRI, k, w, k.wait_queue[w], Waiters(k, X, w))
    BY <1>0 DEF Tidy, QueuesOK
  <2>3. \A u \in Waiters(k, X, w) : k1.tcb[u].priority = k.tcb[u].priority
    BY <1>4, <2>1 DEF Waiters
  <2>4. WaitQueueOK(TPRI, k1, w, k.wait_queue[w], Waiters(k, X, w))
    BY <2>2, <2>3, WaitQueueSame
  <2> QED BY <1>3, <1>7, <2>4
<1>10. KInv(k, R) /\ k1.dspflg = TRUE
  BY <1>0, <1>3 DEF Tidy, QueuesOK, SameSched
<1> HIDE DEF R
<1>11. CASE TSTAT_RUNNABLE(k.tcb[t].tstat)
  <2> DEFINE c  == Core(k)
             c1 == Core(k1)
             c2 == requeue(c1, t, old, newpri, mode)
  <2>1. k2 = With(k1, c2)
    BY <1>2, <1>3, <1>11, RequeueOnCore
  <2>2. c \in KSet(TCB(V)) /\ KInv(c, R) /\ c1 \in KSet(TCB(V))
    BY <1>0, <1>3, <1>10, CoreOK
  <2>3. /\ c.tcb = k.tcb /\ c1.tcb = k1.tcb
        /\ c1.ready_queue = c.ready_queue /\ c1.ready_primap = c.ready_primap
        /\ c1.p_schedtsk = c.p_schedtsk /\ c1.dspflg = c.dspflg
        /\ c1.dspflg = TRUE
        /\ c1.tmevtb = k.tmevtb /\ c1.asserted = TRUE
    BY <1>3, <1>10 DEF Core, SameSched
  <2>4. t \in R /\ old = c.tcb[t].priority
    BY <1>0, <1>11, <2>3 DEF R, Queued
  <2> HIDE DEF c, c1
  <2>5. \A u \in Task : c1.tcb[u].priority = IF u = t THEN newpri ELSE c.tcb[u].priority
    BY <1>4, <2>3
  <2>6. c2 \in KSet(TCB(V)) /\ KInv(c2, R) /\ Same(c1, c2)
    BY <2>2, <2>3, <2>4, <2>5, Requeue
  <2> HIDE DEF c2
  <2>7. /\ k2 \in SSet(V) /\ k2.dspflg = TRUE
        /\ k2.tcb = k1.tcb /\ k2.tmevtb = k.tmevtb /\ k2.asserted = TRUE
        /\ k2.wait_queue = k1.wait_queue
        /\ KInv(k2, R)
    BY <1>3, <2>1, <2>3, <2>6, WithOK DEF Same
  <2>8. Queued(k2, X) = R
    BY <1>6, <2>7 DEF Queued
  <2>9. \A w \in WaitQueue : t \notin Waiters(k, X, w)
    <3>1. k.tcb[t].tstat \in States
      BY <1>0, TcbType
    <3> QED BY <1>11, <3>1, Flags DEF Waiters, Waits
  <2>10. \A w \in WaitQueue : WaitQueueOK(TPRI, k2, w, k2.wait_queue[w], Waiters(k2, X, w))
    <3>1. TAKE w \in WaitQueue
    <3>2. WaitQueueOK(TPRI, k1, w, k1.wait_queue[w], Waiters(k1, X, w))
      BY <1>9, <2>9
    <3>3. Waiters(k2, X, w) = Waiters(k1, X, w)
      BY <2>7 DEF Waiters
    <3>4. \A u \in Waiters(k1, X, w) : k2.tcb[u].priority = k1.tcb[u].priority
      BY <2>7
    <3>5. WaitQueueOK(TPRI, k2, w, k1.wait_queue[w], Waiters(k1, X, w))
      BY <3>2, <3>4, WaitQueueSame
    <3> QED BY <2>7, <3>3, <3>5
  <2>11. Tidy(k2, V, X)
    BY <1>8, <1>3, <2>7, <2>8, <2>10 DEF Tidy, QueuesOK
  <2> QED BY <1>3, <2>7, <2>11 DEF OthersSame, k2, r, X
<1>12. CASE ~TSTAT_RUNNABLE(k.tcb[t].tstat)
  <2>1. KInv(k1, R)
    <3>1. \A u \in R : k1.tcb[u].priority = k.tcb[u].priority
      BY <1>4, <1>6, <1>12 DEF R, Queued
    <3> QED BY <1>0, <1>3, <1>10, <3>1, SameReady
  <2>2. CASE \E w \in WaitQueue : w \in TPRI /\ t \in Waiters(k, X, w)
    <3> DEFINE w  == k.tcb[t].wobj
               S  == Waiters(k, X, w)
               q0 == k.wait_queue[w]
               q1 == RemoveFirst(q0, t)
               q  == queue_insert_tpri(k1, q1, t)
    <3>1. w \in WaitQueue /\ w \in TPRI /\ t \in S
      BY <2>2 DEF Waiters, Waits
    <3>2. TSTAT_WAIT_WOBJCB(k.tcb[t].tstat)
      BY <1>0, <3>1 DEF Tidy, QueuesOK, WobjOK, Waiters, Waits
    <3>3. k2 = PutQueue(k1, w, q)
      <4>1. k2 = wobj_change_priority(k1, w, t)
        BY <1>2, <1>12, <3>2
      <4> HIDE DEF w
      <4> QED BY <1>3, <3>1, <4>1 DEF wobj_change_priority, PutQueue
    <3> HIDE DEF w, k2
    <3>4. WaitQueueOK(TPRI, k, w, q0, S)
      BY <1>0, <3>1 DEF Tidy, QueuesOK
    <3>5. S \subseteq Task
      BY DEF Waiters
    <3> HIDE DEF S, q0
    <3>6. WaitQueueOK(TPRI, k, w, q1, S \ {t})
      BY <3>1, <3>4, WaitQueueRemove
    <3>7. WaitQueueOK(TPRI, k1, w, q1, S \ {t})
      <4>1. \A u \in S \ {t} : k1.tcb[u].priority = k.tcb[u].priority
        BY <1>4, <3>5
      <4> HIDE DEF q1
      <4> QED BY <3>6, <4>1, WaitQueueSame
    <3>8. WaitQueueOK(TPRI, k1, w, q, S)
      <4> DEFINE S1 == S \ {t}
      <4>1. t \notin S1 /\ S1 \cup {t} = S
        BY <3>1
      <4>2. \A u \in S1 \cup {t} : k1.tcb[u].priority \in TPri
        BY <1>3, <3>5, TcbType
      <4> HIDE DEF q1, S1
      <4>3. WaitQueueOK(TPRI, k1, w, q1, S1)
        BY <3>7 DEF S1
      <4>4. WaitQueueOK(TPRI, k1, w, q, S1 \cup {t})
        BY <3>1, <4>1, <4>2, <4>3, WaitQueueInsert
      <4> QED BY <4>1, <4>4
    <3> HIDE DEF q
    <3>9. q \in Seq(Task)
      BY <3>5, <3>8, QueueIn DEF WaitQueueOK
    <3>10. /\ k2 \in SSet(V) /\ SameSched(k1, k2) /\ k2.tcb = k1.tcb
           /\ k2.tmevtb = k1.tmevtb
           /\ k2.asserted = k1.asserted /\ k2.wait_queue[w] = q
           /\ \A n \in WaitQueue \ {w} : k2.wait_queue[n] = k1.wait_queue[n]
      BY <1>3, <3>1, <3>3, <3>9, PutQueueOK
    <3>11. KInv(k2, R)
      BY <1>3, <2>1, <3>10, SameReady
    <3>12. Queued(k2, X) = R
      BY <1>6, <3>10 DEF Queued
    <3>13. \A n \in WaitQueue : Waiters(k2, X, n) = Waiters(k1, X, n)
      BY <3>10 DEF Waiters
    <3>14. ASSUME NEW n \in WaitQueue
           PROVE  WaitQueueOK(TPRI, k2, n, k2.wait_queue[n], Waiters(k2, X, n))
      <4>1. CASE n = w
        <5>1. WaitQueueOK(TPRI, k2, w, q, S)
          BY <3>8, <3>10, WaitQueueSame
        <5> QED BY <1>7, <3>10, <3>13, <4>1, <5>1 DEF S
      <4>2. CASE n # w
        <5>1. t \notin Waiters(k, X, n)
          BY <4>2 DEF Waiters, Waits, w
        <5>2. WaitQueueOK(TPRI, k1, n, k1.wait_queue[n], Waiters(k1, X, n))
          BY <1>9, <5>1
        <5>3. WaitQueueOK(TPRI, k2, n, k1.wait_queue[n], Waiters(k1, X, n))
          BY <3>10, <5>2, WaitQueueSame
        <5> QED BY <3>10, <3>13, <4>2, <5>3
      <4> QED BY <4>1, <4>2
    <3>15. Tidy(k2, V, X)
      BY <1>3, <1>8, <1>10, <3>10, <3>11, <3>12, <3>14 DEF Tidy, QueuesOK, SameSched
    <3> QED BY <1>3, <3>10, <3>15 DEF OthersSame, k2, r, X
  <2>3. CASE ~\E w \in WaitQueue : w \in TPRI /\ t \in Waiters(k, X, w)
    <3>1. k2 = k1
      <4>1. CASE TSTAT_WAIT_WOBJCB(k.tcb[t].tstat)
        <5>1. k.tcb[t].tstat \in States
          BY <1>0, TcbType
        <5>2. TSTAT_WAITING(k.tcb[t].tstat)
          BY <4>1, <5>1, Flags
        <5>3. k.tcb[t].wobj \in WaitQueue /\ t \in Waiters(k, X, k.tcb[t].wobj)
          BY <1>0, <5>2 DEF Tidy, QueuesOK, WobjOK, Waiters, Waits
        <5>4. k.tcb[t].wobj \notin TPRI
          BY <2>3, <5>3
        <5> QED BY <1>2, <1>12, <4>1, <5>4 DEF wobj_change_priority
      <4>2. CASE ~TSTAT_WAIT_WOBJCB(k.tcb[t].tstat)
        BY <1>2, <1>12, <4>2
      <4> QED BY <4>1, <4>2
    <3>2. \A w \in WaitQueue : WaitQueueOK(TPRI, k1, w, k1.wait_queue[w], Waiters(k1, X, w))
      <4>1. TAKE w \in WaitQueue
      <4>2. CASE w \in TPRI
        BY <1>9, <2>3, <4>2
      <4>3. CASE w \notin TPRI
        <5>1. WaitQueueOK(TPRI, k, w, k.wait_queue[w], Waiters(k, X, w))
          BY <1>0 DEF Tidy, QueuesOK
        <5> QED BY <1>3, <1>7, <4>3, <5>1 DEF WaitQueueOK
      <4> QED BY <4>2, <4>3
    <3>3. Tidy(k1, V, X)
      BY <1>3, <1>6, <1>8, <1>10, <2>1, <3>2 DEF Tidy, QueuesOK
    <3> QED BY <1>3, <3>1, <3>3 DEF OthersSame, k2, r, X
  <2> QED BY <2>2, <2>3
<1> QED BY <1>11, <1>12

--------------------------------------------------------------------------
(* A task that is in no queue may as well be in transit, or not.           *)
LEMMA MayLeave ==
  ASSUME NEW V, NEW k, Tidy(k, V, {}), NEW t \in Task,
         ~TSTAT_RUNNABLE(k.tcb[t].tstat), ~TSTAT_WAITING(k.tcb[t].tstat)
  PROVE  Tidy(k, V, {t})
<1>1. Queued(k, {t}) = Queued(k, {})
  BY DEF Queued
<1>2. \A w \in WaitQueue : Waiters(k, {t}, w) = Waiters(k, {}, w)
  BY DEF Waiters, Waits
<1> QED BY <1>1, <1>2 DEF Tidy, QueuesOK

LEMMA MayStay ==
  ASSUME NEW V, NEW k, NEW t \in Task, Tidy(k, V, {t}),
         ~TSTAT_RUNNABLE(k.tcb[t].tstat), ~TSTAT_WAITING(k.tcb[t].tstat)
  PROVE  Tidy(k, V, {})
<1>1. Queued(k, {}) = Queued(k, {t})
  BY DEF Queued
<1>2. \A w \in WaitQueue : Waiters(k, {}, w) = Waiters(k, {t}, w)
  BY DEF Waiters, Waits
<1>3. \A u \in Task \ {} : WobjOK(k.tcb[u])
  BY DEF Tidy, QueuesOK, WobjOK
<1> QED BY <1>1, <1>2, <1>3 DEF Tidy, QueuesOK

(* make_active(), for a dormant task.                                      *)
LEMMA Activated ==
  ASSUME NEW V, NEW k, Tidy(k, V, {}), NEW t \in Task, TSTAT_DORMANT(k.tcb[t].tstat)
  PROVE  LET k2 == make_active(k, t)
         IN  /\ Tidy(k2, V, {})
             /\ OthersSame(k, k2, t) /\ k2.tcb[t] = Woken(k.tcb[t])
<1> DEFINE r  == Woken(k.tcb[t])
           k1 == Put(k, t, r)
           k2 == make_active(k, t)
           X  == {t}
<1>1. /\ k \in SSet(V) /\ k.tcb[t].tstat \in States /\ k.tcb[t] \in TCB(V)
      /\ ~TSTAT_RUNNABLE(k.tcb[t].tstat) /\ ~TSTAT_WAITING(k.tcb[t].tstat)
  BY TcbType, Flags DEF Tidy, QueuesOK
<1>2. Tidy(k, V, X) /\ t \in X /\ t \notin k.tmevtb
  BY <1>1, MayLeave DEF Tidy, QueuesOK
<1>3. k2 = make_runnable(k1, t)
  <2>1. set_tstat(k, t, TS_RUNNABLE) = k1
    BY <1>1, SetTstat, Flags DEF Woken
  <2> HIDE DEF k1
  <2> QED BY <2>1 DEF make_active
<1>4. r \in TCB(V) /\ r.tstat = TS_RUNNABLE
  BY <1>1, WokenOK
<1>5. OthersSame(k, k1, t) /\ k1.tcb[t] = r
  BY <1>1, <1>4, PutOK
<1> HIDE DEF r, X
<1>6. Tidy(k1, V, X)
  BY <1>2, <1>4, PutQuiet
<1> HIDE DEF k1, k2
<1>7. Tidy(k2, V, X \ {t}) /\ k2.tcb = k1.tcb
  BY <1>2, <1>3, <1>4, <1>5, <1>6, EntersReady, Flags
<1>8. X \ {t} = {}
  BY DEF X
<1> QED BY <1>5, <1>7, <1>8 DEF OthersSame, k2, r

(* A task is forced out of its wait.                                       *)
ForcedOut(k, t) == make_non_wait(set_wercd(end_wait(k, t), t), t)

LEMMA EndsWait ==
  ASSUME NEW V, NEW k, Tidy(k, V, {}), NEW t \in Task, TSTAT_WAITING(k.tcb[t].tstat)
  PROVE  LET k2 == end_wait(k, t)
         IN  Tidy(k2, V, {t}) /\ k2.tcb = k.tcb /\ t \notin k2.tmevtb
<1> DEFINE k1 == wait_dequeue_wobj(k, t)
           X  == {t}
<1>1. Tidy(k1, V, X) /\ k1.tcb = k.tcb
  BY DequeueWobj
<1> HIDE DEF k1, X
<1>2. LET k2 == wait_dequeue_tmevtb(k1, t)
      IN  Tidy(k2, V, X) /\ k2.tcb = k1.tcb /\ k2.tmevtb = k1.tmevtb \ {t}
  BY <1>1, DequeueTmevtb
<1> QED BY <1>1, <1>2 DEF end_wait, k1, X

LEMMA ForcedOutOK ==
  ASSUME NEW V, NEW k, Tidy(k, V, {}), NEW t \in Task, TSTAT_WAITING(k.tcb[t].tstat)
  PROVE  LET k2 == ForcedOut(k, t)
         IN  /\ Tidy(k2, V, {})
             /\ OthersSame(k, k2, t) /\ k2.tcb[t] = Woken(k.tcb[t])
<1> DEFINE k1 == end_wait(k, t)
           X  == {t}
<1>1. Tidy(k1, V, X) /\ k1.tcb = k.tcb /\ t \notin k1.tmevtb /\ t \in X
  BY EndsWait
<1> HIDE DEF k1, X
<1>2. set_wercd(k1, t) = k1
  BY <1>1, CodeStored
<1>3. LET k2 == make_non_wait(k1, t)
      IN  /\ Tidy(k2, V, X \ {t})
          /\ OthersSame(k1, k2, t) /\ k2.tcb[t] = Woken(k1.tcb[t])
  BY <1>1, WakesUp
<1>4. X \ {t} = {}
  BY DEF X
<1>5. ForcedOut(k, t) = make_non_wait(k1, t)
  BY <1>2 DEF ForcedOut, k1
<1> QED BY <1>1, <1>3, <1>4, <1>5 DEF OthersSame

(* task_terminate(), for a task that is not dormant.                       *)
LEMMA DormantTCBOK ==
  ASSUME NEW V, NULL \in V, NEW t \in Task
  PROVE  DormantTCB(t) \in TCB(V) /\ DormantTCB(t).tstat = TS_DORMANT
BY Flags, SyncAssumption DEF DormantTCB, TCB

LEMMA Terminated ==
  ASSUME NEW V, NULL \in V, NEW k, k = kernel, Tidy(k, V, {}), NEW t \in Task, ~Dormant(t)
  PROVE  LET k2 == task_terminate(k, t)
         IN  /\ Tidy(k2, V, {})
             /\ OthersSame(k, k2, t) /\ k2.tcb[t] = DormantTCB(t)
<1> DEFINE r  == DormantTCB(t)
           k1 == IF TSTAT_RUNNABLE(tstat(t)) THEN make_non_runnable(k, t)
                 ELSE end_wait(k, t)
           k2 == task_terminate(k, t)
           N  == {}
           X  == {t}
           R  == Queued(k, N)
<1>1. /\ k \in SSet(V) /\ k.tcb[t].tstat \in States /\ tstat(t) = k.tcb[t].tstat
      /\ ~TSTAT_DORMANT(k.tcb[t].tstat)
  BY TcbType DEF Tidy, QueuesOK, tstat, Dormant
<1>2. Tidy(k1, V, X) /\ k1.tcb = k.tcb /\ t \notin k1.tmevtb
  <2>1. CASE TSTAT_RUNNABLE(k.tcb[t].tstat)
    <3>1. t \in R /\ ~TSTAT_WAITING(k.tcb[t].tstat) /\ QueuesOK(k, V, R, N)
      BY <1>1, <2>1, Flags DEF Queued, Tidy
    <3>2. k1 = make_non_runnable(k, t)
      BY <1>1, <2>1
    <3> HIDE DEF R, N, k1
    <3>3. QueuesOK(k1, V, R \ {t}, N) /\ k1.tcb = k.tcb /\ k1.tmevtb = k.tmevtb
      BY <3>1, <3>2, LeavesReady
    <3>4. Queued(k1, X) = R \ {t}
      BY <3>3 DEF Queued, R, N
    <3>5. \A w \in WaitQueue : Waiters(k1, X, w) = Waiters(k1, N, w)
      BY <3>1, <3>3 DEF Waiters, Waits, N
    <3>6. Tidy(k1, V, X)
      BY <3>3, <3>4, <3>5 DEF Tidy, QueuesOK, N
    <3>7. t \notin k1.tmevtb
      BY <3>1, <3>3 DEF Tidy, QueuesOK
    <3> QED BY <3>3, <3>6, <3>7
  <2>2. CASE ~TSTAT_RUNNABLE(k.tcb[t].tstat)
    <3>1. TSTAT_WAITING(k.tcb[t].tstat) /\ k1 = end_wait(k, t)
      BY <1>1, <2>2, Flags
    <3> HIDE DEF k1
    <3> QED BY <3>1, EndsWait
  <2> QED BY <2>1, <2>2
<1>3. r \in TCB(V) /\ r.tstat = TS_DORMANT
  BY DormantTCBOK
<1>4. k2 = Put(k1, t, r)
  BY DEF task_terminate, Put
<1> HIDE DEF k1, k2, r, R
<1>5. OthersSame(k, k2, t) /\ k2.tcb[t] = r
  <2>1. k1 \in SSet(V)
    BY <1>2 DEF Tidy, QueuesOK
  <2> QED BY <1>2, <1>3, <1>4, <2>1, PutOK DEF OthersSame
<1>6. Tidy(k2, V, X)
  <2>1. t \in X
    OBVIOUS
  <2> HIDE DEF X
  <2> QED BY <1>2, <1>3, <1>4, <2>1, PutQuiet
<1>7. Tidy(k2, V, {})
  BY <1>3, <1>5, <1>6, MayStay, Flags
<1> QED BY <1>5, <1>7 DEF k2, r

--------------------------------------------------------------------------
(* The first task of a wait queue is served, or one of its tasks.          *)
Served(k, w) ==
  wait_complete([k EXCEPT !.wait_queue[w] = Tail(@)], Head(k.wait_queue[w]))

LEMMA ServedOK ==
  ASSUME NEW V, NEW k, Tidy(k, V, {}), NEW w \in WaitQueue, k.wait_queue[w] # << >>
  PROVE  LET k2 == Served(k, w)
             t  == Head(k.wait_queue[w])
         IN  /\ t \in Task /\ Waits(k.tcb[t], w) /\ Tidy(k2, V, {})
             /\ OthersSame(k, k2, t) /\ k2.tcb[t] = Woken(k.tcb[t])
<1> DEFINE q  == k.wait_queue[w]
           t  == Head(q)
           q1 == Tail(q)
           k1 == PutQueue(k, w, q1)
           X  == {t}
           W  == Waiters(k, {}, w)
<1>1. WaitQueueOK(TPRI, k, w, q, W) /\ k \in SSet(V)
  BY DEF Tidy, QueuesOK
<1>2. Served(k, w) = wait_complete(k1, t)
  BY <1>1 DEF Served, PutQueue, SSet
<1> HIDE DEF q, W
<1>3. WaitQueueOK(TPRI, k, w, q1, W \ {t}) /\ t \in W
  BY <1>1, WaitQueueTail DEF q
<1>4. t \in Task /\ Waits(k.tcb[t], w) /\ TSTAT_WAITING(k.tcb[t].tstat)
  BY <1>3 DEF W, Waiters, Waits
<1> HIDE DEF t, q1, k1
<1>5. /\ X \subseteq Waiters(k, {}, w) /\ WaitQueueOK(TPRI, k, w, q1, Waiters(k, {}, w) \ X)
      /\ t \in X /\ X \ {t} = {}
  BY <1>3 DEF W
<1> HIDE DEF X
<1>6. Tidy(k1, V, X) /\ k1.tcb = k.tcb
  BY <1>1, <1>5, LeaveQueue DEF k1
<1>7. LET k2 == wait_complete(k1, t)
      IN  /\ Tidy(k2, V, X \ {t})
          /\ OthersSame(k1, k2, t) /\ k2.tcb[t] = Woken(k1.tcb[t])
  <2>1. Tidy(k1, V, X) /\ t \in X /\ t \in Task /\ TSTAT_WAITING(k1.tcb[t].tstat)
    BY <1>4, <1>5, <1>6
  <2> QED BY ONLY <2>1, WaitCompleted
<1> QED BY <1>2, <1>4, <1>5, <1>6, <1>7 DEF OthersSame, t, q

--------------------------------------------------------------------------
(* init_wait_queue(): the states of its loop.                              *)
Drains(k, w, g, n) ==
  g = [i \in 0..n |-> IF i = 0 THEN [k EXCEPT !.wait_queue[w] = << >>]
                      ELSE wait_complete(g[i - 1], k.wait_queue[w][i])]

LEMMA DrainsExists ==
  ASSUME NEW k, NEW w, NEW n \in Nat
  PROVE  \E g : Drains(k, w, g, n)
<1> DEFINE k0 == [k EXCEPT !.wait_queue[w] = << >>]
           q  == k.wait_queue[w]
           D(g, i) == g = [j \in 0..i |-> IF j = 0 THEN k0
                                          ELSE wait_complete(g[j - 1], q[j])]
           S  == {i \in Nat : ~\E g : D(g, i)}
<1>1. \A g, i : Drains(k, w, g, i) <=> D(g, i)
  BY DEF Drains
<1> HIDE DEF k0, q
<1> HIDE DEF D
<1>2. SUFFICES ASSUME S # {} PROVE FALSE
  BY <1>1
<1>3. PICK i \in S : \A j \in S : i <= j
  <2>1. S \subseteq Nat
    OBVIOUS
  <2> HIDE DEF S
  <2> QED BY <1>2, <2>1, LeastNat
<1>4. i \in Nat
  BY <1>3
<1>5. CASE i = 0
  <2> DEFINE g == [j \in 0..0 |-> k0]
  <2>1. D(g, 0)
    BY DEF D
  <2> HIDE DEF g
  <2> QED BY <1>3, <1>5, <2>1
<1>6. CASE i > 0
  <2>1. i - 1 \in Nat /\ i - 1 \notin S
    <3> HIDE DEF S
    <3> QED BY <1>3, <1>4, <1>6
  <2>2. PICK g : D(g, i - 1)
    BY <2>1
  <2> DEFINE x == wait_complete(g[i - 1], q[i])
             h == [j \in 0..i |-> IF j = i THEN x ELSE g[j]]
  <2>3. \A j \in 0..i - 1 : h[j] = g[j]
    BY <1>4, <1>6
  <2>4. h[i] = wait_complete(h[i - 1], q[i])
    BY <1>4, <1>6, <2>3
  <2>5. \A j \in 0..i : h[j] = IF j = 0 THEN k0 ELSE wait_complete(h[j - 1], q[j])
    <3>1. CASE i \in Nat /\ i > 0
      <4> TAKE j \in 0..i
      <4>1. CASE j = i
        BY <2>4, <3>1, <4>1
      <4>2. CASE j # i
        <5>1. j \in 0..i - 1 /\ (j > 0 => j - 1 \in 0..i - 1)
          BY <3>1, <4>2
        <5>2. h[j] = g[j] /\ (j > 0 => h[j - 1] = g[j - 1])
          BY <2>3, <5>1
        <5>3. g[j] = IF j = 0 THEN k0 ELSE wait_complete(g[j - 1], q[j])
          BY <2>2, <5>1 DEF D
        <5> HIDE DEF h
        <5> QED BY <5>1, <5>2, <5>3
      <4> QED BY <4>1, <4>2
    <3> QED BY <1>4, <1>6, <3>1
  <2>6. h = [j \in 0..i |-> h[j]]
    OBVIOUS
  <2> HIDE DEF h, x
  <2>7. D(h, i)
    BY <2>5, <2>6 DEF D
  <2> QED BY <1>3, <2>7
<1> QED BY <1>4, <1>5, <1>6

(* After i steps of the loop the tasks from the place i + 1 on are still   *)
(* in transit.                                                             *)
Still(q, i) == {q[j] : j \in i + 1..Len(q)}

Drained(k, V, q, k2, i) ==
  /\ Tidy(k2, V, Still(q, i))
  /\ \A u \in Task : u \in Still(q, i) \/ u \notin Still(q, 0) => k2.tcb[u] = k.tcb[u]
  /\ \A u \in Still(q, 0) \ Still(q, i) : k2.tcb[u] = Woken(k.tcb[u])

LEMMA DrainStep ==
  ASSUME NEW V, NEW k, Tidy(k, V, {}), NEW w \in WaitQueue, NEW q, q = k.wait_queue[w],
         NEW i \in Nat, i < Len(q), NEW k1, Drained(k, V, q, k1, i)
  PROVE  Drained(k, V, q, wait_complete(k1, q[i + 1]), i + 1)
<1> DEFINE t  == q[i + 1]
           X  == Still(q, i)
           X2 == Still(q, i + 1)
           S  == Still(q, 0)
           k2 == wait_complete(k1, t)
           W  == Waiters(k, {}, w)
<1>1. QueueOf(q, W)
  BY DEF Tidy, QueuesOK, WaitQueueOK
<1>2. /\ t \in X /\ X2 = X \ {t} /\ X \subseteq S /\ S = W
  <2> HIDE DEF W
  <2>1. /\ Len(q) \in Nat
        /\ \A j \in 1..Len(q) : q[j] \in W
        /\ \A x \in W : \E j \in 1..Len(q) : q[j] = x
        /\ \A j, l \in 1..Len(q) : q[j] = q[l] => j = l
    BY <1>1, QueueIndex
  <2>2. i + 1 \in 1..Len(q)
    BY <2>1
  <2> DEFINE n == Len(q)
  <2> HIDE DEF n
  <2>3. t \in X /\ X \subseteq S /\ S = W
    BY <2>1, <2>2 DEF Still, n
  <2>4. X2 \subseteq X \ {t}
    BY <2>1, <2>2 DEF Still, n
  <2>5. X \ {t} \subseteq X2
    BY <2>1, <2>2 DEF Still, n
  <2> QED BY <2>3, <2>4, <2>5
<1>3. W \subseteq Task /\ t \in Task /\ Waits(k.tcb[t], w)
  BY <1>2 DEF Waiters
<1>4. k1.tcb[t] = k.tcb[t]
  BY <1>2, <1>3 DEF Drained
<1>5. TSTAT_WAITING(k1.tcb[t].tstat)
  BY <1>3, <1>4 DEF Waits
<1> HIDE DEF X, X2, S, W
<1>6. /\ Tidy(k2, V, X2)
      /\ OthersSame(k1, k2, t) /\ k2.tcb[t] = Woken(k1.tcb[t])
  <2>1. Tidy(k1, V, X)
    BY DEF Drained, X
  <2> HIDE DEF t
  <2> QED BY <1>2, <1>3, <1>5, <2>1, WaitCompleted
<1> HIDE DEF t, k2
<1>7. /\ \A u \in Task : u \in X \/ u \notin S => k1.tcb[u] = k.tcb[u]
      /\ \A u \in S \ X : k1.tcb[u] = Woken(k.tcb[u])
  BY DEF Drained, X, S
<1>8. \A u \in Task : u \in X2 \/ u \notin S => k2.tcb[u] = k.tcb[u]
  BY <1>2, <1>6, <1>7 DEF OthersSame
<1>9. \A u \in S \ X2 : k2.tcb[u] = Woken(k.tcb[u])
  <2> TAKE u \in S \ X2
  <2>1. CASE u = t
    BY <1>4, <1>6, <2>1
  <2>2. CASE u # t
    <3>1. u \in S \ X /\ u \in Task
      BY <1>2, <1>3, <2>2
    <3>2. k2.tcb[u] = k1.tcb[u]
      BY <1>6, <2>2, <3>1 DEF OthersSame
    <3> QED BY <1>7, <3>1, <3>2
  <2> QED BY <2>1, <2>2
<1> QED BY <1>6, <1>8, <1>9 DEF Drained, X2, S, k2, t

(* init_wait_queue() releases every task that waits for w, and no other.   *)
LEMMA QueueReleased ==
  ASSUME NEW V, NEW k, Tidy(k, V, {}), NEW w \in WaitQueue
  PROVE  LET k2 == init_wait_queue(k, w)
         IN  /\ Tidy(k2, V, {})
             /\ \A u \in Task : Waits(k.tcb[u], w) => k2.tcb[u] = Woken(k.tcb[u])
             /\ \A u \in Task : ~Waits(k.tcb[u], w) => k2.tcb[u] = k.tcb[u]
<1> DEFINE q  == k.wait_queue[w]
           n  == Len(q)
           k0 == [k EXCEPT !.wait_queue[w] = << >>]
           W  == Waiters(k, {}, w)
<1>1. PICK g : Drains(k, w, g, n) /\ init_wait_queue(k, w) = g[n]
  <2> DEFINE f == CHOOSE g : Drains(k, w, g, n)
  <2>1. \E g : Drains(k, w, g, n)
    <3>1. n \in Nat
      <4>1. q \in Seq(Task)
        BY DEF Tidy, QueuesOK, SSet
      <4> HIDE DEF q
      <4> QED BY <4>1
    <3> HIDE DEF n
    <3> QED BY <3>1, DrainsExists
  <2>2. init_wait_queue(k, w) = f[n]
    BY DEF init_wait_queue, Drains
  <2>3. Drains(k, w, f, n)
    <3> HIDE DEF n
    <3> QED BY <2>1
  <2> QED BY <2>2, <2>3
<1>2. QueueOf(q, W) /\ W \subseteq Task /\ k \in SSet(V)
  BY DEF Tidy, QueuesOK, WaitQueueOK, Waiters
<1>3. /\ n \in Nat
      /\ Still(q, 0) = W
      /\ Still(q, n) = {}
  <2> HIDE DEF W
  <2>1. /\ Len(q) \in Nat
        /\ \A j \in 1..Len(q) : q[j] \in W
        /\ \A x \in W : \E j \in 1..Len(q) : q[j] = x
    BY <1>2, QueueIndex
  <2> HIDE DEF q
  <2> QED BY <2>1 DEF Still
<1>4. /\ g[0] = k0
      /\ \A i \in 1..n : g[i] = wait_complete(g[i - 1], q[i])
  <2> HIDE DEF k0, q
  <2>1. g = [i \in 0..n |-> IF i = 0 THEN k0 ELSE wait_complete(g[i - 1], q[i])]
    BY <1>1 DEF Drains, k0, q
  <2> HIDE DEF n
  <2> QED BY <1>3, <2>1
<1>5. Drained(k, V, q, g[0], 0)
  <2>1. k0 = PutQueue(k, w, << >>)
    BY <1>2 DEF PutQueue
  <2>2. Tidy(k0, V, W) /\ k0.tcb = k.tcb
    <3> DEFINE e == << >>
    <3>1. W \subseteq W /\ WaitQueueOK(TPRI, k, w, e, W \ W)
      <4>1. W \ W = {} /\ QueueOf(e, {}) /\ Sorted(k, e)
        BY QueueEmpty DEF Sorted
      <4> HIDE DEF W, e
      <4> QED BY <4>1 DEF WaitQueueOK
    <3>2. k0 = PutQueue(k, w, e)
      BY <2>1
    <3> HIDE DEF e, k0
    <3>3. W \subseteq Waiters(k, {}, w) /\ WaitQueueOK(TPRI, k, w, e, Waiters(k, {}, w) \ W)
      BY <3>1
    <3> HIDE DEF W
    <3>4. Tidy(PutQueue(k, w, e), V, W) /\ PutQueue(k, w, e).tcb = k.tcb
      BY <3>3, LeaveQueue
    <3> QED BY <3>2, <3>4
  <2> HIDE DEF k0, W
  <2> QED BY <1>3, <1>4, <2>2 DEF Drained
<1> HIDE DEF q, n, k0
<1>6. \A i \in 0..n : Drained(k, V, q, g[i], i)
  <2> DEFINE S == {i \in 0..n : ~Drained(k, V, q, g[i], i)}
  <2>1. SUFFICES ASSUME S # {} PROVE FALSE
    OBVIOUS
  <2>2. PICK i \in S : \A j \in S : i <= j
    <3>1. S \subseteq Nat
      BY <1>3
    <3> HIDE DEF S
    <3> QED BY <2>1, <3>1, LeastNat
  <2>3. i \in 0..n /\ i # 0
    BY <1>5, <2>2
  <2> DEFINE j == i - 1
  <2>4. j \in Nat /\ j \in 0..n /\ j < n /\ i = j + 1 /\ i \in 1..n /\ ~(i <= j)
    BY <1>3, <2>3
  <2>5. Drained(k, V, q, g[j], j)
    BY <2>2, <2>4
  <2>6. g[i] = wait_complete(g[j], q[j + 1])
    BY <1>4, <2>4
  <2> HIDE DEF j
  <2>7. Drained(k, V, q, g[i], i)
    <3>1. q = k.wait_queue[w] /\ j < Len(q)
      BY <2>4 DEF q, n
    <3> QED BY <2>4, <2>5, <2>6, <3>1, DrainStep
  <2> QED BY <2>2, <2>7
<1>7. Drained(k, V, q, g[n], n)
  BY <1>3, <1>6
<1>8. \A u \in Task : u \in W <=> Waits(k.tcb[u], w)
  BY DEF Waiters
<1> HIDE DEF W
<1> QED BY <1>1, <1>3, <1>7, <1>8 DEF Drained

--------------------------------------------------------------------------
(* What the objects need to know of a step: no task waits that did not     *)
(* wait for the same thing before, or only t does, for w.                  *)
Stays(r, r2) ==
  \A w \in WaitQueue : Waits(r2, w) => Waits(r, w) /\ r2.winfo = r.winfo

Leaves(k, k2) == \A u \in Task : Stays(k.tcb[u], k2.tcb[u])

Joins(k, k2, t, w, info) ==
  /\ \A u \in Task \ {t} : Stays(k.tcb[u], k2.tcb[u])
  /\ \A v \in WaitQueue : Waits(k2.tcb[t], v) => v = w /\ k2.tcb[t].winfo = info

LEMMA LeavesTrans ==
  ASSUME NEW k, NEW k1, NEW k2, Leaves(k, k1), Leaves(k1, k2)
  PROVE  Leaves(k, k2)
BY DEF Leaves, Stays

LEMMA JoinsLeaves ==
  ASSUME NEW k, NEW k1, NEW k2, NEW t \in Task, NEW w, NEW info,
         Joins(k, k1, t, w, info), Leaves(k1, k2)
  PROVE  Joins(k, k2, t, w, info)
<1>1. \A u \in Task \ {t} : Stays(k.tcb[u], k2.tcb[u])
  BY DEF Joins, Leaves, Stays
<1>2. \A v \in WaitQueue : Waits(k2.tcb[t], v) => v = w /\ k2.tcb[t].winfo = info
  BY DEF Joins, Leaves, Stays
<1> QED BY <1>1, <1>2 DEF Joins

(* One task changes, and waits for nothing then.                           *)
LEMMA LeavesOne ==
  ASSUME NEW k, NEW k2, NEW t, OthersSame(k, k2, t), \A w \in WaitQueue : ~Waits(k2.tcb[t], w)
  PROVE  Leaves(k, k2)
BY DEF Leaves, Stays, OthersSame

(* EndWinfo() changes nothing that waits.                                  *)
LEMMA EndWinfoOK ==
  ASSUME NEW V, NULL \in V, NEW k, Tidy(k, V, {})
  PROVE  LET k2 == EndWinfo(k)
         IN  Tidy(k2, V, {}) /\ Leaves(k, k2) /\ k2.p_schedtsk = k.p_schedtsk
<1> DEFINE r(t) == IF TSTAT_WAITING(k.tcb[t].tstat) THEN k.tcb[t]
                   ELSE [k.tcb[t] EXCEPT !.wobj = NULL, !.winfo = NULL]
           f    == [t \in Task |-> r(t)]
           k2   == EndWinfo(k)
           N    == {}
<1>1. k \in SSet(V) /\ k2 = [k EXCEPT !.tcb = f]
  BY DEF EndWinfo, Tidy, QueuesOK
<1>2. ASSUME NEW t \in Task
      PROVE  /\ r(t) \in TCB(V)
             /\ r(t).priority = k.tcb[t].priority /\ r(t).tstat = k.tcb[t].tstat
             /\ TSTAT_WAITING(k.tcb[t].tstat) => r(t) = k.tcb[t]
  <2>1. k.tcb[t] \in TCB(V)
    BY <1>1, TcbType
  <2> QED BY <2>1 DEF TCB
<1>3. \A t \in Task : f[t] = r(t)
  OBVIOUS
<1>4. f \in [Task -> TCB(V)]
  BY <1>2
<1> HIDE DEF f, k2
<1>5. /\ k2 \in SSet(V) /\ SameSched(k, k2) /\ k2.wait_queue = k.wait_queue
      /\ k2.tmevtb = k.tmevtb /\ k2.asserted = k.asserted /\ k2.tcb = f
  BY <1>1, <1>4 DEF SSet, SameSched
<1>6. \A t \in Task :
        /\ k2.tcb[t].priority = k.tcb[t].priority /\ k2.tcb[t].tstat = k.tcb[t].tstat
        /\ TSTAT_WAITING(k.tcb[t].tstat) => k2.tcb[t] = k.tcb[t]
  BY <1>2, <1>3, <1>5
<1> HIDE DEF r
<1>7. \A t \in Task : \A w : Waits(k2.tcb[t], w) <=> Waits(k.tcb[t], w)
  BY <1>6 DEF Waits
<1>8. Queued(k2, N) = Queued(k, N)
  BY <1>6 DEF Queued
<1>9. Quiet(k, V, Queued(k, N), N, k2, N)
  <2>1. \A w \in WaitQueue : Waiters(k2, N, w) = Waiters(k, N, w)
    BY <1>7 DEF Waiters
  <2>2. \A t \in Task \ N : WobjOK(k2.tcb[t])
    BY <1>6 DEF WobjOK, Tidy, QueuesOK
  <2>3. \A t \in k2.tmevtb : TSTAT_WAITING(k2.tcb[t].tstat)
    BY <1>5, <1>6 DEF Tidy, QueuesOK, SSet
  <2>4. k2.asserted = TRUE
    BY <1>5 DEF Tidy, QueuesOK
  <2>5. \A t \in Task : k2.tcb[t].priority = k.tcb[t].priority
    BY <1>6
  <2>6. Queued(k, N) \subseteq Task /\ \A w \in WaitQueue : Waiters(k, N, w) \subseteq Task
    BY DEF Queued, Waiters
  <2> HIDE DEF N
  <2> QED BY <1>5, <2>1, <2>2, <2>3, <2>4, <2>5, <2>6 DEF Quiet
<1>10. Tidy(k2, V, N)
  <2>1. QueuesOK(k, V, Queued(k, N), N)
    BY DEF Tidy
  <2> HIDE DEF N
  <2>2. QueuesOK(k2, V, Queued(k, N), N)
    BY <1>9, <2>1, QuietChange
  <2> QED BY <1>8, <2>2 DEF Tidy
<1>11. Leaves(k, k2)
  BY <1>6, <1>7 DEF Leaves, Stays, Waits
<1> QED BY <1>5, <1>10, <1>11 DEF SameSched, k2

--------------------------------------------------------------------------
(* The invariant of the kernel, and its steps.                             *)
SoundAt(V, k, nest, run) ==
  /\ Tidy(k, V, {})
  /\ nest \in Nat
  /\ run \in Task \cup {NULL}
  /\ nest > 0 \/ run = k.p_schedtsk

SoundNow(V) == SoundAt(V, kernel, excpt_nest_count, p_runtsk)
SoundNext(V) == SoundAt(V, kernel', excpt_nest_count', p_runtsk')

LEMMA KernelRunning ==
  ASSUME NEW V, NULL \in V, SoundNow(V), TaskContext
  PROVE  p_runtsk \in Task /\ TSTAT_RUNNABLE(kernel.tcb[p_runtsk].tstat)
<1>1. p_runtsk = kernel.p_schedtsk /\ p_runtsk # NULL
  BY DEF SoundNow, SoundAt, TaskContext, sense_context
<1>2. SchedOK(kernel, Queued(kernel, {})) /\ kernel.dspflg
  BY DEF SoundNow, SoundNext, SoundAt, Tidy, QueuesOK, KInv
<1>3. p_runtsk \in Queued(kernel, {})
  BY <1>1, <1>2 DEF SchedOK, IsFirst
<1> QED BY <1>3 DEF Queued

(* The end of a service.                                                   *)
LEMMA KernelDispatched ==
  ASSUME NEW V, NULL \in V, SoundNow(V), NEW k, Tidy(k, V, {}), Dispatch(k)
  PROVE  SoundNext(V) /\ Leaves(k, kernel')
<1>1. /\ Tidy(kernel', V, {}) /\ Leaves(k, kernel')
      /\ kernel'.p_schedtsk = k.p_schedtsk
  BY EndWinfoOK DEF Dispatch
<1>2. excpt_nest_count' = excpt_nest_count
  BY DEF Dispatch
<1>3. p_runtsk' \in Task \cup {NULL}
  BY DEF Dispatch, SoundNow, SoundNext, SoundAt, Tidy, QueuesOK, SSet
<1>4. (~sense_context)' => p_runtsk' = kernel'.p_schedtsk
  BY <1>1, <1>2 DEF Dispatch, sense_context
<1> QED BY <1>1, <1>2, <1>3, <1>4 DEF SoundNow, SoundNext, SoundAt, sense_context

LEMMA KernelIdle ==
  ASSUME NEW V, NULL \in V, SoundNow(V), UNCHANGED taskVars
  PROVE  SoundNext(V) /\ Leaves(kernel, kernel')
<1>1. Leaves(kernel, kernel')
  BY DEF Leaves, Stays, taskVars
<1>2. SoundNext(V)
  BY DEF SoundNow, SoundNext, SoundAt, taskVars, Tidy, QueuesOK, sense_context
<1> QED BY <1>1, <1>2

--------------------------------------------------------------------------
(* The steps that the services of the objects are made of.                 *)
LEMMA KernelServes ==
  ASSUME NEW V, NULL \in V, SoundNow(V), NEW w \in WaitQueue, kernel.wait_queue[w] # << >>,
         Dispatch(Served(kernel, w))
  PROVE  SoundNext(V) /\ Leaves(kernel, kernel')
<1> DEFINE t  == Head(kernel.wait_queue[w])
           k2 == Served(kernel, w)
<1>1. /\ t \in Task /\ Tidy(k2, V, {})
      /\ OthersSame(kernel, k2, t) /\ k2.tcb[t] = Woken(kernel.tcb[t])
      /\ kernel.tcb[t] \in TCB(V)
  <2>1. Tidy(kernel, V, {})
    BY DEF SoundNow, SoundNext, SoundAt
  <2> QED BY <2>1, ServedOK, TcbType DEF Tidy, QueuesOK
<1> HIDE DEF t, k2
<1>2. Leaves(kernel, k2)
  BY <1>1, WokenOK, LeavesOne
<1>3. SoundNext(V) /\ Leaves(k2, kernel')
  BY <1>1, KernelDispatched DEF k2
<1> QED BY <1>2, <1>3, LeavesTrans

LEMMA ReleasedLeaves ==
  ASSUME NEW V, NEW k, Tidy(k, V, {}), NEW w \in WaitQueue
  PROVE  LET k2 == init_wait_queue(k, w)
         IN  /\ Tidy(k2, V, {}) /\ Leaves(k, k2)
             /\ \A u \in Task : ~Waits(k2.tcb[u], w)
<1> DEFINE k2 == init_wait_queue(k, w)
<1>1. /\ Tidy(k2, V, {})
      /\ \A u \in Task : Waits(k.tcb[u], w) => k2.tcb[u] = Woken(k.tcb[u])
      /\ \A u \in Task : ~Waits(k.tcb[u], w) => k2.tcb[u] = k.tcb[u]
  BY QueueReleased
<1> HIDE DEF k2
<1>2. \A u \in Task : k.tcb[u] \in TCB(V)
  BY TcbType DEF Tidy, QueuesOK
<1>3. \A u \in Task : ~Waits(k2.tcb[u], w)
  BY <1>1, <1>2, WokenOK
<1>4. Leaves(k, k2)
  <2>1. ASSUME NEW u \in Task PROVE Stays(k.tcb[u], k2.tcb[u])
    <3>1. CASE Waits(k.tcb[u], w)
      BY <1>1, <1>2, <3>1, WokenOK DEF Stays
    <3>2. CASE ~Waits(k.tcb[u], w)
      BY <1>1, <3>2 DEF Stays
    <3> QED BY <3>1, <3>2
  <2> QED BY <2>1 DEF Leaves
<1> QED BY <1>1, <1>3, <1>4 DEF k2

NobodyWaits(k, w) == \A u \in Task : ~Waits(k.tcb[u], w)

LEMMA KernelReleases ==
  ASSUME NEW V, NULL \in V, SoundNow(V), NEW w \in WaitQueue, Dispatch(init_wait_queue(kernel, w))
  PROVE  SoundNext(V) /\ Leaves(kernel, kernel') /\ NobodyWaits(kernel', w)
<1> DEFINE k2 == init_wait_queue(kernel, w)
<1>1. Tidy(k2, V, {}) /\ Leaves(kernel, k2) /\ NobodyWaits(k2, w)
  BY ReleasedLeaves DEF SoundNow, SoundNext, SoundAt, NobodyWaits
<1> HIDE DEF k2
<1>2. SoundNext(V) /\ Leaves(k2, kernel')
  BY <1>1, KernelDispatched DEF k2
<1>3. Leaves(kernel, kernel')
  BY <1>1, <1>2, LeavesTrans
<1>4. NobodyWaits(kernel', w)
  BY <1>1, <1>2 DEF NobodyWaits, Leaves, Stays
<1> QED BY <1>2, <1>3, <1>4

(* Of a data queue or a priority data queue.                               *)
LEMMA KernelReleasesAll ==
  ASSUME NEW V, NULL \in V, SoundNow(V), NEW v \in WaitQueue, NEW w \in WaitQueue,
         Dispatch(init_wait_queue(init_wait_queue(kernel, v), w))
  PROVE  /\ SoundNext(V) /\ Leaves(kernel, kernel')
         /\ NobodyWaits(kernel', v) /\ NobodyWaits(kernel', w)
<1> DEFINE k1 == init_wait_queue(kernel, v)
           k2 == init_wait_queue(k1, w)
<1>1. Tidy(k1, V, {}) /\ Leaves(kernel, k1) /\ NobodyWaits(k1, v)
  BY ReleasedLeaves DEF SoundNow, SoundNext, SoundAt, NobodyWaits
<1> HIDE DEF k1
<1>2. Tidy(k2, V, {}) /\ Leaves(k1, k2) /\ NobodyWaits(k2, w)
  BY <1>1, ReleasedLeaves DEF NobodyWaits
<1> HIDE DEF k2
<1>3. SoundNext(V) /\ Leaves(k2, kernel')
  BY <1>2, KernelDispatched DEF k2, k1
<1>4. Leaves(kernel, kernel')
  BY <1>1, <1>2, <1>3, LeavesTrans
<1>5. NobodyWaits(kernel', v) /\ NobodyWaits(kernel', w)
  BY <1>1, <1>2, <1>3 DEF NobodyWaits, Leaves, Stays
<1> QED BY <1>3, <1>4, <1>5

LEMMA KernelWaits ==
  ASSUME NEW V, NULL \in V, SoundNow(V), TaskContext, NEW w \in WaitQueue, NEW s \in States, TSTAT_WAITING(s),
         w \in TPRI => TSTAT_WAIT_WOBJCB(s),
         NEW info \in V, NEW timed \in BOOLEAN, wobj_wait(w, s, info, timed)
  PROVE  SoundNext(V) /\ Joins(kernel, kernel', p_runtsk, w, info) /\ p_runtsk \in Task
<1> DEFINE t  == p_runtsk
           k2 == Waited(kernel, t, w, s, info, timed)
<1>1. t \in Task /\ TSTAT_RUNNABLE(kernel.tcb[t].tstat)
  BY KernelRunning
<1>2. /\ Tidy(k2, V, {})
      /\ OthersSame(kernel, k2, t) /\ k2.tcb[t] = WaitTCB(kernel.tcb[t], w, s, info)
  <2>1. Tidy(kernel, V, {})
    BY DEF SoundNow, SoundNext, SoundAt
  <2> HIDE DEF t
  <2> QED BY <1>1, <2>1, WaitsForObject
<1>3. k2.tcb[t].wobj = w /\ k2.tcb[t].winfo = info
  <2>1. kernel.tcb[t] \in TCB(V)
    BY <1>1, TcbType DEF SoundNow, SoundNext, SoundAt, Tidy, QueuesOK
  <2> HIDE DEF t, k2
  <2> QED BY <1>2, <2>1 DEF TCB, WaitTCB
<1>4. Dispatch(k2)
  BY DEF wobj_wait, Waited
<1> HIDE DEF k2, t
<1>5. SoundNext(V) /\ Leaves(k2, kernel')
  BY <1>2, <1>4, KernelDispatched
<1>6. Joins(kernel, k2, t, w, info)
  BY <1>2, <1>3 DEF Joins, OthersSame, Stays, Waits
<1>7. Joins(kernel, kernel', t, w, info)
  BY <1>1, <1>5, <1>6, JoinsLeaves
<1> QED BY <1>1, <1>5, <1>7 DEF t

--------------------------------------------------------------------------
(* The task services.                                                      *)
LEMMA OneTask ==
  ASSUME NEW V, NULL \in V, SoundNow(V), NEW t \in Task, NEW k2, Tidy(k2, V, {}), OthersSame(kernel, k2, t),
         Stays(kernel.tcb[t], k2.tcb[t]), Dispatch(k2)
  PROVE  SoundNext(V) /\ Leaves(kernel, kernel')
<1>1. Leaves(kernel, k2)
  BY DEF Leaves, OthersSame, Stays
<1>2. SoundNext(V) /\ Leaves(k2, kernel')
  BY KernelDispatched
<1> QED BY <1>1, <1>2, LeavesTrans

LEMMA KernelTasks ==
  ASSUME NEW V, NULL \in V, SoundNow(V), TaskNext
  PROVE  SoundNext(V) /\ Leaves(kernel, kernel')
<1> DEFINE Goal == SoundNext(V) /\ Leaves(kernel, kernel')
<1>1. /\ Tidy(kernel, V, {})
      /\ \A t \in Task : kernel.tcb[t] \in TCB(V)
  BY TcbType DEF SoundNow, SoundNext, SoundAt, Tidy, QueuesOK
<1>2. \A t \in Task : \A s : Stays(s, Woken(kernel.tcb[t]))
  BY <1>1, WokenOK DEF Stays
<1> HIDE DEF Goal
<1>3. ASSUME NEW t \in Task, act_tsk(t) PROVE Goal
  <2> DEFINE k2 == make_active(kernel, t)
  <2>1. /\ Tidy(k2, V, {})
        /\ OthersSame(kernel, k2, t) /\ k2.tcb[t] = Woken(kernel.tcb[t])
        /\ Dispatch(k2)
    BY <1>1, <1>3, Activated DEF act_tsk, Dormant, tstat
  <2> HIDE DEF k2
  <2> QED BY <1>2, <2>1, OneTask DEF Goal
<1>4. ASSUME NEW t \in Task, NEW p \in TPri, chg_pri(t, p) PROVE Goal
  <2> DEFINE mode == FALSE
             k2   == change_priority(kernel, t, p, mode)
  <2>0. mode \in BOOLEAN /\ Dispatch(k2)
    BY <1>4 DEF chg_pri
  <2> HIDE DEF mode
  <2>1. /\ Tidy(k2, V, {})
        /\ OthersSame(kernel, k2, t)
        /\ k2.tcb[t] = [kernel.tcb[t] EXCEPT !.priority = p]
        /\ Dispatch(k2)
    BY <1>1, <2>0, ChangesPriority
  <2>2. Stays(kernel.tcb[t], [kernel.tcb[t] EXCEPT !.priority = p])
    BY <1>1 DEF Stays, Waits, TCB
  <2> HIDE DEF k2
  <2> QED BY <2>1, <2>2, OneTask DEF Goal
<1>5. ASSUME NEW t \in Task, Waiting(t), Dispatch(ForcedOut(kernel, t)) PROVE Goal
  <2> DEFINE k2 == ForcedOut(kernel, t)
  <2>1. /\ Tidy(k2, V, {})
        /\ OthersSame(kernel, k2, t) /\ k2.tcb[t] = Woken(kernel.tcb[t])
    BY <1>1, <1>5, ForcedOutOK DEF Waiting, tstat
  <2> HIDE DEF k2
  <2> QED BY <1>2, <1>5, <2>1, OneTask DEF Goal, k2
<1>6. ASSUME NEW t \in Task, rel_wai(t) PROVE Goal
  BY <1>5, <1>6 DEF rel_wai, ForcedOut
<1>7. ASSUME NEW t \in Task, wait_tmout(t) PROVE Goal
  <2>1. Waiting(t)
    BY <1>1, <1>7 DEF wait_tmout, Waiting, tstat, Tidy, QueuesOK
  <2> QED BY <1>5, <1>7, <2>1 DEF wait_tmout, ForcedOut
<1>8. ASSUME NEW t \in Task, ~Dormant(t), Dispatch(task_terminate(kernel, t)) PROVE Goal
  <2> DEFINE k2 == task_terminate(kernel, t)
  <2>1. /\ Tidy(k2, V, {})
        /\ OthersSame(kernel, k2, t) /\ k2.tcb[t] = DormantTCB(t)
    BY <1>1, <1>8, Terminated
  <2>2. Stays(kernel.tcb[t], DormantTCB(t))
    BY DormantTCBOK, Flags DEF Stays, Waits
  <2> HIDE DEF k2
  <2> QED BY <1>8, <2>1, <2>2, OneTask DEF Goal, k2
<1>9. ASSUME NEW t \in Task, ter_tsk(t) PROVE Goal
  BY <1>8, <1>9 DEF ter_tsk
<1>10. CASE ext_tsk
  <2>1. p_runtsk \in Task /\ TSTAT_RUNNABLE(kernel.tcb[p_runtsk].tstat)
    BY <1>10, KernelRunning DEF ext_tsk
  <2>2. ~Dormant(p_runtsk)
    BY <1>1, <2>1, TcbType, Flags DEF Dormant, tstat, Tidy, QueuesOK
  <2> QED BY <1>8, <1>10, <2>1, <2>2 DEF ext_tsk, Goal
<1>11. CASE irq_handler
  <2>1. /\ excpt_nest_count' \in Nat /\ sense_context' /\ kernel' = kernel
        /\ p_runtsk' = p_runtsk
    BY <1>11 DEF irq_handler, SoundNow, SoundNext, SoundAt, sense_context
  <2>2. SoundNext(V)
    BY <2>1 DEF SoundNow, SoundNext, SoundAt, sense_context
  <2> QED BY <2>1, <2>2 DEF Goal, Leaves, Stays
<1>12. CASE irq_return
  <2>1. /\ excpt_nest_count' \in Nat /\ kernel' = kernel
        /\ p_runtsk' \in Task \cup {NULL}
        /\ (~sense_context)' => p_runtsk' = kernel'.p_schedtsk
    BY <1>12 DEF irq_return, SoundNow, SoundNext, SoundAt, sense_context, Tidy, QueuesOK, SSet
  <2>2. SoundNext(V)
    BY <2>1 DEF SoundNow, SoundNext, SoundAt, sense_context
  <2> QED BY <2>1, <2>2 DEF Goal, Leaves, Stays
<1> QED BY <1>3, <1>4, <1>6, <1>7, <1>9, <1>10, <1>11, <1>12 DEF TaskNext, Goal

LEMMA KernelInit ==
  ASSUME NEW V, NULL \in V, TaskInit
  PROVE  SoundNow(V) /\ \A w \in WaitQueue : NobodyWaits(kernel, w)
<1> DEFINE N == {}
           f == [t \in Task |-> DormantTCB(t)]
<1>1. /\ kernel.tcb = f /\ kernel.ready_queue = [p \in TPri |-> << >>]
      /\ kernel.ready_primap = {} /\ kernel.p_schedtsk = NULL
      /\ kernel.dspflg = TRUE /\ kernel.tmevtb = {} /\ kernel.asserted = TRUE
      /\ kernel.wait_queue = [w \in WaitQueue |-> << >>]
  BY DEF TaskInit
<1>2. \A t \in Task : f[t] = DormantTCB(t)
  OBVIOUS
<1> HIDE DEF f
<1>3. \A t \in Task : f[t] \in TCB(V) /\ f[t].tstat = TS_DORMANT
  BY <1>2, DormantTCBOK
<1>4. f \in [Task -> TCB(V)]
  BY <1>3 DEF f
<1>5. kernel \in SSet(V)
  <2>1. kernel = [tcb |-> f, ready_queue |-> kernel.ready_queue,
                  ready_primap |-> {}, p_schedtsk |-> NULL, dspflg |-> TRUE,
                  tmevtb |-> {}, asserted |-> TRUE,
                  wait_queue |-> kernel.wait_queue]
    BY DEF TaskInit, f
  <2>2. /\ kernel.ready_queue \in [TPri -> Seq(Task)]
        /\ kernel.wait_queue \in [WaitQueue -> Seq(Task)]
    BY <1>1
  <2> DEFINE rq == kernel.ready_queue
             wq == kernel.wait_queue
  <2> HIDE DEF rq, wq
  <2>3. kernel = [tcb |-> f, ready_queue |-> rq,
                  ready_primap |-> {}, p_schedtsk |-> NULL, dspflg |-> TRUE,
                  tmevtb |-> {}, asserted |-> TRUE, wait_queue |-> wq]
        /\ rq \in [TPri -> Seq(Task)] /\ wq \in [WaitQueue -> Seq(Task)]
    BY <2>1, <2>2 DEF rq, wq
  <2> QED BY <1>4, <2>3 DEF SSet
<1>6. \A t \in Task :
        /\ ~TSTAT_WAITING(kernel.tcb[t].tstat) /\ ~TSTAT_RUNNABLE(kernel.tcb[t].tstat)
        /\ kernel.tcb[t].priority \in TPri
  BY <1>1, <1>3, <1>5, Flags, TcbType
<1>7. Queued(kernel, N) = {} /\ \A w \in WaitQueue : Waiters(kernel, N, w) = {}
  BY <1>6 DEF Queued, Waiters, Waits
<1>8. KInv(kernel, {})
  <2>1. \A p \in TPri : AtPri(kernel, {}, p) = {} /\ kernel.ready_queue[p] = << >>
    BY <1>1 DEF AtPri
  <2>2. ReadyOK(kernel, {})
    BY <1>1, <1>6, <2>1, QueueEmpty DEF ReadyOK
  <2>3. SchedOK(kernel, {})
    BY <1>1 DEF SchedOK
  <2> QED BY <2>2, <2>3 DEF KInv
<1>9. \A w \in WaitQueue : WaitQueueOK(TPRI, kernel, w, kernel.wait_queue[w], {})
  <2>1. \A w \in WaitQueue : kernel.wait_queue[w] = << >>
    BY <1>1
  <2>2. Sorted(kernel, << >>)
    BY DEF Sorted
  <2> QED BY <2>1, <2>2, QueueEmpty DEF WaitQueueOK
<1>10. Tidy(kernel, V, N)
  BY <1>1, <1>5, <1>6, <1>7, <1>8, <1>9 DEF Tidy, QueuesOK, WobjOK
<1>11. SoundNow(V)
  BY <1>1, <1>10 DEF SoundNow, SoundNext, SoundAt, TaskInit
<1> QED BY <1>6, <1>11 DEF NobodyWaits, Waits
--------------------------------------------------------------------------
(* What an abstract view of a wait queue needs besides: but for one task,  *)
(* or those of a queue that is emptied, everybody waits on.                *)
Remains(k, k2, S) ==
  \A u \in Task \ S : \A w \in WaitQueue : Waits(k.tcb[u], w) => Waits(k2.tcb[u], w)

LEMMA DispatchRemains ==
  ASSUME NEW V, NULL \in V, NEW k, Tidy(k, V, {}), Dispatch(k)
  PROVE  \A u \in Task : TSTAT_WAITING(k.tcb[u].tstat) => kernel'.tcb[u] = k.tcb[u]
<1> DEFINE f == [t \in Task |->
                   IF TSTAT_WAITING(k.tcb[t].tstat) THEN k.tcb[t]
                   ELSE [k.tcb[t] EXCEPT !.wobj = NULL, !.winfo = NULL]]
<1>1. k \in SSet(V) /\ kernel' = [k EXCEPT !.tcb = f]
  BY DEF Dispatch, EndWinfo, Tidy, QueuesOK
<1>2. \A u \in Task : TSTAT_WAITING(k.tcb[u].tstat) => f[u] = k.tcb[u]
  OBVIOUS
<1> HIDE DEF f
<1>3. kernel'.tcb = f
  BY <1>1 DEF SSet
<1> QED BY <1>2, <1>3

(* One task changes in the service.                                        *)
LEMMA OneRemains ==
  ASSUME NEW V, NULL \in V, NEW t, NEW k, Tidy(k, V, {}), OthersSame(kernel, k, t),
         Dispatch(k)
  PROVE  Remains(kernel, kernel', {t})
<1>1. \A u \in Task : TSTAT_WAITING(k.tcb[u].tstat) => kernel'.tcb[u] = k.tcb[u]
  BY DispatchRemains
<1> QED BY <1>1 DEF Remains, OthersSame, Waits

(* The first task of a queue is served.                                    *)
LEMMA KernelServesOne ==
  ASSUME NEW V, NULL \in V, SoundNow(V), NEW w \in WaitQueue, kernel.wait_queue[w] # << >>,
         Dispatch(Served(kernel, w))
  PROVE  LET t == Head(kernel.wait_queue[w])
         IN  /\ t \in Task /\ Waits(kernel.tcb[t], w)
             /\ \A v \in WaitQueue : ~Waits(kernel'.tcb[t], v)
             /\ Remains(kernel, kernel', {t})
<1> DEFINE t  == Head(kernel.wait_queue[w])
           k2 == Served(kernel, w)
<1>1. Tidy(kernel, V, {})
  BY DEF SoundNow, SoundAt
<1>2. /\ t \in Task /\ Tidy(k2, V, {})
      /\ OthersSame(kernel, k2, t) /\ k2.tcb[t] = Woken(kernel.tcb[t])
      /\ kernel.tcb[t] \in TCB(V)
  BY <1>1, ServedOK, TcbType DEF Tidy, QueuesOK
<1>3. Waits(kernel.tcb[t], w)
  <2> DEFINE W == Waiters(kernel, {}, w)
             q == kernel.wait_queue[w]
  <2>1. QueueOf(q, W)
    BY <1>1 DEF Tidy, QueuesOK, WaitQueueOK
  <2>2. \A u \in W : Waits(kernel.tcb[u], w)
    BY DEF Waiters
  <2>3. q # << >> /\ t = Head(q)
    OBVIOUS
  <2> HIDE DEF W, q, t
  <2> QED BY <2>1, <2>2, <2>3, QueueHead
<1> HIDE DEF t, k2
<1>4. Leaves(k2, kernel')
  BY <1>2, KernelDispatched DEF k2
<1>5. \A v \in WaitQueue : ~Waits(kernel'.tcb[t], v)
  BY <1>2, <1>4, WokenOK DEF Leaves, Stays
<1>6. Remains(kernel, kernel', {t})
  BY <1>2, OneRemains DEF k2
<1> QED BY <1>2, <1>3, <1>5, <1>6 DEF t

(* The caller starts to wait.                                              *)
LEMMA KernelJoinsOne ==
  ASSUME NEW V, NULL \in V, SoundNow(V), TaskContext, NEW w \in WaitQueue, NEW s \in States, TSTAT_WAITING(s),
         w \in TPRI => TSTAT_WAIT_WOBJCB(s),
         NEW info \in V, NEW timed \in BOOLEAN, wobj_wait(w, s, info, timed)
  PROVE  /\ p_runtsk \in Task
         /\ \A v \in WaitQueue : ~Waits(kernel.tcb[p_runtsk], v)
         /\ Waits(kernel'.tcb[p_runtsk], w) /\ kernel'.tcb[p_runtsk].winfo = info
         /\ Remains(kernel, kernel', {p_runtsk})
<1> DEFINE t  == p_runtsk
           k2 == Waited(kernel, t, w, s, info, timed)
<1>1. t \in Task /\ TSTAT_RUNNABLE(kernel.tcb[t].tstat)
  BY KernelRunning
<1>2. Tidy(kernel, V, {})
  BY DEF SoundNow, SoundAt
<1>3. kernel.tcb[t] \in TCB(V)
  BY <1>1, <1>2, TcbType DEF Tidy, QueuesOK
<1>4. \A v \in WaitQueue : ~Waits(kernel.tcb[t], v)
  BY <1>1, <1>3, Flags DEF Waits, TCB
<1>5. /\ Tidy(k2, V, {})
      /\ OthersSame(kernel, k2, t) /\ k2.tcb[t] = WaitTCB(kernel.tcb[t], w, s, info)
  <2> HIDE DEF t
  <2> QED BY <1>1, <1>2, WaitsForObject
<1>6. Dispatch(k2)
  BY DEF wobj_wait, Waited
<1> HIDE DEF k2, t
<1>7. Waits(k2.tcb[t], w) /\ k2.tcb[t].winfo = info
  BY <1>3, <1>5 DEF TCB, WaitTCB, Waits
<1>8. kernel'.tcb[t] = k2.tcb[t]
  BY <1>1, <1>5, <1>6, <1>7, DispatchRemains DEF Waits
<1>9. Remains(kernel, kernel', {t})
  BY <1>5, <1>6, OneRemains
<1> QED BY <1>1, <1>4, <1>7, <1>8, <1>9 DEF t

(* Task services and timeouts end the wait of one task.                    *)
LEMMA KernelTasksOne ==
  ASSUME NEW V, NULL \in V, SoundNow(V), TaskNext
  PROVE  Remains(kernel, kernel', {}) \/ \E t \in Task : Remains(kernel, kernel', {t})
<1> DEFINE Goal == Remains(kernel, kernel', {}) \/ \E t \in Task : Remains(kernel, kernel', {t})
<1>1. /\ Tidy(kernel, V, {})
      /\ \A t \in Task : kernel.tcb[t] \in TCB(V)
  BY TcbType DEF SoundNow, SoundNext, SoundAt, Tidy, QueuesOK
<1>2. ASSUME NEW t \in Task, NEW k2, Tidy(k2, V, {}), OthersSame(kernel, k2, t), Dispatch(k2)
      PROVE  Goal
  BY <1>2, OneRemains
<1> HIDE DEF Goal
<1>3. ASSUME NEW t \in Task, act_tsk(t) PROVE Goal
  <2> DEFINE k2 == make_active(kernel, t)
  <2>1. /\ Tidy(k2, V, {})
        /\ OthersSame(kernel, k2, t)
        /\ Dispatch(k2)
    BY <1>1, <1>3, Activated DEF act_tsk, Dormant, tstat
  <2> HIDE DEF k2
  <2> QED BY <1>2, <2>1
<1>4. ASSUME NEW t \in Task, NEW p \in TPri, chg_pri(t, p) PROVE Goal
  <2> DEFINE mode == FALSE
             k2   == change_priority(kernel, t, p, mode)
  <2>0. mode \in BOOLEAN /\ Dispatch(k2)
    BY <1>4 DEF chg_pri
  <2> HIDE DEF mode
  <2>1. /\ Tidy(k2, V, {})
        /\ OthersSame(kernel, k2, t)
        /\ Dispatch(k2)
    BY <1>1, <2>0, ChangesPriority
  <2> HIDE DEF k2
  <2> QED BY <1>2, <2>1
<1>5. ASSUME NEW t \in Task, Waiting(t), Dispatch(ForcedOut(kernel, t)) PROVE Goal
  <2> DEFINE k2 == ForcedOut(kernel, t)
  <2>1. Tidy(k2, V, {}) /\ OthersSame(kernel, k2, t)
    BY <1>1, <1>5, ForcedOutOK DEF Waiting, tstat
  <2>2. Dispatch(k2)
    BY <1>5
  <2> HIDE DEF k2
  <2> QED BY <1>2, <2>1, <2>2
<1>6. ASSUME NEW t \in Task, rel_wai(t) PROVE Goal
  BY <1>5, <1>6 DEF rel_wai, ForcedOut
<1>7. ASSUME NEW t \in Task, wait_tmout(t) PROVE Goal
  <2>1. Waiting(t)
    BY <1>1, <1>7 DEF wait_tmout, Waiting, tstat, Tidy, QueuesOK
  <2> QED BY <1>5, <1>7, <2>1 DEF wait_tmout, ForcedOut
<1>8. ASSUME NEW t \in Task, ~Dormant(t), Dispatch(task_terminate(kernel, t)) PROVE Goal
  <2> DEFINE k2 == task_terminate(kernel, t)
  <2>1. Tidy(k2, V, {}) /\ OthersSame(kernel, k2, t)
    BY <1>1, <1>8, Terminated
  <2>2. Dispatch(k2)
    BY <1>8
  <2> HIDE DEF k2
  <2> QED BY <1>2, <2>1, <2>2
<1>9. ASSUME NEW t \in Task, ter_tsk(t) PROVE Goal
  BY <1>8, <1>9 DEF ter_tsk
<1>10. CASE ext_tsk
  <2>1. p_runtsk \in Task /\ TSTAT_RUNNABLE(kernel.tcb[p_runtsk].tstat)
    BY <1>10, KernelRunning DEF ext_tsk
  <2>2. ~Dormant(p_runtsk)
    BY <1>1, <2>1, TcbType, Flags DEF Dormant, tstat, Tidy, QueuesOK
  <2> QED BY <1>8, <1>10, <2>1, <2>2 DEF ext_tsk, Goal
<1>11. CASE irq_handler \/ irq_return
  <2>1. kernel' = kernel
    BY <1>11 DEF irq_handler, irq_return
  <2> QED BY <2>1 DEF Goal, Remains
<1> QED BY <1>3, <1>4, <1>6, <1>7, <1>9, <1>10, <1>11 DEF TaskNext, Goal

(* A task is taken out of the middle of a wait queue.                      *)
Taken(k, w, t) == wait_complete([k EXCEPT !.wait_queue[w] = RemoveFirst(@, t)], t)

LEMMA TakenOK ==
  ASSUME NEW V, NEW k, Tidy(k, V, {}), NEW w \in WaitQueue,
         NEW t \in Task, Waits(k.tcb[t], w)
  PROVE  LET k2 == Taken(k, w, t)
         IN  /\ Tidy(k2, V, {})
             /\ OthersSame(k, k2, t) /\ k2.tcb[t] = Woken(k.tcb[t])
<1> DEFINE q  == k.wait_queue[w]
           q1 == RemoveFirst(q, t)
           k1 == PutQueue(k, w, q1)
           X  == {t}
           W  == Waiters(k, {}, w)
<1>1. WaitQueueOK(TPRI, k, w, q, W) /\ k \in SSet(V)
  BY DEF Tidy, QueuesOK
<1>2. Taken(k, w, t) = wait_complete(k1, t)
  BY <1>1 DEF Taken, PutQueue, SSet
<1>3. t \in W /\ TSTAT_WAITING(k.tcb[t].tstat)
  BY DEF Waiters, Waits
<1> HIDE DEF q, W
<1>4. WaitQueueOK(TPRI, k, w, q1, W \ {t})
  BY <1>1, <1>3, WaitQueueRemove
<1> HIDE DEF q1, k1
<1>5. /\ X \subseteq Waiters(k, {}, w) /\ WaitQueueOK(TPRI, k, w, q1, Waiters(k, {}, w) \ X)
      /\ t \in X /\ X \ {t} = {}
  BY <1>3, <1>4 DEF W
<1> HIDE DEF X
<1>6. Tidy(k1, V, X) /\ k1.tcb = k.tcb
  BY <1>1, <1>5, LeaveQueue DEF k1
<1>7. LET k2 == wait_complete(k1, t)
      IN  /\ Tidy(k2, V, X \ {t})
          /\ OthersSame(k1, k2, t) /\ k2.tcb[t] = Woken(k1.tcb[t])
  <2>1. Tidy(k1, V, X) /\ t \in X /\ t \in Task /\ TSTAT_WAITING(k1.tcb[t].tstat)
    BY <1>3, <1>5, <1>6
  <2> QED BY ONLY <2>1, WaitCompleted
<1> QED BY <1>2, <1>5, <1>6, <1>7 DEF OthersSame

--------------------------------------------------------------------------
(* What the invariant says of the kernel.                                  *)
LEMMA KernelHolds ==
  ASSUME NEW V, NULL \in V, SoundNow(V)
  PROVE  KernelOK
<1> DEFINE R == Queued(kernel, {})
<1>1. /\ kernel \in SSet(V) /\ kernel.dspflg = TRUE /\ KInv(kernel, R)
      /\ kernel.asserted = TRUE
      /\ \A t \in kernel.tmevtb : TSTAT_WAITING(kernel.tcb[t].tstat)
      /\ \A w \in WaitQueue :
           WaitQueueOK(TPRI, kernel, w, kernel.wait_queue[w], Waiters(kernel, {}, w))
      /\ sense_context \/ p_runtsk = kernel.p_schedtsk
  BY DEF SoundNow, SoundAt, Tidy, QueuesOK, sense_context
<1>2. ASSUME NEW w \in WaitQueue
      PROVE  /\ IsInjective(kernel.wait_queue[w])
             /\ ToSet(kernel.wait_queue[w]) =
                  {t \in Task : Waiting(t) /\ kernel.tcb[t].wobj = w}
             /\ w \in TPRI => \A i, j \in DOMAIN kernel.wait_queue[w] :
                  i < j => kernel.tcb[kernel.wait_queue[w][i]].priority
                             <= kernel.tcb[kernel.wait_queue[w][j]].priority
  <2> DEFINE S == Waiters(kernel, {}, w)
             q == kernel.wait_queue[w]
  <2>1. WaitQueueOK(TPRI, kernel, w, q, S)
    BY <1>1
  <2>2. S = {t \in Task : Waiting(t) /\ kernel.tcb[t].wobj = w}
    BY DEF Waiters, Waits, Waiting, tstat
  <2> HIDE DEF S, q
  <2>3. QueueOf(q, S) /\ (w \in TPRI => Sorted(kernel, q))
    BY <2>1 DEF WaitQueueOK
  <2>4. DOMAIN q = 1..Len(q)
    BY <2>3, QueueIndex
  <2>5. IsInjective(q) /\ ToSet(q) = S
    BY <2>3 DEF QueueOf
  <2>6. w \in TPRI => \A i, j \in DOMAIN q :
          i < j => kernel.tcb[q[i]].priority <= kernel.tcb[q[j]].priority
    BY <2>3, <2>4 DEF Sorted
  <2> QED BY <2>2, <2>5, <2>6 DEF q
<1>3. \A t \in kernel.tmevtb : Waiting(t)
  BY <1>1 DEF Waiting, tstat
<1>4. \A p \in TPri :
        AtPri(kernel, R, p) =
          {t \in Task : TSTAT_RUNNABLE(tstat(t)) /\ kernel.tcb[t].priority = p}
  BY DEF AtPri, Queued, tstat
<1> HIDE DEF R
<1>5. /\ \A p \in TPri : QueueOf(kernel.ready_queue[p], AtPri(kernel, R, p))
      /\ \A p \in TPri : p \in kernel.ready_primap <=> AtPri(kernel, R, p) # {}
      /\ kernel.ready_primap \subseteq TPri
      /\ \A t \in R : t \in Task /\ kernel.tcb[t].priority \in TPri
      /\ IF R = {} THEN kernel.p_schedtsk = NULL
         ELSE IsFirst(kernel, R, kernel.p_schedtsk)
  BY <1>1 DEF KInv, ReadyOK, SchedOK, SSet
<1>6. \A p \in TPri : /\ IsInjective(kernel.ready_queue[p])
                      /\ ToSet(kernel.ready_queue[p]) = AtPri(kernel, R, p)
  BY <1>5 DEF QueueOf
<1>7. kernel.ready_primap = {p \in TPri : kernel.ready_queue[p] # << >>}
  BY <1>5, QueueHead
<1>8. kernel.ready_primap = {} <=> R = {}
  <2>1. ASSUME NEW t \in R PROVE kernel.tcb[t].priority \in kernel.ready_primap
    <3>1. t \in AtPri(kernel, R, kernel.tcb[t].priority)
      BY DEF AtPri
    <3> QED BY <1>5, <3>1
  <2>2. ASSUME NEW p \in kernel.ready_primap PROVE R # {}
    BY <1>5 DEF AtPri
  <2> QED BY <2>1, <2>2
<1>9. ASSUME IsFirst(kernel, R, kernel.p_schedtsk), R # {}
      PROVE  kernel.p_schedtsk = search_schedtsk(kernel)
  <2> DEFINE p == primap_search(kernel.ready_primap)
             s == kernel.tcb[kernel.p_schedtsk].priority
  <2>1. /\ kernel.p_schedtsk \in R /\ kernel.p_schedtsk = Head(kernel.ready_queue[s])
        /\ \A t \in R : s <= kernel.tcb[t].priority
    BY <1>9 DEF IsFirst
  <2>2. p \in kernel.ready_primap /\ \A q \in kernel.ready_primap : p <= q
    BY <1>5, <1>8, <1>9, PrimapSearch
  <2>3. s \in TPri /\ s \in kernel.ready_primap
    BY <1>5, <2>1 DEF AtPri
  <2> HIDE DEF p
  <2>4. PICK t \in R : kernel.tcb[t].priority = p
    BY <1>5, <2>2 DEF AtPri
  <2>5. s <= p /\ p <= s /\ p \in TPri
    BY <1>5, <2>1, <2>2, <2>3, <2>4
  <2>6. s = p
    <3> HIDE DEF s
    <3> QED BY <2>3, <2>5 DEF TPri
  <2> QED BY <2>1, <2>6 DEF search_schedtsk, p
<1>10. kernel.p_schedtsk = IF kernel.ready_primap = {} THEN NULL
                           ELSE search_schedtsk(kernel)
  BY <1>5, <1>8, <1>9
<1> QED BY <1>1, <1>2, <1>3, <1>4, <1>6, <1>7, <1>10 DEF KernelOK
==========================================================================
