--------------------------- MODULE Mutex_proofs --------------------------
(***************************************************************************)
(* Proofs about MutexKernel and MutexCeilings, for any number of tasks,    *)
(* priorities and mutexes: owners and their lists, wait queues, current    *)
(* priorities and scheduling stay consistent, whatever happens to a task   *)
(* that has, or waits for, a mutex; and an application that uses priority  *)
(* ceilings as they are meant never waits for a mutex.                     *)
(*                                                                         *)
(* The services are compositions of helpers, between which a task may be   *)
(* in no queue although its state says that it is in one, and a mutex in   *)
(* no list although it has an owner.  So the parts of the invariant are    *)
(* stated for a kernel state k with such tasks (X) and mutexes (M), shown  *)
(* to be kept by each helper, and hold with none for the state between     *)
(* service calls.                                                          *)
(***************************************************************************)
EXTENDS MutexCeilings, SchedLemmas

MSet ==
  [tcb : [Task -> TCB], ready_queue : [TPri -> Seq(Task)],
   ready_primap : SUBSET TPri, p_schedtsk : Task \cup {NULL},
   dspflg : BOOLEAN, tmevtb : SUBSET Task, asserted : BOOLEAN,
   wait_queue : [Mutex -> Seq(Task)], p_loctsk : [Mutex -> Task \cup {NULL}]]

(* The part of the state that the helpers of the ready queues work on.     *)
Core(k) ==
  [tcb |-> k.tcb, ready_queue |-> k.ready_queue,
   ready_primap |-> k.ready_primap, p_schedtsk |-> k.p_schedtsk,
   dspflg |-> k.dspflg, tmevtb |-> k.tmevtb, asserted |-> k.asserted]

With(k, c) ==
  [k EXCEPT !.tcb = c.tcb, !.ready_queue = c.ready_queue,
            !.ready_primap = c.ready_primap, !.p_schedtsk = c.p_schedtsk,
            !.dspflg = c.dspflg, !.tmevtb = c.tmevtb, !.asserted = c.asserted]

(* The same mutexes and wait queues.                                       *)
SameObjects(k, k2) == k2.wait_queue = k.wait_queue /\ k2.p_loctsk = k.p_loctsk

(* The parts that change_priority() and the others leave alone.            *)
SameSched(k, k2) ==
  /\ k2.ready_queue = k.ready_queue /\ k2.ready_primap = k.ready_primap
  /\ k2.p_schedtsk = k.p_schedtsk /\ k2.dspflg = k.dspflg

--------------------------------------------------------------------------
(* The helpers of the ready queues, on the larger state.                   *)
LEMMA CoreOK ==
  ASSUME NEW k \in MSet
  PROVE  /\ Core(k) \in KSet(TCB)
         /\ \A R : KInv(Core(k), R) <=> KInv(k, R)
         /\ \A R : ReadyOK(Core(k), R) <=> ReadyOK(k, R)
<1>1. Core(k) \in KSet(TCB)
  BY DEF Core, KSet, MSet
<1> DEFINE c == Core(k)
<1>2. /\ c.tcb = k.tcb /\ c.ready_queue = k.ready_queue
      /\ c.ready_primap = k.ready_primap /\ c.p_schedtsk = k.p_schedtsk
      /\ c.dspflg = k.dspflg
  BY DEF Core
<1> HIDE DEF c
<1>3. ASSUME NEW R
      PROVE  /\ KInv(c, R) <=> KInv(k, R)
             /\ ReadyOK(c, R) <=> ReadyOK(k, R)
  <2>1. ReadyOK(c, R) <=> ReadyOK(k, R)
    BY <1>2 DEF ReadyOK, AtPri
  <2>2. SchedOK(c, R) <=> SchedOK(k, R)
    BY <1>2 DEF SchedOK, IsFirst
  <2> QED BY <2>1, <2>2 DEF KInv
<1> QED BY <1>1, <1>3 DEF c

LEMMA WithOK ==
  ASSUME NEW k \in MSet, NEW c \in KSet(TCB)
  PROVE  /\ With(k, c) \in MSet
         /\ With(k, c).tcb = c.tcb
         /\ With(k, c).ready_queue = c.ready_queue
         /\ With(k, c).ready_primap = c.ready_primap
         /\ With(k, c).p_schedtsk = c.p_schedtsk
         /\ With(k, c).dspflg = c.dspflg
         /\ With(k, c).tmevtb = c.tmevtb
         /\ With(k, c).asserted = c.asserted
         /\ SameObjects(k, With(k, c))
         /\ \A R : KInv(c, R) <=> KInv(With(k, c), R)
<1> DEFINE k2 == With(k, c)
<1>1. /\ k2 \in MSet
      /\ k2.tcb = c.tcb /\ k2.ready_queue = c.ready_queue
      /\ k2.ready_primap = c.ready_primap /\ k2.p_schedtsk = c.p_schedtsk
      /\ k2.dspflg = c.dspflg /\ k2.tmevtb = c.tmevtb /\ k2.asserted = c.asserted
      /\ SameObjects(k, k2)
  BY DEF With, MSet, KSet, SameObjects
<1> HIDE DEF k2
<1>2. ASSUME NEW R PROVE KInv(c, R) <=> KInv(k2, R)
  <2>1. ReadyOK(c, R) <=> ReadyOK(k2, R)
    BY <1>1 DEF ReadyOK, AtPri
  <2>2. SchedOK(c, R) <=> SchedOK(k2, R)
    BY <1>1 DEF SchedOK, IsFirst
  <2> QED BY <2>1, <2>2 DEF KInv
<1> QED BY <1>1, <1>2 DEF k2

LEMMA OnCore ==
  ASSUME NEW k \in MSet, NEW t \in Task
  PROVE  /\ make_runnable(k, t) = With(k, make_runnable(Core(k), t))
         /\ make_non_runnable(k, t) = With(k, make_non_runnable(Core(k), t))
         /\ set_dspflg(k) = With(k, set_dspflg(Core(k)))
<1> DEFINE c == Core(k)
<1>0. /\ c.tcb = k.tcb /\ c.ready_queue = k.ready_queue
      /\ c.ready_primap = k.ready_primap /\ c.p_schedtsk = k.p_schedtsk
      /\ c.dspflg = k.dspflg /\ c.asserted = k.asserted
  BY DEF Core
<1>1. make_runnable(k, t) = With(k, make_runnable(c, t))
  <2> DEFINE pri == k.tcb[t].priority
             rq  == [k.ready_queue EXCEPT ![pri] = Append(@, t)]
             map == k.ready_primap \cup {pri}
             s   == IF k.dspflg /\ (k.p_schedtsk = NULL \/ pri < k.tcb[k.p_schedtsk].priority)
                    THEN t ELSE k.p_schedtsk
  <2>1. make_runnable(k, t) =
          [k EXCEPT !.ready_queue = rq, !.ready_primap = map, !.p_schedtsk = s]
    BY DEF make_runnable
  <2>2. make_runnable(c, t) =
          [c EXCEPT !.ready_queue = rq, !.ready_primap = map, !.p_schedtsk = s]
    BY DEF make_runnable, Core
  <2> HIDE DEF rq, map, s
  <2>3. [k EXCEPT !.ready_queue = rq, !.ready_primap = map, !.p_schedtsk = s]
          = With(k, [c EXCEPT !.ready_queue = rq, !.ready_primap = map,
                              !.p_schedtsk = s])
    BY DEF With, Core, MSet
  <2> QED BY <2>1, <2>2, <2>3, Zenon
<1>2. make_non_runnable(k, t) = With(k, make_non_runnable(c, t))
  <2> DEFINE pri == k.tcb[t].priority
             q   == RemoveFirst(k.ready_queue[pri], t)
             rq  == [k.ready_queue EXCEPT ![pri] = q]
             map == IF q = << >> THEN k.ready_primap \ {pri} ELSE k.ready_primap
             a   == k.asserted /\ k.dspflg
             s   == IF q # << >> THEN Head(q)
                    ELSE IF map = {} THEN NULL
                    ELSE Head(rq[primap_search(map)])
  <2>1. make_non_runnable(k, t) =
          IF k.p_schedtsk # t THEN [k EXCEPT !.ready_queue = rq, !.ready_primap = map]
          ELSE [k EXCEPT !.ready_queue = rq, !.ready_primap = map, !.asserted = a,
                         !.p_schedtsk = s]
    BY DEF make_non_runnable, search_schedtsk, MSet
  <2>2. make_non_runnable(c, t) =
          IF k.p_schedtsk # t THEN [c EXCEPT !.ready_queue = rq, !.ready_primap = map]
          ELSE [c EXCEPT !.ready_queue = rq, !.ready_primap = map, !.asserted = a,
                         !.p_schedtsk = s]
    BY DEF make_non_runnable, search_schedtsk, Core
  <2> HIDE DEF rq, map, s, a
  <2>3. /\ [k EXCEPT !.ready_queue = rq, !.ready_primap = map]
             = With(k, [c EXCEPT !.ready_queue = rq, !.ready_primap = map])
        /\ [k EXCEPT !.ready_queue = rq, !.ready_primap = map, !.asserted = a,
                     !.p_schedtsk = s]
             = With(k, [c EXCEPT !.ready_queue = rq, !.ready_primap = map,
                                 !.asserted = a, !.p_schedtsk = s])
    BY DEF With, Core, MSet
  <2> QED BY <2>1, <2>2, <2>3, Zenon
<1>3. set_dspflg(k) = With(k, set_dspflg(Core(k)))
  BY DEF set_dspflg, With, Core, MSet, search_schedtsk
<1> QED BY <1>1, <1>2, <1>3

LEMMA RequeueOnCore ==
  ASSUME NEW k \in MSet, NEW t \in Task, NEW old, NEW new, NEW mode
  PROVE  requeue(k, t, old, new, mode) = With(k, requeue(Core(k), t, old, new, mode))
<1> DEFINE c   == Core(k)
           q   == RemoveFirst(k.ready_queue[old], t)
           rq1 == [k.ready_queue EXCEPT ![old] = q]
           rq  == [rq1 EXCEPT ![new] = IF mode THEN Cons(t, @) ELSE Append(@, t)]
           map == (IF q = << >> THEN k.ready_primap \ {old} ELSE k.ready_primap) \cup {new}
           s   == IF k.p_schedtsk = t THEN Head(rq[primap_search(map)]) ELSE Head(rq[new])
           moves == /\ k.dspflg
                    /\ IF k.p_schedtsk = t THEN new >= old
                       ELSE new <= k.tcb[k.p_schedtsk].priority
<1>1. requeue(k, t, old, new, mode) =
        IF moves THEN [k EXCEPT !.ready_queue = rq, !.ready_primap = map, !.p_schedtsk = s]
        ELSE [k EXCEPT !.ready_queue = rq, !.ready_primap = map]
  BY DEF requeue, search_schedtsk, MSet
<1>2. requeue(c, t, old, new, mode) =
        IF moves THEN [c EXCEPT !.ready_queue = rq, !.ready_primap = map, !.p_schedtsk = s]
        ELSE [c EXCEPT !.ready_queue = rq, !.ready_primap = map]
  BY DEF requeue, search_schedtsk, Core
<1> HIDE DEF rq, map, s, moves
<1>3. /\ [k EXCEPT !.ready_queue = rq, !.ready_primap = map]
           = With(k, [c EXCEPT !.ready_queue = rq, !.ready_primap = map])
      /\ [k EXCEPT !.ready_queue = rq, !.ready_primap = map, !.p_schedtsk = s]
           = With(k, [c EXCEPT !.ready_queue = rq, !.ready_primap = map,
                               !.p_schedtsk = s])
  BY DEF With, Core, MSet
<1> QED BY <1>1, <1>2, <1>3, Zenon

--------------------------------------------------------------------------
(* What the flag words mean, as far as mutexes are concerned.              *)
Neutral(x) == ~TSTAT_WAIT_MTX(x) /\ ~TSTAT_WAIT_WOBJ(x) /\ ~TSTAT_WAIT_WOBJCB(x)

LEMMA Flags ==
  /\ TS_DORMANT \in TStat /\ TS_RUNNABLE \in TStat /\ TS_SUSPENDED \in TStat
  /\ TS_WAITING_MTX \in TStat /\ TS_WAITING_DLY \in TStat
  /\ TSTAT_DORMANT(TS_DORMANT) /\ TSTAT_RUNNABLE(TS_RUNNABLE)
  /\ ~TSTAT_DORMANT(TS_RUNNABLE) /\ ~TSTAT_DORMANT(TS_SUSPENDED)
  /\ ~TSTAT_RUNNABLE(TS_DORMANT) /\ ~TSTAT_RUNNABLE(TS_SUSPENDED)
  /\ ~TSTAT_RUNNABLE(TS_WAITING_MTX) /\ ~TSTAT_RUNNABLE(TS_WAITING_DLY)
  /\ ~TSTAT_WAITING(TS_DORMANT)
  /\ TSTAT_WAITING(TS_WAITING_MTX) /\ TSTAT_WAITING(TS_WAITING_DLY)
  /\ Neutral(TS_DORMANT) /\ Neutral(TS_RUNNABLE) /\ Neutral(TS_SUSPENDED)
  /\ Neutral(TS_WAITING_DLY)
  /\ TSTAT_WAIT_MTX(TS_WAITING_MTX)
  /\ \A x \in TStat :
       /\ TSTAT_SUSPENDED(x) => ~TSTAT_RUNNABLE(x) /\ ~TSTAT_DORMANT(x)
       /\ TSTAT_RUNNABLE(x) => ~TSTAT_WAITING(x) /\ ~TSTAT_DORMANT(x) /\ Neutral(x)
       /\ TSTAT_DORMANT(x) => Neutral(x)
       /\ TSTAT_WAITING(x) => ~TSTAT_DORMANT(x) /\ ~TSTAT_RUNNABLE(x)
       /\ TSTAT_WAIT_WOBJ(x) => TSTAT_WAITING(x)
       /\ TSTAT_WAIT_MTX(x) => TSTAT_WAIT_WOBJ(x) /\ TSTAT_WAIT_WOBJCB(x)
       /\ TSTAT_WAIT_WOBJCB(x) => TSTAT_WAIT_WOBJ(x)
       /\ ~TSTAT_DORMANT(x) /\ ~TSTAT_RUNNABLE(x) /\ ~TSTAT_SUSPENDED(x)
            => TSTAT_WAITING(x)
       /\ ~TSTAT_WAITING(x) => Neutral(x)
<1>1. \A f \in WaitFactor : f # "RUNNABLE" /\ f # "SUSPENDED"
  BY DEF WaitFactor, WobjFactor, WobjcbFactor
<1>2. "WAITING_MTX" \in WobjcbFactor /\ "WAITING_DLY" \notin WobjFactor
      /\ "WAITING_DLY" \in WaitFactor
      /\ WobjcbFactor \subseteq WobjFactor /\ WobjFactor \subseteq WaitFactor
  BY DEF WaitFactor, WobjFactor, WobjcbFactor
<1>3. ASSUME NEW x \in TStat
      PROVE  \/ x = {} \/ x = {"RUNNABLE"} \/ x = {"SUSPENDED"}
             \/ \E f \in WaitFactor : x = {f} \/ x = {f, "SUSPENDED"}
  BY DEF TStat, TS_DORMANT, TS_RUNNABLE, TS_SUSPENDED
<1>4. ASSUME NEW x \in TStat
      PROVE  /\ TSTAT_SUSPENDED(x) => ~TSTAT_RUNNABLE(x) /\ ~TSTAT_DORMANT(x)
             /\ TSTAT_RUNNABLE(x) => ~TSTAT_WAITING(x) /\ ~TSTAT_DORMANT(x)
             /\ TSTAT_WAITING(x) => ~TSTAT_DORMANT(x) /\ ~TSTAT_RUNNABLE(x)
             /\ TSTAT_WAIT_WOBJ(x) => TSTAT_WAITING(x)
             /\ TSTAT_WAIT_MTX(x) => TSTAT_WAIT_WOBJ(x) /\ TSTAT_WAIT_WOBJCB(x)
             /\ TSTAT_WAIT_WOBJCB(x) => TSTAT_WAIT_WOBJ(x)
             /\ ~TSTAT_DORMANT(x) /\ ~TSTAT_RUNNABLE(x) /\ ~TSTAT_SUSPENDED(x)
                  => TSTAT_WAITING(x)
  BY <1>1, <1>2, <1>3 DEF TSTAT_RUNNABLE, TSTAT_WAITING, TSTAT_DORMANT,
       TSTAT_SUSPENDED, TSTAT_WAIT_MTX, TSTAT_WAIT_WOBJ, TSTAT_WAIT_WOBJCB, TS_DORMANT
<1>5. ASSUME NEW x \in TStat, ~TSTAT_WAITING(x) PROVE Neutral(x)
  BY <1>4, <1>5 DEF Neutral
<1>6. /\ TS_DORMANT \in TStat /\ TS_RUNNABLE \in TStat /\ TS_SUSPENDED \in TStat
      /\ TS_WAITING_MTX \in TStat /\ TS_WAITING_DLY \in TStat
  BY <1>2 DEF TStat, TS_WAITING_MTX, TS_WAITING_DLY
<1>7. /\ TSTAT_DORMANT(TS_DORMANT) /\ TSTAT_RUNNABLE(TS_RUNNABLE)
      /\ ~TSTAT_DORMANT(TS_RUNNABLE) /\ ~TSTAT_DORMANT(TS_SUSPENDED)
      /\ ~TSTAT_RUNNABLE(TS_DORMANT) /\ ~TSTAT_RUNNABLE(TS_SUSPENDED)
      /\ ~TSTAT_RUNNABLE(TS_WAITING_MTX) /\ ~TSTAT_RUNNABLE(TS_WAITING_DLY)
      /\ TSTAT_WAIT_MTX(TS_WAITING_MTX)
  BY DEF TSTAT_RUNNABLE, TSTAT_DORMANT, TSTAT_WAIT_MTX, TS_RUNNABLE, TS_DORMANT,
       TS_SUSPENDED, TS_WAITING_MTX, TS_WAITING_DLY
<1>8. /\ ~TSTAT_WAITING(TS_DORMANT) /\ ~TSTAT_WAITING(TS_RUNNABLE)
      /\ ~TSTAT_WAITING(TS_SUSPENDED)
      /\ TSTAT_WAITING(TS_WAITING_MTX) /\ TSTAT_WAITING(TS_WAITING_DLY)
  BY <1>1, <1>2 DEF TSTAT_WAITING, TS_RUNNABLE, TS_DORMANT, TS_SUSPENDED,
       TS_WAITING_MTX, TS_WAITING_DLY
<1>9. Neutral(TS_WAITING_DLY)
  BY <1>2 DEF Neutral, TSTAT_WAIT_MTX, TSTAT_WAIT_WOBJ, TSTAT_WAIT_WOBJCB,
       TS_WAITING_DLY
<1>10. Neutral(TS_DORMANT) /\ Neutral(TS_RUNNABLE) /\ Neutral(TS_SUSPENDED)
  BY <1>5, <1>6, <1>8
<1>11. \A x \in TStat : /\ TSTAT_RUNNABLE(x) => Neutral(x)
                        /\ TSTAT_DORMANT(x) => Neutral(x)
  BY <1>4, <1>5
<1> QED BY <1>4, <1>5, <1>6, <1>7, <1>8, <1>9, <1>10, <1>11

(* A waiting task waits for the same when it is suspended and resumed.     *)
LEMMA DoubleWait ==
  ASSUME NEW x \in TStat, TSTAT_WAITING(x),
         NEW y, y = x \cup TS_SUSPENDED \/ y = x \ TS_SUSPENDED
  PROVE  /\ y \in TStat
         /\ TSTAT_WAITING(y)
         /\ TSTAT_WAIT_MTX(y) <=> TSTAT_WAIT_MTX(x)
         /\ TSTAT_WAIT_WOBJ(y) <=> TSTAT_WAIT_WOBJ(x)
<1>1. /\ \A f \in WaitFactor : f # "RUNNABLE" /\ f # "SUSPENDED"
      /\ WobjFactor \subseteq WaitFactor /\ "WAITING_MTX" \in WaitFactor
  BY DEF WaitFactor, WobjFactor, WobjcbFactor
<1>2. PICK f \in WaitFactor : x = {f} \/ x = {f, "SUSPENDED"}
  BY <1>1 DEF TStat, TSTAT_WAITING, TS_DORMANT, TS_RUNNABLE, TS_SUSPENDED
<1>3. y = {f} \/ y = {f, "SUSPENDED"}
  BY <1>1, <1>2 DEF TS_SUSPENDED
<1>4. y \in TStat
  BY <1>3 DEF TStat
<1> QED BY <1>1, <1>2, <1>3, <1>4 DEF TSTAT_WAITING, TSTAT_WAIT_MTX, TSTAT_WAIT_WOBJ

--------------------------------------------------------------------------
(* Task control blocks.                                                    *)
LEMMA TCBFields ==
  ASSUME NEW x \in TCB
  PROVE  /\ \A b \in BOOLEAN : [x EXCEPT !.boosted = b] \in TCB
         /\ \A p \in TPri : /\ [x EXCEPT !.bpriority = p] \in TCB
                           /\ [x EXCEPT !.priority = p] \in TCB
         /\ \A s \in TStat : [x EXCEPT !.tstat = s] \in TCB
         /\ \A w \in Mutex : [x EXCEPT !.wobj = w] \in TCB
         /\ \A l \in Seq(Mutex) : [x EXCEPT !.p_lastmtx = l] \in TCB
<1>1. \A b \in BOOLEAN : [x EXCEPT !.boosted = b] \in TCB
  BY DEF TCB
<1>2. \A p \in TPri : [x EXCEPT !.bpriority = p] \in TCB /\ [x EXCEPT !.priority = p] \in TCB
  BY DEF TCB
<1>3. \A s \in TStat : [x EXCEPT !.tstat = s] \in TCB
  BY DEF TCB
<1>4. \A w \in Mutex : [x EXCEPT !.wobj = w] \in TCB
  BY DEF TCB
<1>5. \A l \in Seq(Mutex) : [x EXCEPT !.p_lastmtx = l] \in TCB
  BY DEF TCB
<1> QED BY <1>1, <1>2, <1>3, <1>4, <1>5

(* One task control block is replaced.                                     *)
Put(k, t, r) == [k EXCEPT !.tcb = [k.tcb EXCEPT ![t] = r]]

LEMMA PutOK ==
  ASSUME NEW k \in MSet, NEW t \in Task, NEW r \in TCB
  PROVE  /\ Put(k, t, r) \in MSet
         /\ SameSched(k, Put(k, t, r)) /\ SameObjects(k, Put(k, t, r))
         /\ Put(k, t, r).tmevtb = k.tmevtb
         /\ Put(k, t, r).asserted = k.asserted
         /\ Put(k, t, r).tcb[t] = r
         /\ \A u \in Task \ {t} : Put(k, t, r).tcb[u] = k.tcb[u]
<1> DEFINE c == [k.tcb EXCEPT ![t] = r]
<1>1. /\ c \in [Task -> TCB] /\ c[t] = r
      /\ \A u \in Task \ {t} : c[u] = k.tcb[u]
  BY DEF MSet
<1> HIDE DEF c
<1>2. LET k2 == [k EXCEPT !.tcb = c] IN
      /\ k2 \in MSet /\ k2.tcb = c
      /\ SameSched(k, k2) /\ SameObjects(k, k2)
      /\ k2.tmevtb = k.tmevtb /\ k2.asserted = k.asserted
  BY <1>1 DEF MSet, SameSched, SameObjects
<1> QED BY <1>1, <1>2 DEF c, Put

LEMMA PutFields ==
  ASSUME NEW k \in MSet, NEW t \in Task
  PROVE  /\ \A s : set_tstat(k, t, s) = Put(k, t, [k.tcb[t] EXCEPT !.tstat = s])
         /\ \A p : [k EXCEPT !.tcb[t].priority = p]
                     = Put(k, t, [k.tcb[t] EXCEPT !.priority = p])
         /\ \A p : [k EXCEPT !.tcb[t].bpriority = p]
                     = Put(k, t, [k.tcb[t] EXCEPT !.bpriority = p])
         /\ \A b : [k EXCEPT !.tcb[t].boosted = b]
                     = Put(k, t, [k.tcb[t] EXCEPT !.boosted = b])
         /\ \A l : [k EXCEPT !.tcb[t].p_lastmtx = l]
                     = Put(k, t, [k.tcb[t] EXCEPT !.p_lastmtx = l])
BY DEF Put, set_tstat

(* A change of the flag word alone.                                        *)
LEMMA SetTstat ==
  ASSUME NEW k \in MSet, NEW t \in Task, NEW s \in TStat
  PROVE  LET r == [k.tcb[t] EXCEPT !.tstat = s]
         IN  /\ set_tstat(k, t, s) = Put(k, t, r)
             /\ r \in TCB
             /\ r.tstat = s /\ r.wobj = k.tcb[t].wobj
             /\ r.priority = k.tcb[t].priority /\ r.bpriority = k.tcb[t].bpriority
             /\ r.boosted = k.tcb[t].boosted /\ r.p_lastmtx = k.tcb[t].p_lastmtx
<1> DEFINE x == k.tcb[t]
<1>1. x \in TCB
  BY DEF MSet
<1>2. set_tstat(k, t, s) = Put(k, t, [x EXCEPT !.tstat = s])
  BY PutFields
<1> HIDE DEF x
<1>3. LET r == [x EXCEPT !.tstat = s]
      IN  /\ r \in TCB
          /\ r.tstat = s /\ r.wobj = x.wobj
          /\ r.priority = x.priority /\ r.bpriority = x.bpriority
          /\ r.boosted = x.boosted /\ r.p_lastmtx = x.p_lastmtx
  BY <1>1 DEF TCB
<1> QED BY <1>2, <1>3 DEF x

(* A wait queue is replaced.                                               *)
PutQueue(k, m, q) == [k EXCEPT !.wait_queue = [k.wait_queue EXCEPT ![m] = q]]

LEMMA PutQueueOK ==
  ASSUME NEW k \in MSet, NEW m \in Mutex, NEW q \in Seq(Task)
  PROVE  /\ PutQueue(k, m, q) \in MSet
         /\ SameSched(k, PutQueue(k, m, q))
         /\ PutQueue(k, m, q).tcb = k.tcb
         /\ PutQueue(k, m, q).p_loctsk = k.p_loctsk
         /\ PutQueue(k, m, q).tmevtb = k.tmevtb
         /\ PutQueue(k, m, q).asserted = k.asserted
         /\ PutQueue(k, m, q).wait_queue[m] = q
         /\ \A n \in Mutex \ {m} : PutQueue(k, m, q).wait_queue[n] = k.wait_queue[n]
<1> DEFINE w == [k.wait_queue EXCEPT ![m] = q]
<1>1. /\ w \in [Mutex -> Seq(Task)] /\ w[m] = q
      /\ \A n \in Mutex \ {m} : w[n] = k.wait_queue[n]
  BY DEF MSet
<1> HIDE DEF w
<1>2. LET k2 == [k EXCEPT !.wait_queue = w] IN
      /\ k2 \in MSet /\ k2.wait_queue = w
      /\ SameSched(k, k2) /\ k2.tcb = k.tcb /\ k2.p_loctsk = k.p_loctsk
      /\ k2.tmevtb = k.tmevtb /\ k2.asserted = k.asserted
  BY <1>1 DEF MSet, SameSched
<1> QED BY <1>1, <1>2 DEF w, PutQueue

--------------------------------------------------------------------------
(* The queues.  The tasks of X are in transit: they are in no queue,       *)
(* whatever their flag words say.                                          *)
Waits(r, m) == TSTAT_WAIT_MTX(r.tstat) /\ r.wobj = m

Queued(k, X) == {t \in Task \ X : TSTAT_RUNNABLE(k.tcb[t].tstat)}

Waiters(k, X, m) == {t \in Task \ X : Waits(k.tcb[t], m)}

(* The application waits for no other object.                              *)
WobjOK(r) == TSTAT_WAIT_WOBJ(r.tstat) => TSTAT_WAIT_MTX(r.tstat) /\ r.wobj \in Mutex

(* The ready queues hold the tasks R, which differ from Queued(k, X) when  *)
(* a flag word is set before its task moves.                               *)
QueuesOK(k, R, X) ==
  /\ k \in MSet
  /\ KInv(k, R)
  /\ \A m \in Mutex : WaitQueueOK(TPRI, k, m, k.wait_queue[m], Waiters(k, X, m))
  /\ \A t \in Task \ X : WobjOK(k.tcb[t])
  /\ \A t \in k.tmevtb : TSTAT_WAITING(k.tcb[t].tstat)
  /\ k.asserted = TRUE

Tidy(k, X) == QueuesOK(k, Queued(k, X), X)

(* k2 follows k in one critical section: a task that has disabled          *)
(* dispatching keeps the processor.                                        *)
Follows(k, k2) ==
  /\ k2.dspflg = k.dspflg
  /\ ~k.dspflg => k2.p_schedtsk = k.p_schedtsk

(* Tasks have moved between queues and transit, and nothing else changed.  *)
Moves(k, k2) ==
  /\ Follows(k, k2)
  /\ k2.tcb = k.tcb /\ k2.p_loctsk = k.p_loctsk /\ k2.tmevtb = k.tmevtb

LEMMA TcbType ==
  ASSUME NEW k \in MSet, NEW t \in Task
  PROVE  /\ k.tcb[t] \in TCB
         /\ k.tcb[t].tstat \in TStat
         /\ k.tcb[t].priority \in TPri /\ k.tcb[t].bpriority \in TPri
         /\ k.tcb[t].boosted \in BOOLEAN
         /\ k.tcb[t].p_lastmtx \in Seq(Mutex)
         /\ k.tcb[t].wobj \in Mutex \cup {NULL}
<1>1. k.tcb[t] \in TCB
  BY DEF MSet
<1> QED BY <1>1 DEF TCB

(* The ready queues depend on the priorities of the queued tasks alone.    *)
LEMMA SameReady ==
  ASSUME NEW k \in MSet, NEW R, KInv(k, R), NEW k2 \in MSet, SameSched(k, k2),
         \A t \in R : k2.tcb[t].priority = k.tcb[t].priority
  PROVE  KInv(k2, R)
<1>1. R \subseteq Task
  BY DEF KInv, ReadyOK
<1>2. \A p \in TPri : AtPri(k2, R, p) = AtPri(k, R, p)
  BY <1>1 DEF AtPri
<1>3. \A t \in Task : k2.tcb[t].priority \in TPri
  BY TcbType
<1>4. ReadyOK(k2, R)
  BY <1>1, <1>2, <1>3 DEF KInv, ReadyOK, SameSched
<1>5. SchedOK(k2, R)
  BY <1>1 DEF KInv, SchedOK, IsFirst, SameSched
<1> QED BY <1>4, <1>5 DEF KInv

(* A change of what the queues do not depend on.                           *)
Quiet(k, R, X, k2, X2) ==
  /\ k2 \in MSet /\ SameSched(k, k2) /\ k2.wait_queue = k.wait_queue
  /\ \A t \in R : k2.tcb[t].priority = k.tcb[t].priority
  /\ \A m \in Mutex : Waiters(k2, X2, m) = Waiters(k, X, m)
  /\ \A m \in Mutex : \A t \in Waiters(k, X, m) :
       k2.tcb[t].priority = k.tcb[t].priority
  /\ \A t \in Task \ X2 : WobjOK(k2.tcb[t])
  /\ \A t \in k2.tmevtb : TSTAT_WAITING(k2.tcb[t].tstat)
  /\ k2.asserted = TRUE

LEMMA QuietChange ==
  ASSUME NEW k, NEW R, NEW X, QueuesOK(k, R, X), NEW k2, NEW X2,
         Quiet(k, R, X, k2, X2)
  PROVE  QueuesOK(k2, R, X2) /\ Follows(k, k2)
<1>1. KInv(k2, R)
  BY SameReady DEF QueuesOK, Quiet
<1>2. \A m \in Mutex : WaitQueueOK(TPRI, k2, m, k2.wait_queue[m], Waiters(k2, X2, m))
  <2>1. TAKE m \in Mutex
  <2>2. WaitQueueOK(TPRI, k, m, k.wait_queue[m], Waiters(k, X, m))
    BY DEF QueuesOK
  <2>3. WaitQueueOK(TPRI, k2, m, k.wait_queue[m], Waiters(k, X, m))
    BY <2>2, WaitQueueSame DEF Quiet
  <2> QED BY <2>3 DEF Quiet
<1> QED BY <1>1, <1>2 DEF QueuesOK, Follows, SameSched, Quiet

(* A task control block is replaced by one with the same meaning for the   *)
(* queues, or that of a task in transit by any other.                      *)
LEMMA PutQuiet ==
  ASSUME NEW k, NEW X, Tidy(k, X), NEW t \in Task, NEW r \in TCB,
         \/ t \in X
         \/ /\ r.priority = k.tcb[t].priority
            /\ TSTAT_RUNNABLE(r.tstat) <=> TSTAT_RUNNABLE(k.tcb[t].tstat)
            /\ \A m \in Mutex : Waits(r, m) <=> Waits(k.tcb[t], m)
            /\ WobjOK(r),
         t \in k.tmevtb => TSTAT_WAITING(r.tstat)
  PROVE  Tidy(Put(k, t, r), X) /\ Follows(k, Put(k, t, r))
<1> DEFINE k2 == Put(k, t, r)
<1>1. /\ k2 \in MSet /\ SameSched(k, k2) /\ SameObjects(k, k2)
      /\ k2.tmevtb = k.tmevtb /\ k2.asserted = k.asserted
      /\ k2.tcb[t] = r
      /\ \A u \in Task \ {t} : k2.tcb[u] = k.tcb[u]
  BY PutOK DEF Tidy, QueuesOK
<1> HIDE DEF k2
<1>2. \A u \in Task \ X :
        /\ k2.tcb[u].priority = k.tcb[u].priority
        /\ TSTAT_RUNNABLE(k2.tcb[u].tstat) <=> TSTAT_RUNNABLE(k.tcb[u].tstat)
        /\ \A m \in Mutex : Waits(k2.tcb[u], m) <=> Waits(k.tcb[u], m)
        /\ WobjOK(k2.tcb[u])
  BY <1>1 DEF Tidy, QueuesOK
<1>3. Queued(k2, X) = Queued(k, X)
  BY <1>2 DEF Queued
<1>4. \A m \in Mutex : Waiters(k2, X, m) = Waiters(k, X, m)
  BY <1>2 DEF Waiters
<1>5. \A u \in k2.tmevtb : TSTAT_WAITING(k2.tcb[u].tstat)
  BY <1>1 DEF Tidy, QueuesOK, MSet
<1>6. QueuesOK(k2, Queued(k, X), X) /\ Follows(k, k2)
  <2>1. \A u \in Queued(k, X) : k2.tcb[u].priority = k.tcb[u].priority
    BY <1>2 DEF Queued
  <2>2. \A m \in Mutex : \A u \in Waiters(k, X, m) :
           k2.tcb[u].priority = k.tcb[u].priority
    BY <1>2 DEF Waiters
  <2>3. k2.wait_queue = k.wait_queue /\ k2.asserted = TRUE
    BY <1>1 DEF Tidy, QueuesOK, SameObjects
  <2>4. \A u \in Task \ X : WobjOK(k2.tcb[u])
    BY <1>2
  <2>5. Quiet(k, Queued(k, X), X, k2, X)
    BY <1>1, <1>4, <1>5, <2>1, <2>2, <2>3, <2>4 DEF Quiet
  <2> QED BY <2>5, QuietChange DEF Tidy
<1> QED BY <1>3, <1>6 DEF Tidy, k2

(* A task in transit enters the ready queue.                               *)
LEMMA EntersReady ==
  ASSUME NEW k, NEW X, Tidy(k, X), NEW t \in X, t \in Task,
         TSTAT_RUNNABLE(k.tcb[t].tstat)
  PROVE  LET k2 == make_runnable(k, t)
         IN  /\ Tidy(k2, X \ {t}) /\ Follows(k, k2)
             /\ k2.tcb = k.tcb /\ SameObjects(k, k2) /\ k2.tmevtb = k.tmevtb
<1> DEFINE c  == Core(k)
           c2 == make_runnable(c, t)
           k2 == make_runnable(k, t)
           R  == Queued(k, X)
<1>1. k \in MSet /\ KInv(k, R) /\ t \notin R
  BY DEF Tidy, QueuesOK, Queued
<1>2. c \in KSet(TCB) /\ KInv(c, R)
  BY <1>1, CoreOK
<1>3. /\ c.tcb = k.tcb /\ c.tmevtb = k.tmevtb /\ c.asserted = k.asserted
      /\ c.dspflg = k.dspflg /\ c.p_schedtsk = k.p_schedtsk
  BY DEF Core
<1>4. k2 = With(k, c2)
  BY <1>1, OnCore
<1> HIDE DEF R, c, k2
<1>5. /\ c2 \in KSet(TCB) /\ KInv(c2, R \cup {t}) /\ Same(c, c2)
      /\ ~c.dspflg => c2.p_schedtsk = c.p_schedtsk
  BY <1>1, <1>2, MakeRunnable
<1> HIDE DEF c2
<1>6. /\ k2 \in MSet
      /\ k2.tcb = k.tcb /\ k2.tmevtb = k.tmevtb /\ k2.asserted = k.asserted
      /\ SameObjects(k, k2) /\ Follows(k, k2)
      /\ KInv(k2, R \cup {t})
  BY <1>1, <1>3, <1>4, <1>5, WithOK DEF Same, Follows
<1>7. k.tcb[t].tstat \in TStat
  BY <1>1, TcbType
<1>8. Queued(k2, X \ {t}) = R \cup {t}
  BY <1>6 DEF Queued, R
<1>9. Neutral(k.tcb[t].tstat)
  BY <1>7, Flags
<1>10. \A m \in Mutex : Waiters(k2, X \ {t}, m) = Waiters(k, X, m)
  BY <1>6, <1>9 DEF Waiters, Waits, Neutral
<1>11. \A m \in Mutex : WaitQueueOK(TPRI, k2, m, k2.wait_queue[m], Waiters(k2, X \ {t}, m))
  <2>1. TAKE m \in Mutex
  <2>2. WaitQueueOK(TPRI, k, m, k.wait_queue[m], Waiters(k, X, m))
    BY DEF Tidy, QueuesOK
  <2>3. WaitQueueOK(TPRI, k2, m, k.wait_queue[m], Waiters(k, X, m))
    BY <1>6, <2>2, WaitQueueSame
  <2> QED BY <1>6, <1>10, <2>3 DEF SameObjects
<1>12. \A u \in Task \ (X \ {t}) : WobjOK(k2.tcb[u])
  BY <1>6, <1>9 DEF Tidy, QueuesOK, WobjOK, Neutral
<1>13. \A u \in k2.tmevtb : TSTAT_WAITING(k2.tcb[u].tstat)
  BY <1>6 DEF Tidy, QueuesOK
<1>14. k2.asserted = TRUE
  BY <1>6 DEF Tidy, QueuesOK
<1> QED BY <1>6, <1>8, <1>11, <1>12, <1>13, <1>14 DEF Tidy, QueuesOK, k2

(* A task leaves the ready queue.                                          *)
LEMMA LeavesReady ==
  ASSUME NEW k, NEW R, NEW X, QueuesOK(k, R, X), NEW t \in R,
         k.p_schedtsk = t => k.dspflg
  PROVE  LET k2 == make_non_runnable(k, t)
         IN  /\ QueuesOK(k2, R \ {t}, X) /\ Follows(k, k2)
             /\ k2.tcb = k.tcb /\ SameObjects(k, k2) /\ k2.tmevtb = k.tmevtb
<1> DEFINE c  == Core(k)
           c2 == make_non_runnable(c, t)
           k2 == make_non_runnable(k, t)
<1>1. k \in MSet /\ KInv(k, R) /\ t \in Task
  BY DEF QueuesOK, KInv, ReadyOK
<1>2. c \in KSet(TCB) /\ KInv(c, R)
  BY <1>1, CoreOK
<1>3. /\ c.tcb = k.tcb /\ c.tmevtb = k.tmevtb /\ c.asserted = k.asserted
      /\ c.dspflg = k.dspflg /\ c.p_schedtsk = k.p_schedtsk
  BY DEF Core
<1>4. k2 = With(k, c2)
  BY <1>1, OnCore
<1> HIDE DEF c, k2
<1>5. /\ c2 \in KSet(TCB) /\ KInv(c2, R \ {t}) /\ Same(c, c2)
      /\ c.p_schedtsk # t => c2.p_schedtsk = c.p_schedtsk
  BY <1>2, <1>3, MakeNonRunnable
<1> HIDE DEF c2
<1>6. /\ k2 \in MSet
      /\ k2.tcb = k.tcb /\ k2.tmevtb = k.tmevtb /\ k2.asserted = k.asserted
      /\ SameObjects(k, k2) /\ Follows(k, k2)
      /\ KInv(k2, R \ {t})
  BY <1>1, <1>3, <1>4, <1>5, WithOK DEF Same, Follows
<1>7. \A m \in Mutex : Waiters(k2, X, m) = Waiters(k, X, m)
  BY <1>6 DEF Waiters
<1>8. \A m \in Mutex : WaitQueueOK(TPRI, k2, m, k2.wait_queue[m], Waiters(k2, X, m))
  <2>1. TAKE m \in Mutex
  <2>2. WaitQueueOK(TPRI, k, m, k.wait_queue[m], Waiters(k, X, m))
    BY DEF QueuesOK
  <2>3. WaitQueueOK(TPRI, k2, m, k.wait_queue[m], Waiters(k, X, m))
    BY <1>6, <2>2, WaitQueueSame
  <2> QED BY <1>6, <1>7, <2>3 DEF SameObjects
<1> QED BY <1>6, <1>8 DEF QueuesOK, k2

(* Tasks leave a wait queue for transit.                                   *)
LEMMA LeaveQueue ==
  ASSUME NEW k, NEW X, Tidy(k, X), NEW m \in Mutex, NEW S, S \subseteq Waiters(k, X, m),
         NEW q, WaitQueueOK(TPRI, k, m, q, Waiters(k, X, m) \ S)
  PROVE  LET k2 == PutQueue(k, m, q)
         IN  /\ Tidy(k2, X \cup S) /\ Moves(k, k2)
<1> DEFINE k2 == PutQueue(k, m, q)
           X2 == X \cup S
<1>1. q \in Seq(Task)
  <2>1. QueueOf(q, Waiters(k, X, m) \ S)
    BY DEF WaitQueueOK
  <2>2. Waiters(k, X, m) \ S \subseteq Task
    BY DEF Waiters
  <2> QED BY <2>1, <2>2, QueueIn
<1>2. /\ k2 \in MSet /\ SameSched(k, k2) /\ k2.tcb = k.tcb
      /\ k2.p_loctsk = k.p_loctsk /\ k2.tmevtb = k.tmevtb
      /\ k2.asserted = k.asserted /\ k2.wait_queue[m] = q
      /\ \A n \in Mutex \ {m} : k2.wait_queue[n] = k.wait_queue[n]
  BY <1>1, PutQueueOK DEF Tidy, QueuesOK
<1> HIDE DEF k2
<1>3. \A u \in S : u \in Task /\ Waits(k.tcb[u], m) /\ ~TSTAT_RUNNABLE(k.tcb[u].tstat)
  <2>1. TAKE u \in S
  <2>2. u \in Task /\ Waits(k.tcb[u], m)
    BY DEF Waiters
  <2>3. k.tcb[u].tstat \in TStat
    BY <2>2, TcbType DEF Tidy, QueuesOK
  <2> QED BY <2>2, <2>3, Flags DEF Waits
<1>4. Queued(k2, X2) = Queued(k, X)
  BY <1>2, <1>3 DEF Queued
<1>5. KInv(k2, Queued(k, X))
  BY <1>2, SameReady DEF Tidy, QueuesOK
<1>6. Waiters(k2, X2, m) = Waiters(k, X, m) \ S
  BY <1>2 DEF Waiters
<1>7. \A n \in Mutex \ {m} : Waiters(k2, X2, n) = Waiters(k, X, n)
  BY <1>2, <1>3 DEF Waiters, Waits
<1>8. \A n \in Mutex : WaitQueueOK(TPRI, k2, n, k2.wait_queue[n], Waiters(k2, X2, n))
  <2>1. WaitQueueOK(TPRI, k2, m, q, Waiters(k, X, m) \ S)
    BY <1>2, WaitQueueSame
  <2>2. ASSUME NEW n \in Mutex \ {m}
        PROVE  WaitQueueOK(TPRI, k2, n, k.wait_queue[n], Waiters(k, X, n))
    <3>1. WaitQueueOK(TPRI, k, n, k.wait_queue[n], Waiters(k, X, n))
      BY DEF Tidy, QueuesOK
    <3> QED BY <1>2, <3>1, WaitQueueSame
  <2> QED BY <1>2, <1>6, <1>7, <2>1, <2>2
<1>9. /\ \A u \in Task \ X2 : WobjOK(k2.tcb[u])
      /\ \A u \in k2.tmevtb : TSTAT_WAITING(k2.tcb[u].tstat)
      /\ k2.asserted = TRUE
  BY <1>2 DEF Tidy, QueuesOK
<1> QED BY <1>2, <1>4, <1>5, <1>8, <1>9 DEF Tidy, QueuesOK, Follows, Moves, SameSched, k2

(* A task in transit that waits for a mutex enters its queue.              *)
LEMMA EntersQueue ==
  ASSUME NEW k, NEW X, Tidy(k, X), NEW m \in Mutex, NEW t \in X, t \in Task,
         Waits(k.tcb[t], m), NEW q,
         WaitQueueOK(TPRI, k, m, q, Waiters(k, X, m) \cup {t})
  PROVE  LET k2 == PutQueue(k, m, q)
         IN  /\ Tidy(k2, X \ {t}) /\ Moves(k, k2)
<1> DEFINE k2 == PutQueue(k, m, q)
           X2 == X \ {t}
<1>1. q \in Seq(Task)
  <2>1. QueueOf(q, Waiters(k, X, m) \cup {t})
    BY DEF WaitQueueOK
  <2>2. Waiters(k, X, m) \cup {t} \subseteq Task
    BY DEF Waiters
  <2> QED BY <2>1, <2>2, QueueIn
<1>2. /\ k2 \in MSet /\ SameSched(k, k2) /\ k2.tcb = k.tcb
      /\ k2.p_loctsk = k.p_loctsk /\ k2.tmevtb = k.tmevtb
      /\ k2.asserted = k.asserted /\ k2.wait_queue[m] = q
      /\ \A n \in Mutex \ {m} : k2.wait_queue[n] = k.wait_queue[n]
  BY <1>1, PutQueueOK DEF Tidy, QueuesOK
<1> HIDE DEF k2
<1>3. ~TSTAT_RUNNABLE(k.tcb[t].tstat)
  <2>1. k.tcb[t].tstat \in TStat
    BY TcbType DEF Tidy, QueuesOK
  <2> QED BY <2>1, Flags DEF Waits
<1>4. Queued(k2, X2) = Queued(k, X)
  BY <1>2, <1>3 DEF Queued
<1>5. KInv(k2, Queued(k, X))
  BY <1>2, SameReady DEF Tidy, QueuesOK
<1>6. Waiters(k2, X2, m) = Waiters(k, X, m) \cup {t}
  BY <1>2 DEF Waiters
<1>7. \A n \in Mutex \ {m} : Waiters(k2, X2, n) = Waiters(k, X, n)
  BY <1>2 DEF Waiters, Waits
<1>8. \A n \in Mutex : WaitQueueOK(TPRI, k2, n, k2.wait_queue[n], Waiters(k2, X2, n))
  <2>1. WaitQueueOK(TPRI, k2, m, q, Waiters(k, X, m) \cup {t})
    BY <1>2, WaitQueueSame
  <2>2. ASSUME NEW n \in Mutex \ {m}
        PROVE  WaitQueueOK(TPRI, k2, n, k.wait_queue[n], Waiters(k, X, n))
    <3>1. WaitQueueOK(TPRI, k, n, k.wait_queue[n], Waiters(k, X, n))
      BY DEF Tidy, QueuesOK
    <3> QED BY <1>2, <3>1, WaitQueueSame
  <2> QED BY <1>2, <1>6, <1>7, <2>1, <2>2
<1>9. /\ \A u \in Task \ X2 : WobjOK(k2.tcb[u])
      /\ \A u \in k2.tmevtb : TSTAT_WAITING(k2.tcb[u].tstat)
      /\ k2.asserted = TRUE
  BY <1>2 DEF Tidy, QueuesOK, WobjOK, Waits
<1> QED BY <1>2, <1>4, <1>5, <1>8, <1>9 DEF Tidy, QueuesOK, Follows, Moves, SameSched, k2

(* A task that is in no queue may as well be in transit.                   *)
LEMMA MayLeave ==
  ASSUME NEW k, NEW X, Tidy(k, X), NEW t \in Task, t \notin X,
         ~TSTAT_RUNNABLE(k.tcb[t].tstat), ~TSTAT_WAIT_MTX(k.tcb[t].tstat)
  PROVE  Tidy(k, X \cup {t})
<1>1. Queued(k, X \cup {t}) = Queued(k, X)
  BY DEF Queued
<1>2. \A m \in Mutex : Waiters(k, X \cup {t}, m) = Waiters(k, X, m)
  BY DEF Waiters, Waits
<1> QED BY <1>1, <1>2 DEF Tidy, QueuesOK

(* A task leaves the wait queue it is in, if any.                          *)
LEMMA DequeueWobj ==
  ASSUME NEW k, NEW X, Tidy(k, X), NEW t \in Task, t \notin X,
         ~TSTAT_RUNNABLE(k.tcb[t].tstat)
  PROVE  LET k2 == wait_dequeue_wobj(k, t)
         IN  /\ Tidy(k2, X \cup {t}) /\ Moves(k, k2)
<1>1. CASE TSTAT_WAIT_WOBJ(k.tcb[t].tstat)
  <2> DEFINE m == k.tcb[t].wobj
             q == RemoveFirst(k.wait_queue[m], t)
  <2>1. wait_dequeue_wobj(k, t) = PutQueue(k, m, q)
    BY <1>1 DEF wait_dequeue_wobj, PutQueue
  <2>2. m \in Mutex /\ t \in Waiters(k, X, m)
    BY <1>1 DEF Tidy, QueuesOK, WobjOK, Waiters, Waits
  <2>3. WaitQueueOK(TPRI, k, m, k.wait_queue[m], Waiters(k, X, m))
    BY <2>2 DEF Tidy, QueuesOK
  <2> HIDE DEF m
  <2>4. WaitQueueOK(TPRI, k, m, q, Waiters(k, X, m) \ {t})
    BY <2>2, <2>3, WaitQueueRemove
  <2>5. {t} \subseteq Waiters(k, X, m)
    BY <2>2
  <2> DEFINE S == {t}
  <2> HIDE DEF q, S
  <2>6. LET k2 == PutQueue(k, m, q)
        IN  /\ Tidy(k2, X \cup S) /\ Moves(k, k2)
    <3>1. S \subseteq Waiters(k, X, m) /\ WaitQueueOK(TPRI, k, m, q, Waiters(k, X, m) \ S)
      BY <2>4, <2>5 DEF S
    <3> QED BY <2>2, <3>1, LeaveQueue
  <2> QED BY <2>1, <2>6 DEF S
<1>2. CASE ~TSTAT_WAIT_WOBJ(k.tcb[t].tstat)
  <2>1. wait_dequeue_wobj(k, t) = k
    BY <1>2 DEF wait_dequeue_wobj
  <2>2. ~TSTAT_WAIT_MTX(k.tcb[t].tstat)
    <3>1. k.tcb[t].tstat \in TStat
      BY TcbType DEF Tidy, QueuesOK
    <3> QED BY <1>2, <3>1, Flags
  <2> QED BY <2>1, <2>2, MayLeave DEF Moves, Follows
<1> QED BY <1>1, <1>2

(* The time event of a wait is unregistered.                               *)
LEMMA DequeueTmevtb ==
  ASSUME NEW k, NEW X, Tidy(k, X), NEW t
  PROVE  LET k2 == wait_dequeue_tmevtb(k, t)
         IN  /\ Tidy(k2, X) /\ Follows(k, k2)
             /\ k2.tcb = k.tcb /\ SameObjects(k, k2) /\ k2.tmevtb = k.tmevtb \ {t}
<1> DEFINE k2 == wait_dequeue_tmevtb(k, t)
<1>1. /\ k2 \in MSet /\ SameSched(k, k2) /\ SameObjects(k, k2) /\ k2.tcb = k.tcb
      /\ k2.tmevtb = k.tmevtb \ {t} /\ k2.asserted = k.asserted
  BY DEF wait_dequeue_tmevtb, Tidy, QueuesOK, MSet, SameSched, SameObjects
<1> HIDE DEF k2
<1>2. Queued(k2, X) = Queued(k, X)
  BY <1>1 DEF Queued
<1>3. Quiet(k, Queued(k, X), X, k2, X)
  BY <1>1 DEF Quiet, Tidy, QueuesOK, Waiters, SameObjects
<1>4. QueuesOK(k2, Queued(k, X), X) /\ Follows(k, k2)
  BY <1>3, QuietChange DEF Tidy
<1> QED BY <1>1, <1>2, <1>4 DEF Tidy, k2

LEMMA CodeStored ==
  ASSUME NEW k, NEW X, Tidy(k, X), NEW t, t \notin k.tmevtb
  PROVE  set_wercd(k, t) = k
<1>1. k.asserted = TRUE /\ k \in MSet
  BY DEF Tidy, QueuesOK
<1>2. (k.asserted /\ t \notin k.tmevtb) = k.asserted
  BY <1>1
<1> QED BY <1>1, <1>2 DEF set_wercd, MSet

--------------------------------------------------------------------------
(* What a task control block says apart from the state of the task.        *)
Alike(r, r2) ==
  /\ r2.priority = r.priority /\ r2.bpriority = r.bpriority
  /\ r2.boosted = r.boosted /\ r2.p_lastmtx = r.p_lastmtx

OthersSame(k, k2, t) == \A u \in Task \ {t} : k2.tcb[u] = k.tcb[u]

(* The states in which a wait ends.                                        *)
Awake(r) == r.tstat = TS_RUNNABLE \/ r.tstat = TS_SUSPENDED

LEMMA AwakeNeutral ==
  ASSUME NEW r, Awake(r)
  PROVE  /\ ~TSTAT_DORMANT(r.tstat) /\ ~TSTAT_WAITING(r.tstat)
         /\ \A m : ~Waits(r, m)
         /\ WobjOK(r)
<1>1. TS_RUNNABLE \in TStat /\ TS_SUSPENDED \in TStat
  BY Flags
<1>2. /\ ~TSTAT_DORMANT(r.tstat) /\ ~TSTAT_WAITING(r.tstat) /\ Neutral(r.tstat)
  <2>1. CASE r.tstat = TS_RUNNABLE
    <3>1. TSTAT_RUNNABLE(r.tstat) /\ r.tstat \in TStat
      BY <1>1, <2>1, Flags
    <3> QED BY <3>1, Flags
  <2>2. CASE r.tstat = TS_SUSPENDED
    BY <2>2, Flags DEF TSTAT_WAITING, TS_SUSPENDED, WaitFactor, WobjFactor, WobjcbFactor
  <2> QED BY <2>1, <2>2 DEF Awake
<1> QED BY <1>2 DEF Waits, WobjOK, Neutral

(* The wait of a task in transit, with no time event, ends.                *)
LEMMA WakesUp ==
  ASSUME NEW k, NEW X, Tidy(k, X), NEW t \in X, t \in Task,
         TSTAT_WAITING(k.tcb[t].tstat), t \notin k.tmevtb
  PROVE  LET k2 == make_non_wait(k, t)
         IN  /\ Tidy(k2, X \ {t}) /\ Follows(k, k2)
             /\ SameObjects(k, k2) /\ k2.tmevtb = k.tmevtb
             /\ OthersSame(k, k2, t)
             /\ Alike(k.tcb[t], k2.tcb[t]) /\ Awake(k2.tcb[t])
<1> DEFINE k2 == make_non_wait(k, t)
           k1 == [k EXCEPT !.asserted = @ /\ TSTAT_WAITING(k.tcb[t].tstat)]
<1>1. k \in MSet /\ k.asserted = TRUE
  BY DEF Tidy, QueuesOK
<1>2. k1 = k
  <2>1. (k.asserted /\ TSTAT_WAITING(k.tcb[t].tstat)) = k.asserted
    BY <1>1
  <2> QED BY <1>1, <2>1 DEF MSet
<1>3. k2 = IF TSTAT_SUSPENDED(k.tcb[t].tstat) THEN set_tstat(k1, t, TS_SUSPENDED)
           ELSE make_runnable(set_tstat(k1, t, TS_RUNNABLE), t)
  BY DEF make_non_wait
<1> HIDE DEF k1, k2
<1>4. ASSUME NEW s \in TStat
      PROVE  LET k3 == set_tstat(k, t, s)
             IN  /\ Tidy(k3, X) /\ Follows(k, k3)
                 /\ SameObjects(k, k3) /\ k3.tmevtb = k.tmevtb
                 /\ OthersSame(k, k3, t)
                 /\ Alike(k.tcb[t], k3.tcb[t]) /\ k3.tcb[t].tstat = s
  <2> DEFINE r == [k.tcb[t] EXCEPT !.tstat = s]
  <2>1. /\ set_tstat(k, t, s) = Put(k, t, r) /\ r \in TCB
        /\ r.tstat = s /\ Alike(k.tcb[t], r)
    BY <1>1, SetTstat DEF Alike
  <2> HIDE DEF r
  <2>2. Tidy(Put(k, t, r), X) /\ Follows(k, Put(k, t, r))
    BY <2>1, PutQuiet
  <2>3. /\ SameObjects(k, Put(k, t, r)) /\ Put(k, t, r).tmevtb = k.tmevtb
        /\ OthersSame(k, Put(k, t, r), t) /\ Put(k, t, r).tcb[t] = r
    BY <1>1, <2>1, PutOK DEF OthersSame
  <2> QED BY <2>1, <2>2, <2>3
<1>5. CASE TSTAT_SUSPENDED(k.tcb[t].tstat)
  <2> DEFINE k3 == set_tstat(k, t, TS_SUSPENDED)
  <2>1. /\ Tidy(k3, X) /\ Follows(k, k3)
        /\ SameObjects(k, k3) /\ k3.tmevtb = k.tmevtb
        /\ OthersSame(k, k3, t)
        /\ Alike(k.tcb[t], k3.tcb[t]) /\ k3.tcb[t].tstat = TS_SUSPENDED
    BY <1>4, Flags
  <2>2. k2 = k3
    BY <1>2, <1>3, <1>5
  <2> HIDE DEF k3
  <2>3. Awake(k3.tcb[t])
    BY <2>1 DEF Awake
  <2>4. /\ ~TSTAT_WAITING(k3.tcb[t].tstat) /\ \A m : ~Waits(k3.tcb[t], m)
        /\ WobjOK(k3.tcb[t]) /\ ~TSTAT_RUNNABLE(k3.tcb[t].tstat)
    BY <2>1, <2>3, AwakeNeutral, Flags
  <2>5. Queued(k3, X \ {t}) = Queued(k3, X)
    BY <2>4 DEF Queued
  <2>6. \A m \in Mutex : Waiters(k3, X \ {t}, m) = Waiters(k3, X, m)
    BY <2>4 DEF Waiters
  <2>7. Tidy(k3, X \ {t})
    BY <2>1, <2>4, <2>5, <2>6 DEF Tidy, QueuesOK
  <2> QED BY <2>1, <2>2, <2>3, <2>7 DEF k2
<1>6. CASE ~TSTAT_SUSPENDED(k.tcb[t].tstat)
  <2> DEFINE k3 == set_tstat(k, t, TS_RUNNABLE)
  <2>1. /\ Tidy(k3, X) /\ Follows(k, k3)
        /\ SameObjects(k, k3) /\ k3.tmevtb = k.tmevtb
        /\ OthersSame(k, k3, t)
        /\ Alike(k.tcb[t], k3.tcb[t]) /\ k3.tcb[t].tstat = TS_RUNNABLE
    BY <1>4, Flags
  <2>2. k2 = make_runnable(k3, t)
    BY <1>2, <1>3, <1>6
  <2> HIDE DEF k3
  <2>3. /\ Tidy(k2, X \ {t}) /\ Follows(k3, k2)
        /\ k2.tcb = k3.tcb /\ SameObjects(k3, k2) /\ k2.tmevtb = k3.tmevtb
    BY <2>1, <2>2, EntersReady, Flags
  <2>4. /\ Tidy(k2, X \ {t}) /\ Follows(k, k2)
        /\ SameObjects(k, k2) /\ k2.tmevtb = k.tmevtb
        /\ OthersSame(k, k2, t)
        /\ Alike(k.tcb[t], k2.tcb[t]) /\ Awake(k2.tcb[t])
    BY <2>1, <2>3 DEF Follows, SameObjects, OthersSame, Awake
  <2> QED BY <2>4 DEF k2
<1> QED BY <1>5, <1>6

(* wait_complete(), for a task that has left the wait queue.               *)
LEMMA WaitCompleted ==
  ASSUME NEW k, NEW X, Tidy(k, X), NEW t \in X, t \in Task,
         TSTAT_WAITING(k.tcb[t].tstat)
  PROVE  LET k2 == wait_complete(k, t)
         IN  /\ Tidy(k2, X \ {t}) /\ Follows(k, k2)
             /\ SameObjects(k, k2) /\ k2.tmevtb = k.tmevtb \ {t}
             /\ OthersSame(k, k2, t)
             /\ Alike(k.tcb[t], k2.tcb[t]) /\ Awake(k2.tcb[t])
<1> DEFINE k1 == wait_dequeue_tmevtb(k, t)
<1>1. /\ Tidy(k1, X) /\ Follows(k, k1)
      /\ k1.tcb = k.tcb /\ SameObjects(k, k1) /\ k1.tmevtb = k.tmevtb \ {t}
  BY DequeueTmevtb
<1>2. wait_complete(k, t) = make_non_wait(k1, t)
  <2> HIDE DEF k1
  <2>1. set_wercd(k1, t) = k1
    BY <1>1, CodeStored
  <2> QED BY <2>1 DEF wait_complete, k1
<1> HIDE DEF k1
<1>3. LET k2 == make_non_wait(k1, t)
      IN  /\ Tidy(k2, X \ {t}) /\ Follows(k1, k2)
          /\ SameObjects(k1, k2) /\ k2.tmevtb = k1.tmevtb
          /\ OthersSame(k1, k2, t)
          /\ Alike(k1.tcb[t], k2.tcb[t]) /\ Awake(k2.tcb[t])
  BY <1>1, WakesUp
<1> QED BY <1>1, <1>2, <1>3 DEF Follows, SameObjects, OthersSame

(* A task that is in no queue may as well not be in transit.               *)
LEMMA MayStay ==
  ASSUME NEW k, NEW X, Tidy(k, X), NEW t \in X, WobjOK(k.tcb[t]),
         ~TSTAT_RUNNABLE(k.tcb[t].tstat), ~TSTAT_WAIT_MTX(k.tcb[t].tstat)
  PROVE  Tidy(k, X \ {t})
<1>1. Queued(k, X \ {t}) = Queued(k, X)
  BY DEF Queued
<1>2. \A m \in Mutex : Waiters(k, X \ {t}, m) = Waiters(k, X, m)
  BY DEF Waiters, Waits
<1> QED BY <1>1, <1>2 DEF Tidy, QueuesOK

(* A task that can run is taken out of the ready queue, to wait or to be   *)
(* suspended; its flag word is set before.                                 *)
LEMMA StopsRunning ==
  ASSUME NEW k, Tidy(k, {}), NEW t \in Task, TSTAT_RUNNABLE(k.tcb[t].tstat),
         k.p_schedtsk = t => k.dspflg,
         NEW s \in TStat, ~TSTAT_RUNNABLE(s)
  PROVE  LET k2 == make_non_runnable(set_tstat(k, t, s), t)
         IN  /\ Tidy(k2, {t}) /\ Follows(k, k2)
             /\ SameObjects(k, k2) /\ k2.tmevtb = k.tmevtb /\ t \notin k.tmevtb
             /\ OthersSame(k, k2, t)
             /\ Alike(k.tcb[t], k2.tcb[t]) /\ k2.tcb[t].tstat = s
<1> DEFINE r  == [k.tcb[t] EXCEPT !.tstat = s]
           k1 == set_tstat(k, t, s)
           k2 == make_non_runnable(k1, t)
           R  == Queued(k, {})
<1>0. k \in MSet
  BY DEF Tidy, QueuesOK
<1>1. /\ k1 = Put(k, t, r) /\ r \in TCB
      /\ r.tstat = s /\ Alike(k.tcb[t], r)
  BY <1>0, SetTstat DEF Alike
<1> HIDE DEF r, k1
<1>2. /\ k1 \in MSet /\ SameSched(k, k1) /\ SameObjects(k, k1)
      /\ k1.tmevtb = k.tmevtb /\ k1.asserted = k.asserted
      /\ k1.tcb[t] = r /\ OthersSame(k, k1, t)
  BY <1>0, <1>1, PutOK DEF OthersSame
<1>3. k.tcb[t].tstat \in TStat /\ Neutral(k.tcb[t].tstat)
      /\ ~TSTAT_WAITING(k.tcb[t].tstat)
  BY <1>0, TcbType, Flags
<1>4. t \notin k.tmevtb
  BY <1>3 DEF Tidy, QueuesOK
<1>5. Quiet(k, R, {}, k1, {t})
  <2>1. \A u \in Task : k1.tcb[u].priority = k.tcb[u].priority
    BY <1>1, <1>2 DEF OthersSame, Alike
  <2>2. \A m \in Mutex : Waiters(k1, {t}, m) = Waiters(k, {}, m)
    BY <1>2, <1>3 DEF Waiters, OthersSame, Waits, Neutral
  <2>3. R \subseteq Task /\ \A m \in Mutex : Waiters(k, {}, m) \subseteq Task
    BY DEF Queued, Waiters
  <2>4. \A u \in Task \ {t} : WobjOK(k1.tcb[u])
    BY <1>2 DEF Tidy, QueuesOK, OthersSame
  <2>5. \A u \in k1.tmevtb : TSTAT_WAITING(k1.tcb[u].tstat)
    BY <1>0, <1>2, <1>4 DEF Tidy, QueuesOK, OthersSame, MSet
  <2>6. k1.asserted = TRUE /\ k1.wait_queue = k.wait_queue
    BY <1>2 DEF Tidy, QueuesOK, SameObjects
  <2> HIDE DEF R
  <2> QED BY <1>2, <2>1, <2>2, <2>3, <2>4, <2>5, <2>6 DEF Quiet
<1>6. t \in R
  BY DEF Queued
<1>7. k1.p_schedtsk = t => k1.dspflg
  BY <1>2 DEF SameSched
<1> HIDE DEF R
<1>8. QueuesOK(k1, R, {t}) /\ Follows(k, k1)
  BY <1>5, QuietChange DEF Tidy, R
<1>9. /\ QueuesOK(k2, R \ {t}, {t}) /\ Follows(k1, k2)
      /\ k2.tcb = k1.tcb /\ SameObjects(k1, k2) /\ k2.tmevtb = k1.tmevtb
  BY <1>6, <1>7, <1>8, LeavesReady
<1> HIDE DEF k2
<1>10. Queued(k2, {t}) = R \ {t}
  BY <1>2, <1>9 DEF Queued, R, OthersSame
<1>11. Tidy(k2, {t})
  BY <1>9, <1>10 DEF Tidy
<1>12. /\ Follows(k, k2) /\ SameObjects(k, k2) /\ k2.tmevtb = k.tmevtb
       /\ OthersSame(k, k2, t)
       /\ Alike(k.tcb[t], k2.tcb[t]) /\ k2.tcb[t].tstat = s
  BY <1>1, <1>2, <1>8, <1>9 DEF Follows, SameObjects, OthersSame
<1> QED BY <1>4, <1>11, <1>12 DEF k2, k1

(* make_wait() and make_wait_tmout(); for an object, the task is still to  *)
(* enter its queue.                                                        *)
LEMMA StartsWait ==
  ASSUME NEW k, Tidy(k, {}), NEW t \in Task, TSTAT_RUNNABLE(k.tcb[t].tstat),
         k.p_schedtsk = t => k.dspflg,
         NEW s \in TStat, TSTAT_WAITING(s), NEW timed \in BOOLEAN
  PROVE  LET k2 == make_wait_tmout(k, t, s, timed)
         IN  /\ Tidy(k2, {t}) /\ Follows(k, k2)
             /\ SameObjects(k, k2)
             /\ OthersSame(k, k2, t)
             /\ Alike(k.tcb[t], k2.tcb[t]) /\ k2.tcb[t].tstat = s
<1> DEFINE k1 == make_non_runnable(set_tstat(k, t, s), t)
           k2 == make_wait_tmout(k, t, s, timed)
<1>1. /\ Tidy(k1, {t}) /\ Follows(k, k1)
      /\ SameObjects(k, k1) /\ k1.tmevtb = k.tmevtb /\ t \notin k.tmevtb
      /\ OthersSame(k, k1, t)
      /\ Alike(k.tcb[t], k1.tcb[t]) /\ k1.tcb[t].tstat = s
  BY StopsRunning, Flags
<1>2. k2 = IF timed THEN [k1 EXCEPT !.tmevtb = @ \cup {t}] ELSE k1
  BY DEF make_wait_tmout
<1> HIDE DEF k1, k2
<1>3. CASE timed
  <2>1. /\ k2 \in MSet /\ SameSched(k1, k2) /\ SameObjects(k1, k2) /\ k2.tcb = k1.tcb
        /\ k2.tmevtb = k1.tmevtb \cup {t} /\ k2.asserted = k1.asserted
    BY <1>1, <1>2, <1>3 DEF Tidy, QueuesOK, MSet, SameSched, SameObjects
  <2>2. Queued(k2, {t}) = Queued(k1, {t})
    BY <2>1 DEF Queued
  <2>3. Quiet(k1, Queued(k1, {t}), {t}, k2, {t})
    BY <1>1, <2>1 DEF Quiet, Tidy, QueuesOK, Waiters, SameObjects
  <2>4. QueuesOK(k2, Queued(k1, {t}), {t}) /\ Follows(k1, k2)
    BY <1>1, <2>3, QuietChange DEF Tidy
  <2>5. Tidy(k2, {t})
    BY <2>2, <2>4 DEF Tidy
  <2>6. /\ Follows(k, k2) /\ SameObjects(k, k2) /\ OthersSame(k, k2, t)
        /\ Alike(k.tcb[t], k2.tcb[t]) /\ k2.tcb[t].tstat = s
    BY <1>1, <2>1, <2>4 DEF Follows, SameObjects, OthersSame
  <2> QED BY <2>5, <2>6 DEF k2
<1>4. CASE ~timed
  BY <1>1, <1>2, <1>4 DEF k2
<1> QED BY <1>3, <1>4

(* loc_mtx() and tloc_mtx() on a locked mutex.                             *)
LEMMA WaitsForMutex ==
  ASSUME NEW k, Tidy(k, {}), NEW t \in Task, TSTAT_RUNNABLE(k.tcb[t].tstat),
         k.p_schedtsk = t => k.dspflg,
         NEW m \in Mutex, NEW timed \in BOOLEAN
  PROVE  LET k2 == wobj_make_wait_tmout(k, m, t, TS_WAITING_MTX, timed)
         IN  /\ Tidy(k2, {}) /\ Follows(k, k2)
             /\ k2.p_loctsk = k.p_loctsk
             /\ OthersSame(k, k2, t)
             /\ Alike(k.tcb[t], k2.tcb[t])
             /\ k2.tcb[t].tstat = TS_WAITING_MTX /\ k2.tcb[t].wobj = m
<1> DEFINE k1 == make_wait_tmout(k, t, TS_WAITING_MTX, timed)
           k2 == wobj_make_wait_tmout(k, m, t, TS_WAITING_MTX, timed)
           q0 == k1.wait_queue[m]
           q  == IF m \in TPRI THEN queue_insert_tpri(k1, q0, t) ELSE Append(q0, t)
           r  == [k1.tcb[t] EXCEPT !.wobj = m]
           k3 == Put(k1, t, r)
<1>1. /\ Tidy(k1, {t}) /\ Follows(k, k1)
      /\ SameObjects(k, k1) /\ OthersSame(k, k1, t)
      /\ Alike(k.tcb[t], k1.tcb[t]) /\ k1.tcb[t].tstat = TS_WAITING_MTX
  BY StartsWait, Flags
<1>2. k2 = [k1 EXCEPT !.wait_queue[m] = q, !.tcb[t].wobj = m]
  BY DEF wobj_make_wait_tmout
<1> HIDE DEF k1, k2, q
<1>3. k1 \in MSet
  BY <1>1 DEF Tidy, QueuesOK
<1>4. k2 = PutQueue(k3, m, q)
  BY <1>2, <1>3 DEF PutQueue, Put, MSet
<1>5. /\ r \in TCB /\ Alike(k1.tcb[t], r)
      /\ r.tstat = TS_WAITING_MTX /\ r.wobj = m
  <2>1. k1.tcb[t] \in TCB
    BY <1>3, TcbType
  <2> QED BY <1>1, <2>1 DEF TCB, Alike
<1> HIDE DEF r
<1>6. Tidy(k3, {t}) /\ Follows(k1, k3)
  BY <1>1, <1>5, PutQuiet, Flags
<1>7. /\ SameObjects(k1, k3) /\ k3.tcb[t] = r /\ OthersSame(k1, k3, t)
  BY <1>3, <1>5, PutOK DEF OthersSame
<1> HIDE DEF k3
<1>8. WaitQueueOK(TPRI, k3, m, q, Waiters(k3, {t}, m) \cup {t})
  <2> DEFINE S == Waiters(k1, {t}, m)
  <2>1. WaitQueueOK(TPRI, k1, m, q0, S)
    BY <1>1 DEF Tidy, QueuesOK
  <2>2. t \notin S /\ S \subseteq Task
    BY DEF Waiters
  <2>3. S = Waiters(k3, {t}, m)
    BY <1>7 DEF Waiters, OthersSame
  <2> HIDE DEF S, q0
  <2>4. \A u \in S \cup {t} : k1.tcb[u].priority \in TPri
    BY <1>3, <2>2, TcbType
  <2>5. WaitQueueOK(TPRI, k1, m, q, S \cup {t})
    BY <2>1, <2>2, <2>4, WaitQueueInsert DEF q
  <2>6. \A u \in S \cup {t} : k3.tcb[u].priority = k1.tcb[u].priority
    BY <1>5, <1>7, <2>2 DEF OthersSame, Alike
  <2>7. WaitQueueOK(TPRI, k3, m, q, S \cup {t})
    BY <2>5, <2>6, WaitQueueSame
  <2> QED BY <2>3, <2>7
<1>9. Waits(k3.tcb[t], m)
  BY <1>5, <1>7, Flags DEF Waits
<1>10. Tidy(k2, {t} \ {t}) /\ Moves(k3, k2)
  BY <1>4, <1>6, <1>8, <1>9, EntersQueue
<1>11. {t} \ {t} = {}
  OBVIOUS
<1>12. /\ Follows(k, k2) /\ k2.p_loctsk = k.p_loctsk /\ OthersSame(k, k2, t)
       /\ Alike(k.tcb[t], k2.tcb[t])
       /\ k2.tcb[t].tstat = TS_WAITING_MTX /\ k2.tcb[t].wobj = m
  BY <1>1, <1>5, <1>6, <1>7, <1>10
     DEF Follows, Moves, SameObjects, OthersSame, Alike
<1> QED BY <1>10, <1>11, <1>12 DEF k2

--------------------------------------------------------------------------
PriorityChanged(k, k2, t, p) ==
  /\ Follows(k, k2)
  /\ k2.p_loctsk = k.p_loctsk /\ k2.tmevtb = k.tmevtb
  /\ OthersSame(k, k2, t)
  /\ k2.tcb[t] = [k.tcb[t] EXCEPT !.priority = p]
  /\ k.p_schedtsk = t /\ p < k.tcb[t].priority => k2.p_schedtsk = t

(* change_priority(), for a task in a ready queue, in a wait queue or in   *)
(* none.  The task that should run stays when it is raised.                *)
LEMMA ChangesPriority ==
  ASSUME NEW k, NEW X, Tidy(k, X), NEW t \in Task, t \notin X,
         NEW newpri \in TPri, NEW mode \in BOOLEAN
  PROVE  LET k2 == change_priority(k, t, newpri, mode)
         IN  Tidy(k2, X) /\ PriorityChanged(k, k2, t, newpri)
<1> DEFINE r  == [k.tcb[t] EXCEPT !.priority = newpri]
           k1 == Put(k, t, r)
           k2 == change_priority(k, t, newpri, mode)
           R  == Queued(k, X)
           old == k.tcb[t].priority
<1>0. k \in MSet
  BY DEF Tidy, QueuesOK
<1>1. /\ r \in TCB
      /\ r.priority = newpri /\ r.tstat = k.tcb[t].tstat /\ r.wobj = k.tcb[t].wobj
  <2>1. k.tcb[t] \in TCB
    BY <1>0, TcbType
  <2> QED BY <2>1 DEF TCB
<1>2. k2 = IF TSTAT_RUNNABLE(k.tcb[t].tstat) THEN requeue(k1, t, old, newpri, mode)
           ELSE IF TSTAT_WAIT_WOBJCB(k.tcb[t].tstat)
                THEN wobj_change_priority(k1, k.tcb[t].wobj, t)
           ELSE k1
  <2>1. [k EXCEPT !.tcb[t].priority = newpri] = k1
    BY <1>0, PutFields
  <2> HIDE DEF k1
  <2> QED BY <2>1 DEF change_priority
<1> HIDE DEF r, k1, k2
<1>3. /\ k1 \in MSet /\ SameSched(k, k1) /\ SameObjects(k, k1)
      /\ k1.tmevtb = k.tmevtb /\ k1.asserted = TRUE
      /\ k1.tcb[t] = r /\ OthersSame(k, k1, t)
  BY <1>0, <1>1, PutOK DEF OthersSame, k1, Tidy, QueuesOK
<1>4. /\ \A u \in Task : k1.tcb[u].tstat = k.tcb[u].tstat
      /\ \A u \in Task : k1.tcb[u].wobj = k.tcb[u].wobj
      /\ \A u \in Task \ {t} : k1.tcb[u].priority = k.tcb[u].priority
      /\ k1.tcb[t].priority = newpri
  BY <1>1, <1>3 DEF OthersSame
<1>13. \A u \in Task :
         /\ TSTAT_RUNNABLE(k1.tcb[u].tstat) <=> TSTAT_RUNNABLE(k.tcb[u].tstat)
         /\ TSTAT_WAITING(k1.tcb[u].tstat) <=> TSTAT_WAITING(k.tcb[u].tstat)
         /\ \A m \in Mutex : Waits(k1.tcb[u], m) <=> Waits(k.tcb[u], m)
         /\ WobjOK(k1.tcb[u]) <=> WobjOK(k.tcb[u])
  <2>1. TAKE u \in Task
  <2>2. k1.tcb[u].tstat = k.tcb[u].tstat /\ k1.tcb[u].wobj = k.tcb[u].wobj
    BY <1>4, Zenon
  <2> QED BY <2>2, Zenon DEF Waits, WobjOK
<1>5. Queued(k1, X) = R /\ R \subseteq Task
  BY <1>13 DEF Queued
<1>6. \A m \in Mutex : Waiters(k1, X, m) = Waiters(k, X, m)
  BY <1>13 DEF Waiters
<1>7. /\ \A u \in Task \ X : WobjOK(k1.tcb[u])
      /\ \A u \in k1.tmevtb : TSTAT_WAITING(k1.tcb[u].tstat)
  BY <1>3, <1>13 DEF Tidy, QueuesOK, MSet
<1>8. \A m \in Mutex : t \notin Waiters(k, X, m) =>
        WaitQueueOK(TPRI, k1, m, k1.wait_queue[m], Waiters(k1, X, m))
  <2>1. SUFFICES ASSUME NEW m \in Mutex, t \notin Waiters(k, X, m)
                 PROVE  WaitQueueOK(TPRI, k1, m, k1.wait_queue[m], Waiters(k1, X, m))
    OBVIOUS
  <2>2. WaitQueueOK(TPRI, k, m, k.wait_queue[m], Waiters(k, X, m))
    BY DEF Tidy, QueuesOK
  <2>3. \A u \in Waiters(k, X, m) : k1.tcb[u].priority = k.tcb[u].priority
    BY <1>4, <2>1 DEF Waiters
  <2>4. WaitQueueOK(TPRI, k1, m, k.wait_queue[m], Waiters(k, X, m))
    BY <2>2, <2>3, WaitQueueSame
  <2> QED BY <1>3, <1>6, <2>4 DEF SameObjects
<1>9. KInv(k, R)
  BY DEF Tidy, QueuesOK
<1> HIDE DEF R
<1>10. CASE TSTAT_RUNNABLE(k.tcb[t].tstat)
  <2> DEFINE c  == Core(k)
             c1 == Core(k1)
             c2 == requeue(c1, t, old, newpri, mode)
  <2>1. k2 = With(k1, c2)
    BY <1>2, <1>3, <1>10, RequeueOnCore
  <2>2. c \in KSet(TCB) /\ KInv(c, R) /\ c1 \in KSet(TCB)
    BY <1>0, <1>3, <1>9, CoreOK
  <2>3. /\ c.tcb = k.tcb /\ c1.tcb = k1.tcb
        /\ c1.ready_queue = c.ready_queue /\ c1.ready_primap = c.ready_primap
        /\ c1.p_schedtsk = c.p_schedtsk /\ c1.dspflg = c.dspflg
        /\ c.p_schedtsk = k.p_schedtsk /\ c.dspflg = k.dspflg
        /\ c1.tmevtb = k.tmevtb /\ c1.asserted = TRUE
    BY <1>3 DEF Core, SameSched
  <2>4. t \in R /\ old = c.tcb[t].priority
    BY <1>10, <2>3 DEF R, Queued
  <2> HIDE DEF c, c1
  <2>5. \A u \in Task : c1.tcb[u].priority = IF u = t THEN newpri ELSE c.tcb[u].priority
    BY <1>4, <2>3
  <2>6. /\ c2 \in KSet(TCB) /\ KInv(c2, R) /\ Same(c1, c2)
        /\ ~c.dspflg => c2.p_schedtsk = c.p_schedtsk
    BY <2>2, <2>3, <2>4, <2>5, Requeue
  <2>7. k.p_schedtsk = t /\ newpri < old => c2.p_schedtsk = t
    <3>1. SUFFICES ASSUME k.p_schedtsk = t, newpri < old PROVE c2.p_schedtsk = t
      OBVIOUS
    <3>2. old \in TPri
      BY <1>0, TcbType
    <3>3. ~(newpri >= old)
      BY <3>1, <3>2 DEF TPri
    <3>4. c1.p_schedtsk = t
      BY <2>3, <3>1
    <3> HIDE DEF old
    <3> QED BY <2>2, <3>3, <3>4 DEF requeue, KSet
  <2> HIDE DEF c2
  <2>8. /\ k2 \in MSet
        /\ k2.tcb = k1.tcb /\ k2.tmevtb = k.tmevtb /\ k2.asserted = TRUE
        /\ SameObjects(k1, k2) /\ Follows(k, k2)
        /\ KInv(k2, R) /\ k2.p_schedtsk = c2.p_schedtsk
    BY <1>3, <2>1, <2>3, <2>6, WithOK DEF Same, Follows
  <2>9. Queued(k2, X) = R
    BY <1>5, <2>8 DEF Queued
  <2>10. \A m \in Mutex : t \notin Waiters(k, X, m)
    <3>1. k.tcb[t].tstat \in TStat
      BY <1>0, TcbType
    <3> QED BY <1>10, <3>1, Flags DEF Waiters, Waits, Neutral
  <2>11. \A m \in Mutex : WaitQueueOK(TPRI, k2, m, k2.wait_queue[m], Waiters(k2, X, m))
    <3>1. TAKE m \in Mutex
    <3>2. WaitQueueOK(TPRI, k1, m, k1.wait_queue[m], Waiters(k1, X, m))
      BY <1>8, <2>10
    <3>3. Waiters(k2, X, m) = Waiters(k1, X, m)
      BY <2>8 DEF Waiters
    <3>4. \A u \in Waiters(k1, X, m) : k2.tcb[u].priority = k1.tcb[u].priority
      BY <2>8
    <3>5. WaitQueueOK(TPRI, k2, m, k1.wait_queue[m], Waiters(k1, X, m))
      BY <3>2, <3>4, WaitQueueSame
    <3> QED BY <2>8, <3>3, <3>5 DEF SameObjects
  <2>12. Tidy(k2, X)
    BY <1>3, <1>7, <2>8, <2>9, <2>11 DEF Tidy, QueuesOK
  <2> QED BY <1>3, <2>7, <2>8, <2>12 DEF PriorityChanged, OthersSame, SameObjects, k2, r
<1>11. CASE ~TSTAT_RUNNABLE(k.tcb[t].tstat)
  <2>1. KInv(k1, R)
    <3>1. \A u \in R : k1.tcb[u].priority = k.tcb[u].priority
      BY <1>4, <1>5, <1>11 DEF R, Queued
    <3> QED BY <1>0, <1>3, <1>9, <3>1, SameReady
  <2>2. k1.p_schedtsk = k.p_schedtsk /\ Follows(k, k1)
    BY <1>3 DEF SameSched, Follows
  <2>3. CASE \E m \in Mutex : m \in TPRI /\ t \in Waiters(k, X, m)
    <3> DEFINE m  == k.tcb[t].wobj
               S  == Waiters(k, X, m)
               q0 == k.wait_queue[m]
               q1 == RemoveFirst(q0, t)
               q  == queue_insert_tpri(k1, q1, t)
    <3>1. m \in Mutex /\ m \in TPRI /\ t \in S /\ TSTAT_WAIT_MTX(k.tcb[t].tstat)
      BY <2>3 DEF Waiters, Waits
    <3>2. TSTAT_WAIT_WOBJCB(k.tcb[t].tstat)
      BY <1>0, <3>1, TcbType, Flags
    <3>3. k2 = PutQueue(k1, m, q)
      <4>1. k2 = wobj_change_priority(k1, m, t)
        BY <1>2, <1>11, <3>2
      <4>2. k1.wait_queue = k.wait_queue
        BY <1>3 DEF SameObjects
      <4> HIDE DEF m
      <4> QED BY <3>1, <4>1, <4>2 DEF wobj_change_priority, PutQueue
    <3> HIDE DEF m, k2
    <3>4. WaitQueueOK(TPRI, k, m, q0, S)
      BY <3>1 DEF Tidy, QueuesOK
    <3> HIDE DEF S, q0
    <3>5. WaitQueueOK(TPRI, k, m, q1, S \ {t})
      BY <3>1, <3>4, WaitQueueRemove
    <3>6. S \subseteq Task
      BY DEF S, Waiters
    <3>7. WaitQueueOK(TPRI, k1, m, q1, S \ {t})
      <4>1. \A u \in S \ {t} : k1.tcb[u].priority = k.tcb[u].priority
        BY <1>4, <3>6
      <4> HIDE DEF q1
      <4> QED BY <3>5, <4>1, WaitQueueSame
    <3>8. WaitQueueOK(TPRI, k1, m, q, S)
      <4> DEFINE S1 == S \ {t}
      <4>1. t \notin S1 /\ S1 \cup {t} = S
        BY <3>1
      <4>2. \A u \in S1 \cup {t} : k1.tcb[u].priority \in TPri
        BY <1>3, <3>6, TcbType
      <4> HIDE DEF q1, S1
      <4>3. WaitQueueOK(TPRI, k1, m, q1, S1)
        BY <3>7 DEF S1
      <4>4. WaitQueueOK(TPRI, k1, m, q, S1 \cup {t})
        BY <3>1, <4>1, <4>2, <4>3, WaitQueueInsert
      <4> QED BY <4>1, <4>4
    <3> HIDE DEF q
    <3>9. q \in Seq(Task)
      BY <3>6, <3>8, QueueIn DEF WaitQueueOK
    <3>10. /\ k2 \in MSet /\ SameSched(k1, k2) /\ k2.tcb = k1.tcb
           /\ k2.p_loctsk = k1.p_loctsk /\ k2.tmevtb = k1.tmevtb
           /\ k2.asserted = k1.asserted /\ k2.wait_queue[m] = q
           /\ \A n \in Mutex \ {m} : k2.wait_queue[n] = k1.wait_queue[n]
      BY <1>3, <3>1, <3>3, <3>9, PutQueueOK
    <3>11. KInv(k2, R)
      BY <1>3, <2>1, <3>10, SameReady
    <3>12. Queued(k2, X) = R
      BY <1>5, <3>10 DEF Queued
    <3>13. \A n \in Mutex : Waiters(k2, X, n) = Waiters(k1, X, n)
      BY <3>10 DEF Waiters
    <3>14. ASSUME NEW n \in Mutex
           PROVE  WaitQueueOK(TPRI, k2, n, k2.wait_queue[n], Waiters(k2, X, n))
      <4>1. CASE n = m
        <5>1. WaitQueueOK(TPRI, k2, m, q, S)
          BY <3>8, <3>10, WaitQueueSame
        <5> QED BY <1>6, <3>10, <3>13, <4>1, <5>1 DEF S
      <4>2. CASE n # m
        <5>1. t \notin Waiters(k, X, n)
          BY <4>2 DEF Waiters, Waits, m
        <5>2. WaitQueueOK(TPRI, k1, n, k1.wait_queue[n], Waiters(k1, X, n))
          BY <1>8, <5>1
        <5>3. WaitQueueOK(TPRI, k2, n, k1.wait_queue[n], Waiters(k1, X, n))
          BY <3>10, <5>2, WaitQueueSame
        <5> QED BY <3>10, <3>13, <4>2, <5>3
      <4> QED BY <4>1, <4>2
    <3>15. Tidy(k2, X)
      BY <1>3, <1>7, <3>10, <3>11, <3>12, <3>14 DEF Tidy, QueuesOK
    <3> QED BY <1>3, <2>2, <3>10, <3>15
            DEF PriorityChanged, OthersSame, SameObjects, SameSched, Follows, k2, r
  <2>4. CASE ~\E m \in Mutex : m \in TPRI /\ t \in Waiters(k, X, m)
    <3>1. k2 = k1
      <4>1. CASE TSTAT_WAIT_WOBJCB(k.tcb[t].tstat)
        <5>1. k.tcb[t].tstat \in TStat
          BY <1>0, TcbType
        <5>2. TSTAT_WAIT_WOBJ(k.tcb[t].tstat)
          BY <4>1, <5>1, Flags
        <5>3. k.tcb[t].wobj \in Mutex /\ t \in Waiters(k, X, k.tcb[t].wobj)
          BY <5>2 DEF Tidy, QueuesOK, WobjOK, Waiters, Waits
        <5>4. k.tcb[t].wobj \notin TPRI
          BY <2>4, <5>3
        <5> QED BY <1>2, <1>11, <4>1, <5>4 DEF wobj_change_priority
      <4>2. CASE ~TSTAT_WAIT_WOBJCB(k.tcb[t].tstat)
        BY <1>2, <1>11, <4>2
      <4> QED BY <4>1, <4>2
    <3>2. \A m \in Mutex : WaitQueueOK(TPRI, k1, m, k1.wait_queue[m], Waiters(k1, X, m))
      <4>1. TAKE m \in Mutex
      <4>2. CASE m \in TPRI
        BY <1>8, <2>4, <4>2
      <4>3. CASE m \notin TPRI
        <5>1. WaitQueueOK(TPRI, k, m, k.wait_queue[m], Waiters(k, X, m))
          BY DEF Tidy, QueuesOK
        <5> QED BY <1>3, <1>6, <4>3, <5>1 DEF WaitQueueOK, SameObjects
      <4> QED BY <4>2, <4>3
    <3>3. Tidy(k1, X)
      BY <1>3, <1>5, <1>7, <2>1, <3>2 DEF Tidy, QueuesOK
    <3> QED BY <1>3, <2>2, <3>1, <3>3
            DEF PriorityChanged, OthersSame, SameObjects, k2, r
  <2> QED BY <2>3, <2>4
<1> QED BY <1>10, <1>11

(* On behalf of a mutex.                                                   *)
LEMMA MutexPriority ==
  ASSUME NEW k, NEW X, Tidy(k, X), NEW t \in Task, t \notin X, NEW newpri \in TPri
  PROVE  LET k2 == change_priority(k, t, newpri, TRUE)
         IN  Tidy(k2, X) /\ PriorityChanged(k, k2, t, newpri)
<1>1. TRUE \in BOOLEAN
  OBVIOUS
<1> QED BY <1>1, ChangesPriority, Zenon

--------------------------------------------------------------------------
(* Owners and priorities.  The mutexes of M are in transit: they are in no *)
(* list, whoever owns them.                                                *)
Owned(k, M, t) == {m \in Mutex \ M : k.p_loctsk[m] = t}

OwnersOK(k, M, X) ==
  /\ \A t \in Task : QueueOf(k.tcb[t].p_lastmtx, Owned(k, M, t))
  /\ \A t \in Task : TSTAT_DORMANT(k.tcb[t].tstat) => k.tcb[t].p_lastmtx = << >>
  /\ \A t \in Task \ X : \A m \in Mutex :
       Waits(k.tcb[t], m) => k.p_loctsk[m] # NULL /\ k.p_loctsk[m] # t

Ceil(r) == {ceilpri[m] : m \in ToSet(r.p_lastmtx) \cap CEILING}

(* The current priority is the highest of the base priority and the        *)
(* ceilings, none of which is below the base priority.                     *)
PriOK(r) ==
  /\ r.priority \in Ceil(r) \cup {r.bpriority}
  /\ \A c \in Ceil(r) : r.priority <= c /\ c <= r.bpriority
  /\ r.priority <= r.bpriority
  /\ r.boosted <=> Ceil(r) # {}
  /\ \A m \in CEILING : Waits(r, m) => ceilpri[m] <= r.bpriority

(* The priority of a task that terminates does not matter any more.        *)
PrioritiesOK(k, Y) == \A t \in Task \ Y : PriOK(k.tcb[t])

LEMMA CeilPri ==
  ASSUME NEW r
  PROVE  Ceil(r) \subseteq TPri
BY MutexAssumption DEF Ceil

(* Of a step that changes one task control block.                          *)
LEMMA OwnersFrame ==
  ASSUME NEW k, NEW M, NEW X, OwnersOK(k, M, X),
         NEW k2, k2.p_loctsk = k.p_loctsk, NEW t \in Task, OthersSame(k, k2, t),
         k2.tcb[t].p_lastmtx = k.tcb[t].p_lastmtx,
         TSTAT_DORMANT(k2.tcb[t].tstat) => TSTAT_DORMANT(k.tcb[t].tstat),
         NEW X2, X \ {t} \subseteq X2,
         t \notin X2 => \A m \in Mutex :
           Waits(k2.tcb[t], m) => k.p_loctsk[m] # NULL /\ k.p_loctsk[m] # t
  PROVE  OwnersOK(k2, M, X2)
<1>1. \A u \in Task : Owned(k2, M, u) = Owned(k, M, u)
  BY DEF Owned
<1>2. \A u \in Task : k2.tcb[u].p_lastmtx = k.tcb[u].p_lastmtx
  BY DEF OthersSame
<1>3. \A u \in Task : QueueOf(k2.tcb[u].p_lastmtx, Owned(k2, M, u))
  BY <1>1, <1>2 DEF OwnersOK
<1>4. ASSUME NEW u \in Task, TSTAT_DORMANT(k2.tcb[u].tstat)
      PROVE  k2.tcb[u].p_lastmtx = << >>
  <2>1. TSTAT_DORMANT(k.tcb[u].tstat)
    BY <1>4 DEF OthersSame
  <2> QED BY <1>2, <2>1 DEF OwnersOK
<1>5. ASSUME NEW u \in Task \ X2, NEW m \in Mutex, Waits(k2.tcb[u], m)
      PROVE  k2.p_loctsk[m] # NULL /\ k2.p_loctsk[m] # u
  <2>1. CASE u = t
    BY <1>5, <2>1
  <2>2. CASE u # t
    <3>1. u \in Task \ X /\ Waits(k.tcb[u], m)
      BY <1>5, <2>2 DEF OthersSame
    <3> QED BY <3>1 DEF OwnersOK
  <2> QED BY <2>1, <2>2
<1> QED BY <1>3, <1>4, <1>5 DEF OwnersOK

LEMMA PrioritiesFrame ==
  ASSUME NEW k, NEW Y, PrioritiesOK(k, Y),
         NEW k2, NEW t \in Task, OthersSame(k, k2, t),
         NEW Y2, Y \ {t} \subseteq Y2, t \in Y2 \/ PriOK(k2.tcb[t])
  PROVE  PrioritiesOK(k2, Y2)
<1>1. ASSUME NEW u \in Task \ Y2 PROVE PriOK(k2.tcb[u])
  <2>1. CASE u = t
    BY <1>1, <2>1
  <2>2. CASE u # t
    BY <2>2 DEF PrioritiesOK, OthersSame
  <2> QED BY <2>1, <2>2
<1> QED BY <1>1 DEF PrioritiesOK

(* Nothing changes for a task that does not start to wait for a mutex with *)
(* a ceiling below its base priority.                                      *)
LEMMA AlikePri ==
  ASSUME NEW r, PriOK(r), NEW r2, Alike(r, r2),
         \A m \in CEILING : Waits(r2, m) => Waits(r, m) \/ ceilpri[m] <= r.bpriority
  PROVE  PriOK(r2)
<1>1. Ceil(r2) = Ceil(r)
  BY DEF Ceil, Alike
<1>2. /\ r2.priority \in Ceil(r2) \cup {r2.bpriority}
      /\ \A c \in Ceil(r2) : r2.priority <= c /\ c <= r2.bpriority
      /\ r2.priority <= r2.bpriority
      /\ r2.boosted <=> Ceil(r2) # {}
  BY <1>1 DEF PriOK, Alike
<1>3. \A m \in CEILING : Waits(r2, m) => ceilpri[m] <= r2.bpriority
  BY DEF PriOK, Alike
<1> QED BY <1>2, <1>3 DEF PriOK

(* A mutex is added to the list, and the priority is raised to its ceiling *)
(* if it has one.                                                          *)
LEMMA PriRaised ==
  ASSUME NEW r, PriOK(r), r.priority \in TPri, r.bpriority \in TPri,
         NEW m \in Mutex, NEW r2,
         ToSet(r2.p_lastmtx) = ToSet(r.p_lastmtx) \cup {m},
         r2.bpriority = r.bpriority,
         r2.priority = IF m \in CEILING /\ ceilpri[m] < r.priority
                       THEN ceilpri[m] ELSE r.priority,
         r2.boosted = IF m \in CEILING THEN TRUE ELSE r.boosted,
         m \in CEILING => ceilpri[m] <= r.bpriority,
         \A n \in CEILING : Waits(r2, n) => Waits(r, n)
  PROVE  PriOK(r2)
<1>1. Ceil(r2) = IF m \in CEILING THEN Ceil(r) \cup {ceilpri[m]} ELSE Ceil(r)
  BY DEF Ceil
<1>2. Ceil(r) \subseteq Int /\ r.priority \in Int /\ r.bpriority \in Int
      /\ (m \in CEILING => ceilpri[m] \in Int)
  BY CeilPri, MutexAssumption DEF TPri
<1>3. \A n \in CEILING : Waits(r2, n) => ceilpri[n] <= r2.bpriority
  BY DEF PriOK
<1>4. CASE m \in CEILING
  <2> DEFINE c == ceilpri[m]
             C == Ceil(r)
  <2>1. /\ r.priority \in C \cup {r.bpriority}
        /\ \A d \in C : r.priority <= d /\ d <= r.bpriority
        /\ r.priority <= r.bpriority
    BY DEF PriOK
  <2>2. /\ Ceil(r2) = C \cup {c} /\ c \in Int /\ C \subseteq Int
        /\ c <= r.bpriority /\ r2.boosted = TRUE
        /\ r2.priority = IF c < r.priority THEN c ELSE r.priority
    BY <1>1, <1>2, <1>4
  <2> HIDE DEF c, C
  <2>3. r2.priority \in Int /\ r2.priority <= c /\ r2.priority <= r.priority
        /\ (r2.priority = c \/ r2.priority = r.priority)
    BY <1>2, <2>2
  <2>4. r2.priority \in Ceil(r2) \cup {r2.bpriority}
    BY <2>1, <2>2, <2>3
  <2>5. r2.priority <= r2.bpriority
    BY <1>2, <2>1, <2>3
  <2>6. ASSUME NEW d \in Ceil(r2) PROVE r2.priority <= d /\ d <= r2.bpriority
    <3>1. CASE d = c
      BY <2>2, <2>3, <3>1
    <3>2. CASE d \in C
      <4>1. d \in Int /\ r.priority <= d /\ d <= r.bpriority
        BY <2>1, <2>2, <3>2
      <4> QED BY <1>2, <2>3, <4>1
    <3> QED BY <2>2, <3>1, <3>2
  <2>7. Ceil(r2) # {}
    BY <2>2
  <2> QED BY <1>3, <2>2, <2>4, <2>5, <2>6, <2>7 DEF PriOK
<1>5. CASE m \notin CEILING
  BY <1>1, <1>3, <1>5 DEF PriOK
<1> QED BY <1>4, <1>5

(* A mutex without a ceiling is taken from the list.                       *)
LEMMA PriKept ==
  ASSUME NEW r, PriOK(r), NEW m, m \notin CEILING, NEW r2,
         ToSet(r.p_lastmtx) = ToSet(r2.p_lastmtx) \cup {m},
         r2.priority = r.priority, r2.bpriority = r.bpriority,
         r2.boosted = r.boosted,
         \A n \in CEILING : Waits(r2, n) => Waits(r, n)
  PROVE  PriOK(r2)
<1>1. Ceil(r2) = Ceil(r)
  BY DEF Ceil
<1>2. \A n \in CEILING : Waits(r2, n) => ceilpri[n] <= r2.bpriority
  BY DEF PriOK
<1> QED BY <1>1, <1>2 DEF PriOK

(* mutex_calc_priority(). *)
LEMMA CalcPriority ==
  ASSUME NEW k \in MSet, NEW t \in Task
  PROVE  LET r == k.tcb[t]
             p == mutex_calc_priority(k, t)
         IN  /\ p \in Ceil(r) \cup {r.bpriority}
             /\ \A c \in Ceil(r) : p <= c
             /\ p <= r.bpriority
             /\ p \in TPri
<1> DEFINE r == k.tcb[t]
           S == Ceil(r) \cup {r.bpriority}
<1>1. r.bpriority \in TPri
  BY TcbType
<1>2. S \subseteq TPri /\ S # {}
  BY <1>1, CeilPri
<1>3. TPri \subseteq Nat
  BY TNUM_TPRIAssumption DEF TPri
<1>4. mutex_calc_priority(k, t) = Min(S)
  BY DEF mutex_calc_priority, Ceilings, Ceil
<1> HIDE DEF S
<1>5. Min(S) \in S /\ \A m \in S : Min(S) <= m
  BY <1>2, <1>3, MinNat
<1> QED BY <1>2, <1>4, <1>5 DEF S

(* mutex_drop_priority(), for a task whose mutex with the ceiling oldpri   *)
(* has just been taken from its list; r0 is its control block before.      *)
LEMMA DropsPriority ==
  ASSUME NEW k, NEW X, Tidy(k, X), NEW t \in Task, t \notin X,
         NEW oldpri, NEW r0, PriOK(r0), Ceil(r0) = Ceil(k.tcb[t]) \cup {oldpri},
         k.tcb[t].priority = r0.priority, k.tcb[t].bpriority = r0.bpriority,
         k.tcb[t].boosted = r0.boosted,
         \A m \in CEILING : Waits(k.tcb[t], m) => Waits(r0, m)
  PROVE  LET k2 == mutex_drop_priority(k, t, oldpri)
         IN  /\ Tidy(k2, X) /\ Follows(k, k2)
             /\ k2.p_loctsk = k.p_loctsk
             /\ OthersSame(k, k2, t)
             /\ k2.tcb[t].tstat = k.tcb[t].tstat
             /\ k2.tcb[t].wobj = k.tcb[t].wobj
             /\ k2.tcb[t].p_lastmtx = k.tcb[t].p_lastmtx
             /\ PriOK(k2.tcb[t])
<1> DEFINE r  == k.tcb[t]
           C  == Ceil(r)
           b  == (C # {})
           r1 == [r EXCEPT !.boosted = b]
           k1 == Put(k, t, r1)
           p  == mutex_calc_priority(k, t)
           k2 == mutex_drop_priority(k, t, oldpri)
<1>0. k \in MSet /\ r \in TCB
  BY TcbType DEF Tidy, QueuesOK
<1>1. /\ p \in C \cup {r.bpriority} /\ p <= r.bpriority /\ p \in TPri
      /\ \A c \in C : p <= c
  <2> HIDE DEF p
  <2> QED BY <1>0, CalcPriority DEF p
<1>2. k2 = IF oldpri # r.priority THEN k
           ELSE IF p = oldpri THEN k1 ELSE change_priority(k1, t, p, TRUE)
  <2>1. [k EXCEPT !.tcb[t].boosted = Ceilings(k, t) # {}] = k1
    <3>1. Ceilings(k, t) = C
      BY DEF Ceilings, Ceil
    <3> HIDE DEF C
    <3>2. [k EXCEPT !.tcb[t].boosted = b] = k1
      BY <1>0, PutFields
    <3> QED BY <3>1, <3>2
  <2> HIDE DEF k1, p
  <2> QED BY <2>1 DEF mutex_drop_priority, p
<1>3. /\ r.priority \in C \cup {oldpri} \cup {r.bpriority}
      /\ \A c \in C \cup {oldpri} : r.priority <= c /\ c <= r.bpriority
      /\ r.priority <= r.bpriority
      /\ r.boosted = TRUE
      /\ \A m \in CEILING : Waits(r, m) => ceilpri[m] <= r.bpriority
  <2>1. r.boosted \in BOOLEAN
    BY <1>0, TcbType
  <2> HIDE DEF r
  <2>2. r.boosted
    BY DEF PriOK, r
  <2> QED BY <2>1, <2>2 DEF PriOK, r
<1>4. /\ C \subseteq Int /\ r.priority \in Int /\ r.bpriority \in Int
  BY <1>0, TcbType, CeilPri DEF TPri
<1>5. /\ r1 \in TCB
      /\ r1.priority = r.priority /\ r1.bpriority = r.bpriority
      /\ r1.boosted = b /\ r1.p_lastmtx = r.p_lastmtx
      /\ r1.tstat = r.tstat /\ r1.wobj = r.wobj
  <2> HIDE DEF r, b
  <2>1. b \in BOOLEAN
    BY DEF b
  <2> QED BY <1>0, <2>1 DEF TCB
<1> HIDE DEF r1, k1, p, k2, r
<1>6. CASE oldpri # r.priority
  <2>1. r.priority < oldpri /\ oldpri <= r.bpriority /\ oldpri \in Int
    <3>1. r.priority <= oldpri /\ oldpri <= r.bpriority
      BY <1>3
    <3>2. oldpri \in Int
      <4>1. oldpri \in Ceil(r0)
        OBVIOUS
      <4> QED BY <4>1, CeilPri DEF TPri
    <3> QED BY <1>4, <1>6, <3>1, <3>2
  <2>2. r.priority \in C
    BY <1>3, <1>4, <2>1
  <2>3. PriOK(r)
    BY <1>3, <2>2 DEF PriOK
  <2>4. k2 = k
    BY <1>2, <1>6
  <2> QED BY <2>3, <2>4 DEF OthersSame, Follows, k2, r
<1>7. CASE oldpri = r.priority
  <2>1. Tidy(k1, X) /\ Follows(k, k1)
    <3>1. \A m \in Mutex : Waits(r1, m) <=> Waits(r, m)
      BY <1>5 DEF Waits
    <3>2. WobjOK(r1)
      <4>1. WobjOK(r)
        BY DEF Tidy, QueuesOK, r
      <4> QED BY <1>5, <4>1 DEF WobjOK
    <3>3. t \in k.tmevtb => TSTAT_WAITING(r1.tstat)
      BY <1>5 DEF Tidy, QueuesOK, r
    <3> QED BY <1>5, <3>1, <3>2, <3>3, PutQuiet DEF k1, r
  <2>2. /\ SameObjects(k, k1) /\ OthersSame(k, k1, t) /\ k1.tcb[t] = r1
    BY <1>0, <1>5, PutOK DEF OthersSame, k1
  <2>3. CASE p = oldpri
    <3>1. k2 = k1
      BY <1>2, <1>7, <2>3
    <3>2. Ceil(r1) = C
      BY <1>5 DEF Ceil
    <3>3. \A m \in CEILING : Waits(r1, m) => ceilpri[m] <= r1.bpriority
      BY <1>3, <1>5 DEF Waits
    <3>4. PriOK(r1)
      BY <1>1, <1>3, <1>5, <1>7, <2>3, <3>2, <3>3 DEF PriOK
    <3> QED BY <1>5, <2>1, <2>2, <3>1, <3>4 DEF SameObjects, k2, r
  <2>4. CASE p # oldpri
    <3> DEFINE r2 == [r1 EXCEPT !.priority = p]
    <3>1. k2 = change_priority(k1, t, p, TRUE)
      BY <1>2, <1>7, <2>4
    <3>2. Tidy(k2, X) /\ PriorityChanged(k1, k2, t, p)
      BY <1>1, <2>1, <3>1, MutexPriority
    <3>3. /\ r2.priority = p /\ r2.bpriority = r.bpriority
          /\ r2.boosted = b /\ r2.p_lastmtx = r.p_lastmtx
          /\ r2.tstat = r.tstat /\ r2.wobj = r.wobj
      BY <1>5 DEF TCB
    <3>4. k2.tcb[t] = r2
      BY <2>2, <3>2 DEF PriorityChanged
    <3> HIDE DEF r2
    <3>5. Ceil(r2) = C
      BY <3>3 DEF Ceil
    <3>6. \A m \in CEILING : Waits(r2, m) => ceilpri[m] <= r2.bpriority
      BY <1>3, <3>3 DEF Waits
    <3>7. PriOK(r2)
      BY <1>1, <1>3, <3>3, <3>5, <3>6 DEF PriOK
    <3> QED BY <2>1, <2>2, <3>2, <3>3, <3>4, <3>7
            DEF PriorityChanged, SameObjects, OthersSame, Follows, k2, r
  <2> QED BY <2>3, <2>4
<1> QED BY <1>6, <1>7

--------------------------------------------------------------------------
(* The owner of a mutex changes.                                           *)
PutOwner(k, m, o) == [k EXCEPT !.p_loctsk = [k.p_loctsk EXCEPT ![m] = o]]

LEMMA PutOwnerOK ==
  ASSUME NEW k, NEW X, Tidy(k, X), NEW m \in Mutex, NEW o \in Task \cup {NULL}
  PROVE  LET k2 == PutOwner(k, m, o)
         IN  /\ Tidy(k2, X) /\ Follows(k, k2) /\ k2.p_schedtsk = k.p_schedtsk
             /\ k2.tcb = k.tcb /\ k2.tmevtb = k.tmevtb
             /\ k2.wait_queue = k.wait_queue
             /\ k2.p_loctsk[m] = o
             /\ \A n \in Mutex \ {m} : k2.p_loctsk[n] = k.p_loctsk[n]
<1> DEFINE w  == [k.p_loctsk EXCEPT ![m] = o]
           k2 == PutOwner(k, m, o)
<1>1. k \in MSet
  BY DEF Tidy, QueuesOK
<1>2. /\ w \in [Mutex -> Task \cup {NULL}] /\ w[m] = o
      /\ \A n \in Mutex \ {m} : w[n] = k.p_loctsk[n]
  BY <1>1 DEF MSet
<1> HIDE DEF w
<1>3. /\ k2 \in MSet /\ k2.p_loctsk = w
      /\ SameSched(k, k2) /\ k2.tcb = k.tcb /\ k2.wait_queue = k.wait_queue
      /\ k2.tmevtb = k.tmevtb /\ k2.asserted = k.asserted
  BY <1>1, <1>2 DEF PutOwner, w, MSet, SameSched
<1> HIDE DEF k2
<1>4. Queued(k2, X) = Queued(k, X)
  BY <1>3 DEF Queued
<1>5. Quiet(k, Queued(k, X), X, k2, X)
  BY <1>3 DEF Quiet, Tidy, QueuesOK, Waiters
<1>6. QueuesOK(k2, Queued(k, X), X) /\ Follows(k, k2)
  BY <1>5, QuietChange DEF Tidy
<1> QED BY <1>2, <1>3, <1>4, <1>6 DEF Tidy, SameSched, k2

(* A mutex in transit that nobody waits for becomes free.                  *)
LEMMA OwnersFreed ==
  ASSUME NEW k, NEW X, NEW m \in Mutex, OwnersOK(k, {m}, X),
         \A u \in Task \ X : ~Waits(k.tcb[u], m),
         NEW k2, k2.tcb = k.tcb, k2.p_loctsk[m] = NULL,
         \A n \in Mutex \ {m} : k2.p_loctsk[n] = k.p_loctsk[n]
  PROVE  OwnersOK(k2, {}, X)
<1>1. \A u \in Task : Owned(k2, {}, u) = Owned(k, {m}, u)
  BY NULLAssumption DEF Owned
<1>2. \A u \in Task : QueueOf(k2.tcb[u].p_lastmtx, Owned(k2, {}, u))
  BY <1>1 DEF OwnersOK
<1>3. \A u \in Task \ X : \A n \in Mutex :
        Waits(k2.tcb[u], n) => k2.p_loctsk[n] # NULL /\ k2.p_loctsk[n] # u
  BY DEF OwnersOK
<1> QED BY <1>2, <1>3 DEF OwnersOK

(* A mutex is taken from the list of its owner, for transit.               *)
LEMMA OwnersShortened ==
  ASSUME NEW k, NEW X, OwnersOK(k, {}, X), NEW t \in Task, NEW m \in Mutex,
         NEW l, QueueOf(l, Owned(k, {}, t) \ {m}), k.p_loctsk[m] = t,
         NEW k2, k2.p_loctsk = k.p_loctsk, OthersSame(k, k2, t),
         k2.tcb[t].p_lastmtx = l,
         k2.tcb[t].tstat = k.tcb[t].tstat, k2.tcb[t].wobj = k.tcb[t].wobj
  PROVE  OwnersOK(k2, {m}, X)
<1>1. \A u \in Task \ {t} : Owned(k2, {m}, u) = Owned(k, {}, u)
  BY DEF Owned
<1>2. Owned(k2, {m}, t) = Owned(k, {}, t) \ {m}
  BY DEF Owned
<1>3. \A u \in Task : QueueOf(k2.tcb[u].p_lastmtx, Owned(k2, {m}, u))
  BY <1>1, <1>2 DEF OwnersOK, OthersSame
<1>4. ASSUME NEW u \in Task, TSTAT_DORMANT(k2.tcb[u].tstat)
      PROVE  k2.tcb[u].p_lastmtx = << >>
  <2>1. CASE u = t
    <3>1. k.tcb[t].p_lastmtx = << >> /\ QueueOf(k.tcb[t].p_lastmtx, Owned(k, {}, t))
      BY <1>4, <2>1 DEF OwnersOK
    <3>2. Owned(k, {}, t) = {}
      BY <3>1, QueueHead
    <3>3. m \in Owned(k, {}, t)
      BY DEF Owned
    <3> QED BY <3>2, <3>3
  <2>2. CASE u # t
    BY <1>4, <2>2 DEF OwnersOK, OthersSame
  <2> QED BY <2>1, <2>2
<1>5. \A u \in Task \ X : \A n \in Mutex :
        Waits(k2.tcb[u], n) => k2.p_loctsk[n] # NULL /\ k2.p_loctsk[n] # u
  <2>1. \A u \in Task : k2.tcb[u].tstat = k.tcb[u].tstat /\ k2.tcb[u].wobj = k.tcb[u].wobj
    BY DEF OthersSame
  <2>2. \A u \in Task : \A n \in Mutex : Waits(k2.tcb[u], n) => Waits(k.tcb[u], n)
    BY <2>1, Zenon DEF Waits
  <2> QED BY <2>2 DEF OwnersOK
<1> QED BY <1>3, <1>4, <1>5 DEF OwnersOK

(* A mutex that is in no list becomes the last one a task has locked.      *)
LEMMA Pushed ==
  ASSUME NEW k, NEW X, Tidy(k, X), NEW M, OwnersOK(k, M, X),
         NEW m \in Mutex, M \subseteq {m}, m \in M \/ k.p_loctsk[m] = NULL,
         NEW t \in Task, ~TSTAT_DORMANT(k.tcb[t].tstat),
         t \in X \/ ~Waits(k.tcb[t], m)
  PROVE  LET k2 == push_mutex(k, t, m)
         IN  /\ Tidy(k2, X) /\ Follows(k, k2) /\ k2.p_schedtsk = k.p_schedtsk
             /\ OwnersOK(k2, {}, X)
             /\ OthersSame(k, k2, t)
             /\ k2.tcb[t] = [k.tcb[t] EXCEPT !.p_lastmtx = Cons(m, @)]
             /\ ToSet(k2.tcb[t].p_lastmtx) = ToSet(k.tcb[t].p_lastmtx) \cup {m}
             /\ k2.tmevtb = k.tmevtb /\ k2.wait_queue = k.wait_queue
             /\ k2.p_loctsk[m] = t
             /\ \A n \in Mutex \ {m} : k2.p_loctsk[n] = k.p_loctsk[n]
<1> DEFINE x  == k.tcb[t]
           l  == Cons(m, x.p_lastmtx)
           r  == [x EXCEPT !.p_lastmtx = l]
           k1 == Put(k, t, r)
           k2 == push_mutex(k, t, m)
           S  == Owned(k, M, t)
<1>0. k \in MSet /\ x \in TCB
  BY TcbType DEF Tidy, QueuesOK
<1>1. k2 = PutOwner(k1, m, t)
  BY <1>0 DEF push_mutex, PutOwner, Put, MSet
<1>2. QueueOf(x.p_lastmtx, S) /\ m \notin S
  BY NULLAssumption DEF OwnersOK, Owned
<1> HIDE DEF k2, S
<1>3. QueueOf(l, S \cup {m})
  BY <1>2, QueueCons
<1>4. ToSet(l) = ToSet(x.p_lastmtx) \cup {m} /\ l \in Seq(Mutex)
  <2>1. ToSet(l) = S \cup {m} /\ ToSet(x.p_lastmtx) = S
    BY <1>2, <1>3 DEF QueueOf
  <2>2. S \cup {m} \subseteq Mutex
    BY DEF S, Owned
  <2> HIDE DEF l
  <2> QED BY <1>3, <2>1, <2>2, QueueIn
<1> HIDE DEF l, x
<1>5. /\ r \in TCB /\ r.p_lastmtx = l
      /\ r.tstat = x.tstat /\ r.wobj = x.wobj /\ r.priority = x.priority
  BY <1>0, <1>4 DEF TCB
<1> HIDE DEF r
<1>6. \A n \in Mutex : Waits(r, n) <=> Waits(x, n)
  BY <1>5, Zenon DEF Waits
<1>7. Tidy(k1, X) /\ Follows(k, k1)
  <2>1. t \in X \/ WobjOK(r)
    <3>1. t \in X \/ WobjOK(x)
      BY DEF Tidy, QueuesOK, x
    <3> QED BY <1>5, <3>1 DEF WobjOK
  <2>2. t \in k.tmevtb => TSTAT_WAITING(r.tstat)
    BY <1>5 DEF Tidy, QueuesOK, x
  <2> QED BY <1>5, <1>6, <2>1, <2>2, PutQuiet DEF x
<1>8. /\ SameSched(k, k1) /\ SameObjects(k, k1) /\ k1.tmevtb = k.tmevtb
      /\ k1.tcb[t] = r /\ OthersSame(k, k1, t)
  BY <1>0, <1>5, PutOK DEF OthersSame
<1> HIDE DEF k1
<1>9. /\ Tidy(k2, X) /\ Follows(k1, k2) /\ k2.p_schedtsk = k1.p_schedtsk
      /\ k2.tcb = k1.tcb /\ k2.tmevtb = k1.tmevtb
      /\ k2.wait_queue = k1.wait_queue
      /\ k2.p_loctsk[m] = t
      /\ \A n \in Mutex \ {m} : k2.p_loctsk[n] = k1.p_loctsk[n]
  BY <1>1, <1>7, PutOwnerOK
<1>10. /\ OthersSame(k, k2, t) /\ k2.tcb[t] = r
       /\ \A n \in Mutex \ {m} : k2.p_loctsk[n] = k.p_loctsk[n]
  BY <1>8, <1>9 DEF OthersSame, SameObjects
<1>11. OwnersOK(k2, {}, X)
  <2>1. ASSUME NEW u \in Task PROVE QueueOf(k2.tcb[u].p_lastmtx, Owned(k2, {}, u))
    <3>1. CASE u = t
      <4>1. Owned(k2, {}, t) = S \cup {m}
        BY <1>9, <1>10 DEF Owned, S
      <4> QED BY <1>3, <1>5, <1>10, <3>1, <4>1
    <3>2. CASE u # t
      <4>1. Owned(k2, {}, u) = Owned(k, M, u)
        BY <1>9, <1>10, <3>2, NULLAssumption DEF Owned
      <4> QED BY <1>10, <3>2, <4>1 DEF OwnersOK, OthersSame
    <3> QED BY <3>1, <3>2
  <2>2. ASSUME NEW u \in Task, TSTAT_DORMANT(k2.tcb[u].tstat)
        PROVE  k2.tcb[u].p_lastmtx = << >>
    <3>1. u # t
      BY <1>5, <1>10, <2>2 DEF x
    <3> QED BY <1>10, <2>2, <3>1 DEF OwnersOK, OthersSame
  <2>3. ASSUME NEW u \in Task \ X, NEW n \in Mutex, Waits(k2.tcb[u], n)
        PROVE  k2.p_loctsk[n] # NULL /\ k2.p_loctsk[n] # u
    <3>1. Waits(k.tcb[u], n)
      BY <1>6, <1>10, <2>3 DEF OthersSame, x
    <3>2. k.p_loctsk[n] # NULL /\ k.p_loctsk[n] # u
      BY <3>1 DEF OwnersOK
    <3>3. CASE n = m
      BY <1>9, <3>1, <3>3, NULLAssumption
    <3>4. CASE n # m
      BY <1>10, <3>2, <3>4
    <3> QED BY <3>3, <3>4
  <2> QED BY <2>1, <2>2, <2>3 DEF OwnersOK
<1>12. Follows(k, k2) /\ k2.p_schedtsk = k.p_schedtsk
       /\ k2.tmevtb = k.tmevtb /\ k2.wait_queue = k.wait_queue
  BY <1>7, <1>8, <1>9 DEF Follows, SameSched, SameObjects
<1> QED BY <1>4, <1>5, <1>9, <1>10, <1>11, <1>12 DEF k2, r, l, x

(* The states between service calls.                                       *)
KOK(k) == Tidy(k, {}) /\ OwnersOK(k, {}, {}) /\ PrioritiesOK(k, {})

(* loc_mtx(), ploc_mtx() and tloc_mtx() on a free mutex.                   *)
LEMMA Acquired ==
  ASSUME NEW k, KOK(k), NEW t \in Task, TSTAT_RUNNABLE(k.tcb[t].tstat),
         NEW m \in Mutex, k.p_loctsk[m] = NULL,
         m \in CEILING => ceilpri[m] <= k.tcb[t].bpriority
  PROVE  LET k2 == mutex_acquire(k, t, m)
         IN  /\ KOK(k2) /\ Follows(k, k2)
             /\ k.p_schedtsk = t => k2.p_schedtsk = t
             /\ k2.p_loctsk[m] = t
             /\ \A n \in Mutex \ {m} : k2.p_loctsk[n] = k.p_loctsk[n]
<1> DEFINE r  == k.tcb[t]
           k1 == push_mutex(k, t, m)
           r1 == [r EXCEPT !.p_lastmtx = Cons(m, @)]
           r2 == [r1 EXCEPT !.boosted = TRUE]
           k2 == Put(k1, t, r2)
           c  == ceilpri[m]
           k3 == mutex_acquire(k, t, m)
<1>0. /\ k \in MSet /\ r \in TCB
      /\ Tidy(k, {}) /\ OwnersOK(k, {}, {}) /\ PrioritiesOK(k, {}) /\ PriOK(r)
  BY TcbType DEF KOK, Tidy, QueuesOK, PrioritiesOK
<1>1. r.tstat \in TStat /\ ~TSTAT_DORMANT(r.tstat) /\ Neutral(r.tstat)
  BY <1>0, TcbType, Flags
<1>2. \A n : ~Waits(r, n)
  BY <1>1 DEF Neutral, Waits
<1>3. /\ Tidy(k1, {}) /\ Follows(k, k1) /\ k1.p_schedtsk = k.p_schedtsk
      /\ OwnersOK(k1, {}, {})
      /\ OthersSame(k, k1, t)
      /\ k1.tcb[t] = r1
      /\ ToSet(r1.p_lastmtx) = ToSet(r.p_lastmtx) \cup {m}
      /\ k1.p_loctsk[m] = t
      /\ \A n \in Mutex \ {m} : k1.p_loctsk[n] = k.p_loctsk[n]
  <2>1. \A k4 : k4 = k1 =>
          /\ Tidy(k4, {}) /\ Follows(k, k4) /\ k4.p_schedtsk = k.p_schedtsk
          /\ OwnersOK(k4, {}, {})
          /\ OthersSame(k, k4, t)
          /\ k4.tcb[t] = r1
          /\ ToSet(k4.tcb[t].p_lastmtx) = ToSet(r.p_lastmtx) \cup {m}
          /\ k4.p_loctsk[m] = t
          /\ \A n \in Mutex \ {m} : k4.p_loctsk[n] = k.p_loctsk[n]
    <3>1. {} \subseteq {m}
      OBVIOUS
    <3> QED BY <1>0, <1>1, <1>2, <3>1, Pushed
  <2> HIDE DEF r1, k1
  <2> QED BY <2>1
<1>4. k1 \in MSet /\ r1 \in TCB
  BY <1>3, TcbType DEF Tidy, QueuesOK
<1>5. /\ r1.priority = r.priority /\ r1.bpriority = r.bpriority
      /\ r1.boosted = r.boosted
      /\ r1.tstat = r.tstat /\ r1.wobj = r.wobj
  BY <1>0 DEF TCB
<1>6. r.priority \in TPri /\ r.bpriority \in TPri /\ r.boosted \in BOOLEAN
  BY <1>0, TcbType
<1> HIDE DEF r, r1, k1, k3
<1>7. CASE m \notin CEILING
  <2>1. k3 = k1
    BY <1>7 DEF mutex_acquire, k1, k3
  <2>2. PriOK(r1)
    <3>1. \A n \in CEILING : Waits(r1, n) => Waits(r, n)
      BY <1>5, Zenon DEF Waits
    <3> QED BY <1>0, <1>3, <1>5, <1>6, <1>7, <3>1, PriRaised
  <2>3. PrioritiesOK(k1, {})
    <3>1. {} \ {t} \subseteq {} /\ PriOK(k1.tcb[t])
      BY <1>3, <2>2
    <3> QED BY <1>0, <1>3, <3>1, PrioritiesFrame
  <2> QED BY <1>3, <2>1, <2>3 DEF KOK, k3
<1>8. CASE m \in CEILING
  <2>1. /\ r2 \in TCB /\ r2.boosted = TRUE
        /\ r2.priority = r.priority /\ r2.bpriority = r.bpriority
        /\ r2.p_lastmtx = r1.p_lastmtx
        /\ r2.tstat = r.tstat /\ r2.wobj = r.wobj
    BY <1>4, <1>5 DEF TCB
  <2>2. k3 = IF c < r.priority THEN change_priority(k2, t, c, TRUE) ELSE k2
    <3>1. [k1 EXCEPT !.tcb[t].boosted = TRUE] = k2
      <4>1. [k1 EXCEPT !.tcb[t].boosted = TRUE]
              = Put(k1, t, [k1.tcb[t] EXCEPT !.boosted = TRUE])
        BY <1>4 DEF Put
      <4> QED BY <1>3, <4>1 DEF r2
    <3>2. k1.tcb[t].priority = r.priority
      BY <1>3, <1>5
    <3> HIDE DEF k2, c
    <3> QED BY <1>8, <3>1, <3>2 DEF mutex_acquire, mutex_raise_priority, k1, k3, c
  <2> HIDE DEF r2
  <2>3. Tidy(k2, {}) /\ Follows(k1, k2)
    <3>1. WobjOK(r2) /\ (\A n \in Mutex : Waits(r2, n) <=> Waits(k1.tcb[t], n))
      BY <1>1, <1>3, <1>5, <2>1 DEF Waits, WobjOK, Neutral
    <3>2. t \in k1.tmevtb => TSTAT_WAITING(r2.tstat)
      BY <1>3, <1>5, <2>1 DEF Tidy, QueuesOK
    <3> QED BY <1>3, <1>5, <2>1, <3>1, <3>2, PutQuiet
  <2>4. /\ SameSched(k1, k2) /\ SameObjects(k1, k2)
        /\ k2.tcb[t] = r2 /\ OthersSame(k1, k2, t)
    BY <1>4, <2>1, PutOK DEF OthersSame
  <2> HIDE DEF k2
  <2>5. c \in TPri
    BY <1>8, MutexAssumption
  <2> HIDE DEF c
  <2>6. PICK r3 :
          /\ Tidy(k3, {}) /\ Follows(k, k3) /\ (k.p_schedtsk = t => k3.p_schedtsk = t)
          /\ k3.p_loctsk = k1.p_loctsk /\ OthersSame(k, k3, t) /\ k3.tcb[t] = r3
          /\ r3.priority = IF c < r.priority THEN c ELSE r.priority
          /\ r3.bpriority = r.bpriority /\ r3.boosted = TRUE
          /\ r3.p_lastmtx = r1.p_lastmtx
          /\ r3.tstat = r.tstat /\ r3.wobj = r.wobj
    <3>1. CASE c < r.priority
      <4> DEFINE r3 == [r2 EXCEPT !.priority = c]
      <4>1. Tidy(k3, {}) /\ PriorityChanged(k2, k3, t, c)
        <5>1. k3 = change_priority(k2, t, c, TRUE)
          BY <2>2, <3>1
        <5>2. Tidy(k2, {}) /\ t \notin {}
          BY <2>3
        <5> DEFINE X == {}
        <5> HIDE DEF X
        <5>3. Tidy(k2, X) /\ t \notin X
          BY <5>2 DEF X
        <5>4. LET k4 == change_priority(k2, t, c, TRUE)
              IN  Tidy(k4, X) /\ PriorityChanged(k2, k4, t, c)
          BY <2>5, <5>3, MutexPriority
        <5> QED BY <5>1, <5>4 DEF X
      <4>2. /\ r3.priority = c
            /\ r3.bpriority = r2.bpriority /\ r3.boosted = r2.boosted
            /\ r3.p_lastmtx = r2.p_lastmtx
            /\ r3.tstat = r2.tstat /\ r3.wobj = r2.wobj
        BY <2>1 DEF TCB
      <4>3. k3.tcb[t] = r3
        BY <2>4, <4>1 DEF PriorityChanged
      <4>4. k.p_schedtsk = t => k3.p_schedtsk = t
        BY <1>3, <2>1, <2>4, <3>1, <4>1 DEF PriorityChanged, SameSched
      <4>5. Follows(k, k3) /\ k3.p_loctsk = k1.p_loctsk /\ OthersSame(k, k3, t)
        BY <1>3, <2>3, <2>4, <4>1 DEF PriorityChanged, Follows, SameObjects, OthersSame
      <4> HIDE DEF r3
      <4> QED BY <2>1, <3>1, <4>1, <4>2, <4>3, <4>4, <4>5
    <3>2. CASE ~(c < r.priority)
      <4>1. k3 = k2
        BY <2>2, <3>2
      <4>2. Follows(k, k2) /\ k2.p_loctsk = k1.p_loctsk /\ OthersSame(k, k2, t)
            /\ k2.p_schedtsk = k.p_schedtsk
        BY <1>3, <2>3, <2>4 DEF Follows, SameObjects, OthersSame, SameSched
      <4> QED BY <2>1, <2>3, <2>4, <3>2, <4>1, <4>2
    <3> QED BY <3>1, <3>2
  <2>7. PriOK(r3)
    <3>1. \A n \in CEILING : Waits(r3, n) => Waits(r, n)
      BY <2>6, Zenon DEF Waits
    <3>2. m \in CEILING => ceilpri[m] <= r.bpriority
      BY DEF r
    <3>3. ToSet(r3.p_lastmtx) = ToSet(r.p_lastmtx) \cup {m}
      BY <1>3, <2>6
    <3> QED BY <1>0, <1>6, <1>8, <2>6, <3>1, <3>2, <3>3, PriRaised DEF c
  <2>8. PrioritiesOK(k3, {})
    <3>1. {} \ {t} \subseteq {} /\ PriOK(k3.tcb[t])
      BY <2>6, <2>7
    <3> QED BY <1>0, <2>6, <3>1, PrioritiesFrame
  <2>9. OwnersOK(k3, {}, {})
    <3>1. OthersSame(k1, k3, t)
      BY <1>3, <2>6 DEF OthersSame
    <3>2. k3.tcb[t].p_lastmtx = k1.tcb[t].p_lastmtx /\ k3.tcb[t].tstat = k1.tcb[t].tstat
      BY <1>3, <1>5, <2>6
    <3>3. {} \ {t} \subseteq {} /\ \A n \in Mutex : ~Waits(k3.tcb[t], n)
      BY <1>1, <2>6 DEF Waits, Neutral
    <3> QED BY <1>3, <2>6, <3>1, <3>2, <3>3, OwnersFrame
  <2> QED BY <1>3, <2>6, <2>8, <2>9 DEF KOK, k3
<1> QED BY <1>7, <1>8

LEMMA MinOfTwo ==
  ASSUME NEW a \in TPri, NEW b \in TPri
  PROVE  Min({a, b}) = IF b < a THEN b ELSE a
<1>1. a \in Nat /\ b \in Nat
  BY TNUM_TPRIAssumption DEF TPri
<1>2. {a, b} \subseteq Nat /\ {a, b} # {}
  BY <1>1
<1> DEFINE S == {a, b}
           n == Min(S)
<1> HIDE DEF S
<1>3. n \in S /\ \A i \in S : n <= i
  BY <1>2, MinNat DEF S
<1> HIDE DEF n
<1> QED BY <1>1, <1>3 DEF S, n

(* mutex_release(), of a mutex that has been taken from its owner's list.  *)
(* The first waiting task becomes the owner, with the ceiling.             *)
LEMMA Released ==
  ASSUME NEW k, NEW X, Tidy(k, X), NEW m \in Mutex, OwnersOK(k, {m}, X),
         NEW Y, PrioritiesOK(k, Y), Y \subseteq X
  PROVE  LET k2 == mutex_release(k, m)
         IN  /\ Tidy(k2, X) /\ OwnersOK(k2, {}, X) /\ PrioritiesOK(k2, Y)
             /\ Follows(k, k2)
             /\ \A u \in Task : u \in X => k2.tcb[u] = k.tcb[u]
             /\ k2.tmevtb \subseteq k.tmevtb
             /\ \A n \in Mutex \ {m} : /\ k2.p_loctsk[n] = k.p_loctsk[n]
                                       /\ k2.wait_queue[n] = k.wait_queue[n]
             /\ k2.p_loctsk[m] = IF k.wait_queue[m] = << >> THEN NULL
                                 ELSE Head(k.wait_queue[m])
<1> DEFINE q0 == k.wait_queue[m]
           t  == Head(q0)
           ka == PutQueue(k, m, Tail(q0))
           k1 == wait_dequeue_tmevtb(ka, t)
           k2 == push_mutex(k1, t, m)
           r  == k.tcb[t]
           r1 == [r EXCEPT !.p_lastmtx = Cons(m, @)]
           p  == Min({r1.priority, ceilpri[m]})
           r2 == [[r1 EXCEPT !.boosted = TRUE] EXCEPT !.priority = p]
           k3 == IF m \in CEILING THEN Put(k2, t, r2) ELSE k2
           k4 == make_non_wait(k3, t)
           kr == mutex_release(k, m)
           S  == Waiters(k, X, m)
<1>0. k \in MSet /\ WaitQueueOK(TPRI, k, m, q0, S)
  BY DEF Tidy, QueuesOK
<1>1. CASE q0 = << >>
  <2>1. kr = PutOwner(k, m, NULL)
    BY <1>1 DEF mutex_release, PutOwner
  <2>2. S = {}
    BY <1>0, <1>1, QueueHead DEF WaitQueueOK
  <2>3. \A u \in Task \ X : ~Waits(k.tcb[u], m)
    BY <2>2 DEF Waiters
  <2> HIDE DEF kr
  <2>4. /\ Tidy(kr, X) /\ Follows(k, kr)
        /\ kr.tcb = k.tcb /\ kr.tmevtb = k.tmevtb
        /\ kr.wait_queue = k.wait_queue
        /\ kr.p_loctsk[m] = NULL
        /\ \A n \in Mutex \ {m} : kr.p_loctsk[n] = k.p_loctsk[n]
    BY <2>1, PutOwnerOK
  <2>5. OwnersOK(kr, {}, X)
    BY <2>3, <2>4, OwnersFreed
  <2>6. PrioritiesOK(kr, Y)
    BY <2>4 DEF PrioritiesOK
  <2> QED BY <1>1, <2>4, <2>5, <2>6 DEF kr
<1>2. CASE q0 # << >>
  <2> DEFINE X1 == X \cup {t}
  <2>1. t \in S /\ WaitQueueOK(TPRI, k, m, Tail(q0), S \ {t})
    BY <1>0, <1>2, WaitQueueTail
  <2>2. t \in Task /\ t \notin X /\ Waits(r, m)
    BY <2>1 DEF Waiters
  <2>3. Tidy(ka, X1) /\ Moves(k, ka)
    <3> DEFINE T == {t}
               q == Tail(q0)
    <3>1. T \subseteq S /\ WaitQueueOK(TPRI, k, m, q, S \ T)
      BY <2>1
    <3> HIDE DEF T, S, q, ka, t
    <3>2. LET kb == PutQueue(k, m, q) IN Tidy(kb, X \cup T) /\ Moves(k, kb)
      BY <3>1, LeaveQueue DEF S
    <3> QED BY <3>2 DEF T, q, ka, t
  <2>4. kr = k4
    <3>1. k.wait_queue[m] # << >>
      BY <1>2
    <3>2. [k EXCEPT !.wait_queue[m] = Tail(@)] = ka
      BY DEF PutQueue
    <3>3. set_wercd(k1, t) = k1
      <4> HIDE DEF ka, t
      <4>1. Tidy(k1, X1) /\ t \notin k1.tmevtb
        BY <2>3, DequeueTmevtb
      <4> HIDE DEF k1
      <4> QED BY <4>1, CodeStored
    <3>4. m \in CEILING => [k2 EXCEPT !.tcb[t].boosted = TRUE,
                                      !.tcb[t].priority = Min({@, ceilpri[m]})]
                             = Put(k2, t, r2)
      <4> HIDE DEF ka
      <4>1. Tidy(k1, X1) /\ k1.tcb = k.tcb /\ SameObjects(ka, k1)
        BY <2>3, DequeueTmevtb DEF Moves
      <4>2. k1 \in MSet
        BY <4>1 DEF Tidy, QueuesOK
      <4> HIDE DEF k1, t
      <4>3. k2.tcb[t] = r1
        BY <2>2, <4>1, <4>2 DEF push_mutex, MSet
      <4>4. k2 \in MSet
        <5>1. Cons(m, k1.tcb[t].p_lastmtx) \in Seq(Mutex)
          <6>1. k1.tcb[t].p_lastmtx \in Seq(Mutex)
            BY <2>2, <4>2, TcbType
          <6> HIDE DEF k2
          <6> QED BY <6>1 DEF Cons
        <5> DEFINE l == Cons(m, k1.tcb[t].p_lastmtx)
                   x == [k1.tcb[t] EXCEPT !.p_lastmtx = l]
        <5>2. k2 = PutOwner(Put(k1, t, x), m, t)
          BY <4>2 DEF push_mutex, PutOwner, Put, MSet
        <5> HIDE DEF k2, l
        <5>3. x \in TCB
          <6>1. k1.tcb[t] \in TCB
            BY <2>2, <4>2, TcbType
          <6> QED BY <5>1, <6>1, TCBFields DEF l
        <5> HIDE DEF x
        <5>4. Put(k1, t, x) \in MSet
          BY <2>2, <4>2, <5>3, PutOK
        <5> QED BY <2>2, <5>2, <5>4 DEF PutOwner, MSet
      <4> HIDE DEF k2, r1
      <4> QED BY <4>3, <4>4 DEF Put, r2, p
    <3> HIDE DEF k2, ka
    <3>5. mutex_release(k, m) = make_non_wait(IF m \in CEILING THEN Put(k2, t, r2) ELSE k2, t)
      BY <3>1, <3>2, <3>3, <3>4 DEF mutex_release, k2
    <3> QED BY <3>5
  <2> HIDE DEF ka, kr
  <2>5. /\ Tidy(k1, X1) /\ Follows(ka, k1)
        /\ k1.tcb = k.tcb /\ SameObjects(ka, k1) /\ k1.tmevtb = k.tmevtb \ {t}
    BY <2>3, DequeueTmevtb DEF Moves
  <2> HIDE DEF k1
  <2>6. r \in TCB /\ r.tstat \in TStat /\ TSTAT_WAITING(r.tstat) /\ ~TSTAT_DORMANT(r.tstat)
        /\ r.priority \in TPri /\ r.bpriority \in TPri
    <3>1. r \in TCB /\ r.tstat \in TStat /\ r.priority \in TPri /\ r.bpriority \in TPri
      BY <1>0, <2>2, TcbType
    <3>2. TSTAT_WAIT_MTX(r.tstat)
      BY <2>2 DEF Waits
    <3> HIDE DEF r
    <3>3. TSTAT_WAITING(r.tstat)
      BY <3>1, <3>2, Flags
    <3> QED BY <3>1, <3>3, Flags
  <2>7. OwnersOK(k1, {m}, X1)
    <3> DEFINE M == {m}
    <3>1. OwnersOK(k, M, X)
      OBVIOUS
    <3> HIDE DEF M
    <3>2. k1.p_loctsk = k.p_loctsk /\ OthersSame(k, k1, t) /\ k1.tcb[t] = k.tcb[t]
      BY <2>3, <2>5 DEF SameObjects, Moves, OthersSame
    <3>3. X \ {t} \subseteq X1 /\ t \in X1
      OBVIOUS
    <3> HIDE DEF X1, t
    <3>4. OwnersOK(k1, M, X1)
      BY <2>2, <3>1, <3>2, <3>3, OwnersFrame
    <3> QED BY <3>4 DEF M
  <2>8. /\ Tidy(k2, X1) /\ Follows(k1, k2)
        /\ OwnersOK(k2, {}, X1)
        /\ OthersSame(k, k2, t)
        /\ k2.tcb[t] = r1
        /\ ToSet(r1.p_lastmtx) = ToSet(r.p_lastmtx) \cup {m}
        /\ k2.tmevtb = k.tmevtb \ {t} /\ k2.wait_queue = k1.wait_queue
        /\ k2.p_loctsk[m] = t
        /\ \A n \in Mutex \ {m} : k2.p_loctsk[n] = k.p_loctsk[n]
    <3> DEFINE M == {m}
    <3>1. OwnersOK(k1, M, X1) /\ m \in M /\ M \subseteq {m} /\ t \in X1
      BY <2>7
    <3>2. k1.tcb[t] = r /\ k1.p_loctsk = k.p_loctsk
      BY <2>3, <2>5 DEF SameObjects, Moves
    <3> HIDE DEF M, X1, t
    <3>3. ~TSTAT_DORMANT(k1.tcb[t].tstat)
      BY <2>6, <3>2
    <3>4. LET k5 == push_mutex(k1, t, m)
          IN  /\ Tidy(k5, X1) /\ Follows(k1, k5)
              /\ OwnersOK(k5, {}, X1)
              /\ OthersSame(k1, k5, t)
              /\ k5.tcb[t] = [k1.tcb[t] EXCEPT !.p_lastmtx = Cons(m, @)]
              /\ ToSet(k5.tcb[t].p_lastmtx) = ToSet(k1.tcb[t].p_lastmtx) \cup {m}
              /\ k5.tmevtb = k1.tmevtb /\ k5.wait_queue = k1.wait_queue
              /\ k5.p_loctsk[m] = t
              /\ \A n \in Mutex \ {m} : k5.p_loctsk[n] = k1.p_loctsk[n]
      BY <2>2, <2>5, <3>1, <3>3, Pushed
    <3>5. k2.tcb[t] = r1
      BY <3>2, <3>4
    <3>6. OthersSame(k, k2, t)
      BY <2>5, <3>4 DEF OthersSame
    <3> HIDE DEF r1, r
    <3> QED BY <2>5, <3>2, <3>4, <3>5, <3>6
  <2>9. /\ r1 \in TCB
        /\ r1.priority = r.priority /\ r1.bpriority = r.bpriority
        /\ r1.boosted = r.boosted
        /\ r1.tstat = r.tstat /\ r1.wobj = r.wobj
    <3>1. k2 \in MSet
      BY <2>8 DEF Tidy, QueuesOK
    <3> HIDE DEF k2
    <3>2. r1 \in TCB
      BY <2>2, <2>8, <3>1, TcbType
    <3> HIDE DEF t
    <3> QED BY <2>6, <3>2 DEF TCB
  <2> HIDE DEF k2, t, r1
  <2> DEFINE r3 == IF m \in CEILING THEN r2 ELSE r1
  <2>10. /\ r3 \in TCB
         /\ r3.p_lastmtx = r1.p_lastmtx
         /\ r3.tstat = r.tstat /\ r3.wobj = r.wobj
         /\ r3.bpriority = r.bpriority
         /\ r3.priority = IF m \in CEILING /\ ceilpri[m] < r.priority
                          THEN ceilpri[m] ELSE r.priority
         /\ r3.boosted = IF m \in CEILING THEN TRUE ELSE r.boosted
    <3>1. CASE m \in CEILING
      <4>1. ceilpri[m] \in TPri
        BY <3>1, MutexAssumption
      <4>2. p = IF ceilpri[m] < r.priority THEN ceilpri[m] ELSE r.priority
        <5> DEFINE c == ceilpri[m]
        <5> HIDE DEF c, r
        <5> QED BY <2>6, <2>9, <4>1, MinOfTwo DEF c
      <4>3. p \in TPri
        BY <2>6, <4>1, <4>2
      <4> HIDE DEF p, r
      <4>4. /\ r2 \in TCB /\ r2.boosted = TRUE /\ r2.priority = p
            /\ r2.p_lastmtx = r1.p_lastmtx /\ r2.bpriority = r1.bpriority
            /\ r2.tstat = r1.tstat /\ r2.wobj = r1.wobj
        BY <2>9, <4>3 DEF TCB
      <4> HIDE DEF r2
      <4> QED BY <2>9, <3>1, <4>2, <4>4
    <3>2. CASE m \notin CEILING
      <4> HIDE DEF r
      <4> QED BY <2>9, <3>2
    <3> QED BY <3>1, <3>2
  <2>11. k2 \in MSet
    BY <2>8 DEF Tidy, QueuesOK
  <2>12. /\ Tidy(k3, X1) /\ Follows(k2, k3)
         /\ SameObjects(k2, k3) /\ k3.tmevtb = k2.tmevtb
         /\ OthersSame(k2, k3, t) /\ k3.tcb[t] = r3
    <3>1. CASE m \in CEILING
      <4>1. k3 = Put(k2, t, r3)
        BY <3>1
      <4> HIDE DEF k3, r3
      <4>2. Tidy(k3, X1) /\ Follows(k2, k3)
        <5>1. t \in X1 /\ TSTAT_WAITING(r3.tstat)
          BY <2>6, <2>10
        <5> HIDE DEF X1
        <5> QED BY <2>2, <2>8, <2>10, <4>1, <5>1, PutQuiet
      <4> QED BY <2>2, <2>10, <2>11, <4>1, <4>2, PutOK DEF OthersSame
    <3>2. CASE m \notin CEILING
      <4>1. k3 = k2 /\ r3 = r1
        BY <3>2
      <4> HIDE DEF k3, r3
      <4> QED BY <2>8, <4>1 DEF Follows, SameObjects, OthersSame
    <3> QED BY <3>1, <3>2
  <2> HIDE DEF k3, r3
  <2>13. OwnersOK(k3, {}, X1)
    <3>1. k3.p_loctsk = k2.p_loctsk /\ k3.tcb[t].p_lastmtx = k2.tcb[t].p_lastmtx
          /\ (TSTAT_DORMANT(k3.tcb[t].tstat) => TSTAT_DORMANT(k2.tcb[t].tstat))
      BY <2>8, <2>9, <2>10, <2>12 DEF SameObjects
    <3>2. X1 \ {t} \subseteq X1 /\ t \in X1
      OBVIOUS
    <3> HIDE DEF X1
    <3> QED BY <2>2, <2>8, <2>12, <3>1, <3>2, OwnersFrame
  <2>14. /\ Tidy(k4, X) /\ Follows(k3, k4)
         /\ SameObjects(k3, k4) /\ k4.tmevtb = k3.tmevtb
         /\ OthersSame(k3, k4, t)
         /\ Alike(r3, k4.tcb[t]) /\ Awake(k4.tcb[t])
    <3>1. t \in X1 /\ X1 \ {t} = X
      BY <2>2
    <3>2. TSTAT_WAITING(k3.tcb[t].tstat) /\ t \notin k3.tmevtb
      BY <2>6, <2>8, <2>10, <2>12
    <3> HIDE DEF X1
    <3> QED BY <2>2, <2>12, <3>1, <3>2, WakesUp
  <2> HIDE DEF k4
  <2>15. OwnersOK(k4, {}, X)
    <3>1. k4.p_loctsk = k3.p_loctsk /\ k4.tcb[t].p_lastmtx = k3.tcb[t].p_lastmtx
      BY <2>12, <2>14 DEF SameObjects, Alike
    <3>2. X1 \ {t} \subseteq X
      OBVIOUS
    <3>3. ~TSTAT_DORMANT(k4.tcb[t].tstat) /\ \A n \in Mutex : ~Waits(k4.tcb[t], n)
      BY <2>14, AwakeNeutral
    <3> HIDE DEF X1
    <3> QED BY <2>2, <2>13, <2>14, <3>1, <3>2, <3>3, OwnersFrame
  <2>16. PriOK(k4.tcb[t])
    <3>1. t \notin Y
      BY <2>2
    <3>2. PriOK(r)
      BY <2>2, <3>1 DEF PrioritiesOK
    <3>3. m \in CEILING => ceilpri[m] <= r.bpriority
      <4> HIDE DEF r
      <4> QED BY <2>2, <3>2 DEF PriOK
    <3> DEFINE r4 == k4.tcb[t]
    <3>4. /\ r4.bpriority = r.bpriority
          /\ r4.priority = IF m \in CEILING /\ ceilpri[m] < r.priority
                           THEN ceilpri[m] ELSE r.priority
          /\ r4.boosted = IF m \in CEILING THEN TRUE ELSE r.boosted
          /\ ToSet(r4.p_lastmtx) = ToSet(r.p_lastmtx) \cup {m}
          /\ \A n \in CEILING : Waits(r4, n) => Waits(r, n)
      BY <2>8, <2>10, <2>14, AwakeNeutral DEF Alike
    <3> HIDE DEF r, r4
    <3>5. PriOK(r4)
      BY <2>6, <3>2, <3>3, <3>4, PriRaised
    <3> QED BY <3>5 DEF r4
  <2>17. PrioritiesOK(k4, Y)
    <3>1. OthersSame(k, k4, t)
      BY <2>8, <2>12, <2>14 DEF OthersSame
    <3>2. Y \ {t} \subseteq Y
      OBVIOUS
    <3> QED BY <2>2, <2>16, <3>1, <3>2, PrioritiesFrame
  <2>18. Follows(k, k4)
    BY <2>3, <2>5, <2>8, <2>12, <2>14 DEF Follows, Moves
  <2>19. \A u \in Task : u \in X => k4.tcb[u] = k.tcb[u]
    BY <2>2, <2>8, <2>12, <2>14 DEF OthersSame
  <2>20. \A n \in Mutex \ {m} : k4.wait_queue[n] = k.wait_queue[n]
    <3>1. \A n \in Mutex \ {m} : ka.wait_queue[n] = k.wait_queue[n]
      <4> DEFINE q == Tail(q0)
      <4>1. q \in Seq(Task)
        <5>1. k.wait_queue[m] \in Seq(Task)
          BY <1>0 DEF MSet
        <5> QED BY <1>2, <5>1
      <4>2. ka = PutQueue(k, m, q)
        BY DEF ka
      <4> HIDE DEF q
      <4> QED BY <1>0, <4>1, <4>2, PutQueueOK
    <3> QED BY <2>5, <2>8, <2>12, <2>14, <3>1 DEF SameObjects
  <2>21. /\ k4.p_loctsk[m] = t
         /\ \A n \in Mutex \ {m} : k4.p_loctsk[n] = k.p_loctsk[n]
    BY <2>8, <2>12, <2>14 DEF SameObjects
  <2>22. k4.tmevtb \subseteq k.tmevtb
    BY <2>8, <2>12, <2>14
  <2>23. t = Head(k.wait_queue[m]) /\ k.wait_queue[m] # << >>
    BY <1>2 DEF t
  <2> HIDE DEF q0, r
  <2>24. kr = mutex_release(k, m)
    BY DEF kr
  <2> QED BY <2>4, <2>14, <2>15, <2>17, <2>18, <2>19, <2>20, <2>21, <2>22, <2>23, <2>24
<1> QED BY <1>1, <1>2

--------------------------------------------------------------------------
(* u is a task of the highest priority among those that wait for m.        *)
Best(k, X, m, u) ==
  /\ u \in Waiters(k, X, m)
  /\ m \in TPRI => \A v \in Waiters(k, X, m) : k.tcb[u].priority <= k.tcb[v].priority

LEMMA BestHead ==
  ASSUME NEW k, NEW X, Tidy(k, X), NEW m \in Mutex, k.wait_queue[m] # << >>
  PROVE  Best(k, X, m, Head(k.wait_queue[m]))
<1> DEFINE q == k.wait_queue[m]
           S == Waiters(k, X, m)
<1>1. QueueOf(q, S) /\ (m \in TPRI => Sorted(k, q))
  BY DEF Tidy, QueuesOK, WaitQueueOK
<1>2. \A u \in S : k.tcb[u].priority \in TPri
  BY TcbType DEF Tidy, QueuesOK, Waiters
<1> HIDE DEF q, S
<1>3. q # << >>
  BY DEF q
<1>4. Head(q) \in S
  BY <1>1, <1>3, QueueHead
<1>5. m \in TPRI => \A u \in S : k.tcb[Head(q)].priority <= k.tcb[u].priority
  BY <1>1, <1>2, <1>3, SortedHead
<1> QED BY <1>4, <1>5 DEF Best, q, S

(* What a service call may do to the owners: a mutex that gets another     *)
(* owner goes to a task that waits for it.                                 *)
HandsOver(k, k2) ==
  \A m \in Mutex : \/ k2.p_loctsk[m] = NULL
                   \/ k2.p_loctsk[m] = k.p_loctsk[m]
                   \/ k.p_loctsk[m] # NULL /\ Best(k, {}, m, k2.p_loctsk[m])

Result(k, k2) == KOK(k2) /\ Follows(k, k2) /\ HandsOver(k, k2)

(* unl_mtx(). *)
LEMMA Unlocked ==
  ASSUME NEW k, KOK(k), NEW t \in Task, k.tcb[t].p_lastmtx # << >>,
         NEW m, m = Head(k.tcb[t].p_lastmtx)
  PROVE  LET k1 == [k EXCEPT !.tcb[t].p_lastmtx = Tail(@)]
             k2 == IF m \in CEILING THEN mutex_drop_priority(k1, t, ceilpri[m])
                   ELSE k1
         IN  Result(k, mutex_release(k2, m))
<1> DEFINE r  == k.tcb[t]
           l  == Tail(r.p_lastmtx)
           r1 == [r EXCEPT !.p_lastmtx = l]
           k1 == [k EXCEPT !.tcb[t].p_lastmtx = Tail(@)]
           k2 == IF m \in CEILING THEN mutex_drop_priority(k1, t, ceilpri[m]) ELSE k1
           k3 == mutex_release(k2, m)
           N  == {}
           M  == {m}
<1>0. /\ k \in MSet /\ r \in TCB /\ r.tstat \in TStat
      /\ Tidy(k, N) /\ OwnersOK(k, N, N) /\ PrioritiesOK(k, N) /\ t \notin N
      /\ PriOK(r)
  BY TcbType DEF KOK, Tidy, QueuesOK, PrioritiesOK
<1>1. /\ m \in Mutex /\ k.p_loctsk[m] = t
      /\ QueueOf(l, Owned(k, N, t) \ {m})
      /\ ToSet(r.p_lastmtx) = ToSet(l) \cup {m}
      /\ l \in Seq(Mutex)
  <2>1. QueueOf(r.p_lastmtx, Owned(k, N, t))
    BY <1>0 DEF OwnersOK
  <2>2. m \in Owned(k, N, t) /\ QueueOf(l, Owned(k, N, t) \ {m})
    BY <2>1, QueueHead, QueueTail
  <2>3. m \in Mutex /\ k.p_loctsk[m] = t
    BY <2>2 DEF Owned
  <2>4. ToSet(r.p_lastmtx) = ToSet(l) \cup {m}
    BY <2>1, <2>2 DEF QueueOf
  <2>5. l \in Seq(Mutex)
    <3>1. Owned(k, N, t) \ {m} \subseteq Mutex
      BY DEF Owned
    <3> QED BY <2>2, <3>1, QueueIn
  <2> QED BY <2>2, <2>3, <2>4, <2>5
<1>2. k1 = Put(k, t, r1)
  <2>1. k1 = [k EXCEPT !.tcb[t].p_lastmtx = l]
    BY <1>0 DEF MSet
  <2> HIDE DEF k1, l
  <2> QED BY <1>0, <2>1, PutFields
<1> HIDE DEF k1, l
<1>3. /\ r1 \in TCB
      /\ r1.priority = r.priority /\ r1.bpriority = r.bpriority
      /\ r1.boosted = r.boosted /\ r1.p_lastmtx = l
      /\ r1.tstat = r.tstat /\ r1.wobj = r.wobj
  <2> HIDE DEF r
  <2> QED BY <1>0, <1>1 DEF TCB
<1> HIDE DEF r1
<1>4. /\ Tidy(k1, N) /\ Follows(k, k1)
      /\ SameObjects(k, k1) /\ OthersSame(k, k1, t) /\ k1.tcb[t] = r1
  <2>1. WobjOK(r1) /\ (\A n \in Mutex : Waits(r1, n) <=> Waits(r, n))
    BY <1>0, <1>3 DEF Waits, WobjOK, Tidy, QueuesOK
  <2>2. t \in k.tmevtb => TSTAT_WAITING(r1.tstat)
    BY <1>0, <1>3 DEF Tidy, QueuesOK
  <2>3. Tidy(k1, N) /\ Follows(k, k1)
    <3> HIDE DEF N
    <3> QED BY <1>0, <1>2, <1>3, <2>1, <2>2, PutQuiet
  <2> QED BY <1>0, <1>2, <1>3, <2>3, PutOK DEF OthersSame
<1>5. OwnersOK(k1, M, N)
  <2>1. OwnersOK(k, {}, N) /\ QueueOf(l, Owned(k, {}, t) \ {m})
    BY <1>0, <1>1
  <2>2. k1.p_loctsk = k.p_loctsk
    BY <1>4 DEF SameObjects
  <2> HIDE DEF N
  <2> QED BY <1>1, <1>3, <1>4, <2>1, <2>2, OwnersShortened
<1>6. /\ Tidy(k2, N) /\ Follows(k1, k2)
      /\ k2.p_loctsk = k1.p_loctsk
      /\ OthersSame(k1, k2, t)
      /\ k2.tcb[t].tstat = r.tstat
      /\ k2.tcb[t].wobj = r.wobj
      /\ k2.tcb[t].p_lastmtx = l
      /\ PriOK(k2.tcb[t])
  <2>1. CASE m \in CEILING
    <3> DEFINE c == ceilpri[m]
    <3>1. k2 = mutex_drop_priority(k1, t, c)
      BY <2>1
    <3>2. Ceil(r) = Ceil(r1) \cup {c}
      BY <1>1, <1>3, <2>1 DEF Ceil
    <3>3. \A n \in CEILING : Waits(r1, n) => Waits(r, n)
      BY <1>3 DEF Waits
    <3> HIDE DEF k2, c, r, N
    <3> QED BY <1>0, <1>3, <1>4, <3>1, <3>2, <3>3, DropsPriority
  <2>2. CASE m \notin CEILING
    <3>1. k2 = k1
      BY <2>2
    <3>2. \A n \in CEILING : Waits(r1, n) => Waits(r, n)
      BY <1>3 DEF Waits
    <3>3. PriOK(r1)
      <4> HIDE DEF r
      <4> QED BY <1>0, <1>1, <1>3, <2>2, <3>2, PriKept
    <3> HIDE DEF k2
    <3> QED BY <1>3, <1>4, <3>1, <3>3 DEF Follows, OthersSame
  <2> QED BY <2>1, <2>2
<1> HIDE DEF k2, r
<1>7. OwnersOK(k2, M, N)
  <2>1. N \ {t} \subseteq N /\ (\A n \in Mutex :
          Waits(k2.tcb[t], n) => k1.p_loctsk[n] # NULL /\ k1.p_loctsk[n] # t)
    <3>1. \A n \in Mutex : Waits(k2.tcb[t], n) => Waits(k1.tcb[t], n)
      BY <1>3, <1>4, <1>6 DEF Waits
    <3> QED BY <1>0, <1>5, <3>1 DEF OwnersOK
  <2>2. k2.tcb[t].p_lastmtx = k1.tcb[t].p_lastmtx /\ k2.tcb[t].tstat = k1.tcb[t].tstat
    BY <1>3, <1>4, <1>6
  <2> HIDE DEF M, N
  <2> QED BY <1>5, <1>6, <2>1, <2>2, OwnersFrame
<1>8. PrioritiesOK(k2, N)
  <2>1. OthersSame(k, k2, t)
    BY <1>4, <1>6 DEF OthersSame
  <2>2. N \ {t} \subseteq N
    OBVIOUS
  <2> HIDE DEF N
  <2> QED BY <1>0, <1>6, <2>1, <2>2, PrioritiesFrame
<1>9. /\ Tidy(k3, N) /\ OwnersOK(k3, {}, N) /\ PrioritiesOK(k3, N)
      /\ Follows(k2, k3)
      /\ \A n \in Mutex \ {m} : k3.p_loctsk[n] = k2.p_loctsk[n]
      /\ k3.p_loctsk[m] = IF k2.wait_queue[m] = << >> THEN NULL
                          ELSE Head(k2.wait_queue[m])
  <2>1. N \subseteq N /\ OwnersOK(k2, {m}, N)
    BY <1>7
  <2> HIDE DEF N, M
  <2> QED BY <1>1, <1>6, <1>8, <2>1, Released
<1> HIDE DEF k3
<1>10. k2.wait_queue[m] # << >> => Best(k, N, m, Head(k2.wait_queue[m]))
  <2> DEFINE u == Head(k2.wait_queue[m])
  <2> HIDE DEF u
  <2>1. k2.wait_queue[m] # << >> => Best(k2, N, m, u)
    <3> HIDE DEF N
    <3> QED BY <1>1, <1>6, BestHead DEF u
  <2>2. ~Waits(r, m)
    BY <1>0, <1>1 DEF OwnersOK, r
  <2>3. Waiters(k2, N, m) = Waiters(k, N, m)
    <3>1. \A v \in Task : Waits(k2.tcb[v], m) <=> Waits(k.tcb[v], m)
      BY <1>4, <1>6 DEF Waits, OthersSame, r
    <3> QED BY <3>1 DEF Waiters
  <2>4. \A v \in Waiters(k, N, m) : k2.tcb[v] = k.tcb[v]
    BY <1>4, <1>6, <2>2 DEF Waiters, OthersSame, r
  <2> HIDE DEF N
  <2>5. Best(k2, N, m, u) => Best(k, N, m, u)
    BY <2>3, <2>4 DEF Best
  <2> QED BY <2>1, <2>5 DEF u
<1>11. HandsOver(k, k3)
  <2>1. k2.p_loctsk = k.p_loctsk
    BY <1>4, <1>6 DEF SameObjects
  <2>2. k.p_loctsk[m] # NULL
    BY <1>1, NULLAssumption
  <2> QED BY <1>9, <1>10, <2>1, <2>2 DEF HandsOver
<1>12. Follows(k, k3)
  BY <1>4, <1>6, <1>9 DEF Follows
<1> QED BY <1>9, <1>11, <1>12 DEF Result, KOK, k1, k2, k3

--------------------------------------------------------------------------
(* init_wait_queue(): the states of its loop.                              *)
Drains(k, m, g, n) ==
  g = [i \in 0..n |-> IF i = 0 THEN [k EXCEPT !.wait_queue[m] = << >>]
                      ELSE wait_complete(g[i - 1], k.wait_queue[m][i])]

LEMMA DrainsExists ==
  ASSUME NEW k, NEW m, NEW n \in Nat
  PROVE  \E g : Drains(k, m, g, n)
<1> DEFINE k0 == [k EXCEPT !.wait_queue[m] = << >>]
           q  == k.wait_queue[m]
           D(g, i) == g = [j \in 0..i |-> IF j = 0 THEN k0
                                          ELSE wait_complete(g[j - 1], q[j])]
           S  == {i \in Nat : ~\E g : D(g, i)}
<1>1. \A g, i : Drains(k, m, g, i) <=> D(g, i)
  BY DEF Drains
<1> HIDE DEF k0, q
<1> HIDE DEF D
<1>2. SUFFICES ASSUME S # {} PROVE FALSE
  BY <1>1
<1>3. PICK i \in S : \A j \in S : i <= j
  <2>1. S \subseteq Nat
    OBVIOUS
  <2> HIDE DEF S
  <2> QED BY <1>2, <2>1, LeastNat
<1>4. i \in Nat
  BY <1>3
<1>5. CASE i = 0
  <2> DEFINE g == [j \in 0..0 |-> k0]
  <2>1. D(g, 0)
    BY DEF D
  <2> HIDE DEF g
  <2> QED BY <1>3, <1>5, <2>1
<1>6. CASE i > 0
  <2>1. i - 1 \in Nat /\ i - 1 \notin S
    <3> HIDE DEF S
    <3> QED BY <1>3, <1>4, <1>6
  <2>2. PICK g : D(g, i - 1)
    BY <2>1
  <2> DEFINE x == wait_complete(g[i - 1], q[i])
             h == [j \in 0..i |-> IF j = i THEN x ELSE g[j]]
  <2>3. \A j \in 0..i - 1 : h[j] = g[j]
    BY <1>4, <1>6
  <2>4. h[i] = wait_complete(h[i - 1], q[i])
    BY <1>4, <1>6, <2>3
  <2>5. \A j \in 0..i : h[j] = IF j = 0 THEN k0 ELSE wait_complete(h[j - 1], q[j])
    <3>1. CASE i \in Nat /\ i > 0
      <4> TAKE j \in 0..i
      <4>1. CASE j = i
        BY <2>4, <3>1, <4>1
      <4>2. CASE j # i
        <5>1. j \in 0..i - 1 /\ (j > 0 => j - 1 \in 0..i - 1)
          BY <3>1, <4>2
        <5>2. h[j] = g[j] /\ (j > 0 => h[j - 1] = g[j - 1])
          BY <2>3, <5>1
        <5>3. g[j] = IF j = 0 THEN k0 ELSE wait_complete(g[j - 1], q[j])
          BY <2>2, <5>1 DEF D
        <5> HIDE DEF h
        <5> QED BY <5>1, <5>2, <5>3
      <4> QED BY <4>1, <4>2
    <3> QED BY <1>4, <1>6, <3>1
  <2>6. h = [j \in 0..i |-> h[j]]
    OBVIOUS
  <2> HIDE DEF h, x
  <2>7. D(h, i)
    BY <2>5, <2>6 DEF D
  <2> QED BY <1>3, <2>7
<1> QED BY <1>4, <1>5, <1>6

(* After i steps of the loop the tasks from the place i + 1 on are still   *)
(* in transit.                                                             *)
Still(q, i) == {q[j] : j \in i + 1..Len(q)}

Drained(k, q, k2, i) ==
  /\ Tidy(k2, Still(q, i)) /\ Follows(k, k2)
  /\ k2.p_loctsk = k.p_loctsk
  /\ \A u \in Task : u \in Still(q, i) \/ u \notin Still(q, 0) => k2.tcb[u] = k.tcb[u]
  /\ \A u \in Still(q, 0) \ Still(q, i) :
       Alike(k.tcb[u], k2.tcb[u]) /\ Awake(k2.tcb[u])

LEMMA DrainStep ==
  ASSUME NEW k, Tidy(k, {}), NEW m \in Mutex, NEW q, q = k.wait_queue[m],
         NEW i \in Nat, i < Len(q), NEW k1, Drained(k, q, k1, i)
  PROVE  Drained(k, q, wait_complete(k1, q[i + 1]), i + 1)
<1> DEFINE t  == q[i + 1]
           X  == Still(q, i)
           X2 == Still(q, i + 1)
           S  == Still(q, 0)
           k2 == wait_complete(k1, t)
           W  == Waiters(k, {}, m)
<1>1. QueueOf(q, W)
  BY DEF Tidy, QueuesOK, WaitQueueOK
<1>2. /\ t \in X /\ X2 = X \ {t} /\ X \subseteq S /\ S = W
  <2> HIDE DEF W
  <2>1. /\ Len(q) \in Nat
        /\ \A j \in 1..Len(q) : q[j] \in W
        /\ \A x \in W : \E j \in 1..Len(q) : q[j] = x
        /\ \A j, l \in 1..Len(q) : q[j] = q[l] => j = l
    BY <1>1, QueueIndex
  <2>2. i + 1 \in 1..Len(q)
    BY <2>1
  <2> DEFINE n == Len(q)
  <2> HIDE DEF n
  <2>3. t \in X /\ X \subseteq S /\ S = W
    BY <2>1, <2>2 DEF Still, n
  <2>4. X2 \subseteq X \ {t}
    BY <2>1, <2>2 DEF Still, n
  <2>5. X \ {t} \subseteq X2
    BY <2>1, <2>2 DEF Still, n
  <2> QED BY <2>3, <2>4, <2>5
<1>3. W \subseteq Task /\ t \in Task /\ Waits(k.tcb[t], m)
  BY <1>2 DEF Waiters
<1>4. k1.tcb[t] = k.tcb[t]
  BY <1>2, <1>3 DEF Drained
<1>5. TSTAT_WAITING(k1.tcb[t].tstat)
  <2>1. k.tcb[t].tstat \in TStat /\ TSTAT_WAIT_MTX(k.tcb[t].tstat)
    BY <1>3, TcbType DEF Tidy, QueuesOK, Waits
  <2> HIDE DEF t
  <2> QED BY <1>4, <2>1, Flags
<1> HIDE DEF X, X2, S, W
<1>6. /\ Tidy(k2, X2) /\ Follows(k1, k2)
      /\ SameObjects(k1, k2)
      /\ OthersSame(k1, k2, t)
      /\ Alike(k1.tcb[t], k2.tcb[t]) /\ Awake(k2.tcb[t])
  <2>1. Tidy(k1, X)
    BY DEF Drained, X
  <2> HIDE DEF t
  <2> QED BY <1>2, <1>3, <1>5, <2>1, WaitCompleted
<1> HIDE DEF t, k2
<1>7. /\ Follows(k, k1) /\ k1.p_loctsk = k.p_loctsk
      /\ \A u \in Task : u \in X \/ u \notin S => k1.tcb[u] = k.tcb[u]
      /\ \A u \in S \ X : Alike(k.tcb[u], k1.tcb[u]) /\ Awake(k1.tcb[u])
  BY DEF Drained, X, S
<1>8. Follows(k, k2) /\ k2.p_loctsk = k.p_loctsk
  BY <1>6, <1>7 DEF Follows, SameObjects
<1>9. \A u \in Task : u \in X2 \/ u \notin S => k2.tcb[u] = k.tcb[u]
  BY <1>2, <1>6, <1>7 DEF OthersSame
<1>10. \A u \in S \ X2 : Alike(k.tcb[u], k2.tcb[u]) /\ Awake(k2.tcb[u])
  <2> TAKE u \in S \ X2
  <2>1. CASE u = t
    BY <1>4, <1>6, <2>1
  <2>2. CASE u # t
    <3>1. u \in S \ X /\ u \in Task
      BY <1>2, <1>3, <2>2
    <3>2. k2.tcb[u] = k1.tcb[u]
      BY <1>6, <2>2, <3>1 DEF OthersSame
    <3> QED BY <1>7, <3>1, <3>2
  <2> QED BY <2>1, <2>2
<1> QED BY <1>6, <1>8, <1>9, <1>10 DEF Drained, X2, S, k2, t

(* init_wait_queue() releases every task that waits for m, and no other.   *)
LEMMA QueueReleased ==
  ASSUME NEW k, Tidy(k, {}), NEW m \in Mutex
  PROVE  LET k2 == init_wait_queue(k, m)
         IN  /\ Tidy(k2, {}) /\ Follows(k, k2)
             /\ k2.p_loctsk = k.p_loctsk
             /\ \A u \in Task : Waits(k.tcb[u], m) =>
                  Alike(k.tcb[u], k2.tcb[u]) /\ Awake(k2.tcb[u])
             /\ \A u \in Task : ~Waits(k.tcb[u], m) => k2.tcb[u] = k.tcb[u]
<1> DEFINE q  == k.wait_queue[m]
           n  == Len(q)
           k0 == [k EXCEPT !.wait_queue[m] = << >>]
           N  == {}
           W  == Waiters(k, N, m)
<1>1. PICK g : Drains(k, m, g, n) /\ init_wait_queue(k, m) = g[n]
  <2> DEFINE f == CHOOSE g : Drains(k, m, g, n)
  <2>1. \E g : Drains(k, m, g, n)
    <3>1. n \in Nat
      <4>1. q \in Seq(Task)
        BY DEF Tidy, QueuesOK, MSet
      <4> HIDE DEF q
      <4> QED BY <4>1
    <3> HIDE DEF n
    <3> QED BY <3>1, DrainsExists
  <2>2. init_wait_queue(k, m) = f[n]
    BY DEF init_wait_queue, Drains
  <2>3. Drains(k, m, f, n)
    <3> HIDE DEF n
    <3> QED BY <2>1
  <2> QED BY <2>2, <2>3
<1>2. QueueOf(q, W) /\ W \subseteq Task /\ k \in MSet
  BY DEF Tidy, QueuesOK, WaitQueueOK, Waiters
<1>3. /\ n \in Nat
      /\ Still(q, 0) = W
      /\ Still(q, n) = {}
  <2> HIDE DEF W
  <2>1. /\ Len(q) \in Nat
        /\ \A j \in 1..Len(q) : q[j] \in W
        /\ \A x \in W : \E j \in 1..Len(q) : q[j] = x
    BY <1>2, QueueIndex
  <2> HIDE DEF q
  <2> QED BY <2>1 DEF Still
<1>4. /\ g[0] = k0
      /\ \A i \in 1..n : g[i] = wait_complete(g[i - 1], q[i])
  <2> HIDE DEF k0, q
  <2>1. g = [i \in 0..n |-> IF i = 0 THEN k0 ELSE wait_complete(g[i - 1], q[i])]
    BY <1>1 DEF Drains, k0, q
  <2> HIDE DEF n
  <2> QED BY <1>3, <2>1
<1>5. Drained(k, q, g[0], 0)
  <2>1. k0 = PutQueue(k, m, << >>)
    BY <1>2 DEF PutQueue
  <2>2. Tidy(k0, W) /\ Moves(k, k0)
    <3> DEFINE e == << >>
    <3>1. W \subseteq W /\ WaitQueueOK(TPRI, k, m, e, W \ W)
      BY QueueEmpty DEF WaitQueueOK, Sorted
    <3>2. k0 = PutQueue(k, m, e)
      BY <2>1
    <3> HIDE DEF e, k0
    <3>3. Tidy(k, N) /\ W \subseteq Waiters(k, N, m) /\ WaitQueueOK(TPRI, k, m, e, Waiters(k, N, m) \ W)
      BY <3>1
    <3>4. N \cup W = W
      OBVIOUS
    <3> HIDE DEF W, N
    <3>5. LET k2 == PutQueue(k, m, e) IN Tidy(k2, N \cup W) /\ Moves(k, k2)
      BY <3>3, LeaveQueue
    <3> QED BY <3>2, <3>4, <3>5
  <2> HIDE DEF k0, W
  <2> QED BY <1>3, <1>4, <2>2 DEF Drained, Moves
<1> HIDE DEF q, n, k0
<1>6. \A i \in 0..n : Drained(k, q, g[i], i)
  <2> DEFINE S == {i \in 0..n : ~Drained(k, q, g[i], i)}
  <2>1. SUFFICES ASSUME S # {} PROVE FALSE
    OBVIOUS
  <2>2. PICK i \in S : \A j \in S : i <= j
    <3>1. S \subseteq Nat
      BY <1>3
    <3> HIDE DEF S
    <3> QED BY <2>1, <3>1, LeastNat
  <2>3. i \in 0..n /\ i # 0
    BY <1>5, <2>2
  <2> DEFINE j == i - 1
  <2>4. j \in Nat /\ j \in 0..n /\ j < n /\ i = j + 1 /\ i \in 1..n /\ ~(i <= j)
    BY <1>3, <2>3
  <2>5. Drained(k, q, g[j], j)
    BY <2>2, <2>4
  <2>6. g[i] = wait_complete(g[j], q[j + 1])
    BY <1>4, <2>4
  <2> HIDE DEF j
  <2>7. Drained(k, q, g[i], i)
    <3>1. q = k.wait_queue[m] /\ j < Len(q)
      BY <2>4 DEF q, n
    <3> QED BY <2>4, <2>5, <2>6, <3>1, DrainStep
  <2> QED BY <2>2, <2>7
<1>7. Drained(k, q, g[n], n)
  BY <1>3, <1>6
<1>8. \A u \in Task : u \in W <=> Waits(k.tcb[u], m)
  BY DEF Waiters
<1> HIDE DEF W
<1> QED BY <1>1, <1>3, <1>7, <1>8 DEF Drained

(* ini_mtx() and del_mtx(). *)
LEMMA MutexFreed ==
  ASSUME NEW k, KOK(k), NEW m \in Mutex
  PROVE  LET k2 == free_mutex(k, m)
         IN  Result(k, k2) /\ k2.p_loctsk[m] = NULL
<1> DEFINE k1 == init_wait_queue(k, m)
           N  == {}
           M  == {m}
           t  == k.p_loctsk[m]
<1>0. k \in MSet /\ Tidy(k, N) /\ OwnersOK(k, N, N) /\ PrioritiesOK(k, N)
  BY DEF KOK, Tidy, QueuesOK
<1>1. /\ Tidy(k1, N) /\ Follows(k, k1)
      /\ k1.p_loctsk = k.p_loctsk
      /\ \A u \in Task : Waits(k.tcb[u], m) =>
           Alike(k.tcb[u], k1.tcb[u]) /\ Awake(k1.tcb[u])
      /\ \A u \in Task : ~Waits(k.tcb[u], m) => k1.tcb[u] = k.tcb[u]
  BY <1>0, QueueReleased
<1> HIDE DEF k1
<1>2. \A u \in Task : /\ Alike(k.tcb[u], k1.tcb[u])
                      /\ TSTAT_DORMANT(k1.tcb[u].tstat) => TSTAT_DORMANT(k.tcb[u].tstat)
                      /\ ~Waits(k1.tcb[u], m)
                      /\ \A n : Waits(k1.tcb[u], n) => Waits(k.tcb[u], n)
  <2> TAKE u \in Task
  <2>1. CASE Waits(k.tcb[u], m)
    BY <1>1, <2>1, AwakeNeutral
  <2>2. CASE ~Waits(k.tcb[u], m)
    BY <1>1, <2>2 DEF Alike
  <2> QED BY <2>1, <2>2
<1>3. OwnersOK(k1, N, N)
  <2>1. \A u \in Task : Owned(k1, N, u) = Owned(k, N, u)
                        /\ k1.tcb[u].p_lastmtx = k.tcb[u].p_lastmtx
    BY <1>1, <1>2 DEF Owned, Alike
  <2> HIDE DEF N
  <2> QED BY <1>0, <1>1, <1>2, <2>1 DEF OwnersOK
<1>4. PrioritiesOK(k1, N)
  <2>1. ASSUME NEW u \in Task PROVE PriOK(k1.tcb[u])
    <3>1. PriOK(k.tcb[u])
      BY <1>0 DEF PrioritiesOK
    <3> QED BY <1>2, <3>1, AlikePri
  <2> QED BY <2>1 DEF PrioritiesOK
<1>5. CASE t = NULL
  <2>1. free_mutex(k, m) = k1
    BY <1>5 DEF free_mutex, k1
  <2>2. k1.p_loctsk[m] = NULL /\ HandsOver(k, k1)
    BY <1>1, <1>5 DEF HandsOver
  <2> QED BY <1>1, <1>3, <1>4, <2>1, <2>2 DEF Result, KOK
<1>6. CASE t # NULL
  <2> DEFINE r  == k1.tcb[t]
             l  == RemoveFirst(r.p_lastmtx, m)
             r1 == [r EXCEPT !.p_lastmtx = l]
             ka == Put(k1, t, r1)
             k2 == PutOwner(ka, m, NULL)
             k3 == IF m \in CEILING THEN mutex_drop_priority(k2, t, ceilpri[m])
                   ELSE k2
  <2>1. /\ t \in Task /\ t \notin N /\ k1 \in MSet
        /\ k1.p_loctsk[m] = t
    BY <1>0, <1>1, <1>6 DEF MSet, Tidy, QueuesOK
  <2>2. r \in TCB /\ r.tstat \in TStat /\ PriOK(r)
    BY <1>4, <2>1, TcbType DEF PrioritiesOK
  <2>3. /\ QueueOf(l, Owned(k1, N, t) \ {m})
        /\ ToSet(r.p_lastmtx) = ToSet(l) \cup {m}
        /\ l \in Seq(Mutex)
    <3>1. QueueOf(r.p_lastmtx, Owned(k1, N, t))
      BY <1>3, <2>1 DEF OwnersOK
    <3>2. m \in Owned(k1, N, t)
      BY <2>1 DEF Owned
    <3>3. QueueOf(l, Owned(k1, N, t) \ {m})
      <4> HIDE DEF N, t
      <4> QED BY <3>1, <3>2, QueueRemove
    <3>4. l \in Seq(Mutex)
      <4>1. Owned(k1, N, t) \ {m} \subseteq Mutex
        BY DEF Owned
      <4> HIDE DEF l
      <4> QED BY <3>3, <4>1, QueueIn
    <3> HIDE DEF l
    <3> QED BY <3>1, <3>2, <3>3, <3>4 DEF QueueOf
  <2>4. free_mutex(k, m) = k3
    <3>1. [k1 EXCEPT !.p_loctsk[m] = NULL,
                     !.tcb[t].p_lastmtx = RemoveFirst(@, m)] = k2
      <4> HIDE DEF t, l
      <4>1. [k1 EXCEPT !.p_loctsk[m] = NULL, !.tcb[t].p_lastmtx = l] = k2
        BY <2>1 DEF PutOwner, Put, MSet
      <4> QED BY <2>1, <4>1 DEF l, MSet
    <3> HIDE DEF k2
    <3> QED BY <1>6, <3>1 DEF free_mutex, k1
  <2> HIDE DEF l, r, t
  <2>5. /\ r1 \in TCB
        /\ r1.priority = r.priority /\ r1.bpriority = r.bpriority
        /\ r1.boosted = r.boosted /\ r1.p_lastmtx = l
        /\ r1.tstat = r.tstat /\ r1.wobj = r.wobj
    BY <2>2, <2>3 DEF TCB
  <2> HIDE DEF r1
  <2>6. /\ Tidy(ka, N) /\ Follows(k1, ka)
        /\ SameObjects(k1, ka) /\ OthersSame(k1, ka, t) /\ ka.tcb[t] = r1
    <3>1. WobjOK(r1) /\ (\A n \in Mutex : Waits(r1, n) <=> Waits(r, n))
      BY <1>1, <2>1, <2>5 DEF Waits, WobjOK, Tidy, QueuesOK, r
    <3>2. t \in k1.tmevtb => TSTAT_WAITING(r1.tstat)
      BY <1>1, <2>5 DEF Tidy, QueuesOK, r
    <3>3. Tidy(ka, N) /\ Follows(k1, ka)
      <4> HIDE DEF N
      <4> QED BY <1>1, <2>1, <2>5, <3>1, <3>2, PutQuiet DEF r
    <3> QED BY <2>1, <2>5, <3>3, PutOK DEF OthersSame
  <2> HIDE DEF ka
  <2>7. OwnersOK(ka, M, N)
    <3>1. OwnersOK(k1, {}, N) /\ QueueOf(l, Owned(k1, {}, t) \ {m})
      BY <1>3, <2>3
    <3>2. ka.p_loctsk = k1.p_loctsk /\ ka.tcb[t].p_lastmtx = l
          /\ ka.tcb[t].tstat = k1.tcb[t].tstat /\ ka.tcb[t].wobj = k1.tcb[t].wobj
      BY <2>5, <2>6 DEF SameObjects, r
    <3> HIDE DEF N
    <3> QED BY <2>1, <2>6, <3>1, <3>2, OwnersShortened
  <2>8. /\ Tidy(k2, N) /\ Follows(ka, k2)
        /\ k2.tcb = ka.tcb /\ k2.p_loctsk[m] = NULL
        /\ \A n \in Mutex \ {m} : k2.p_loctsk[n] = ka.p_loctsk[n]
    <3> HIDE DEF N
    <3> QED BY <2>6, PutOwnerOK
  <2> HIDE DEF k2
  <2>9. OwnersOK(k2, {}, N)
    <3>1. \A u \in Task \ N : ~Waits(ka.tcb[u], m)
      BY <1>2, <2>5, <2>6 DEF OthersSame, Waits, r
    <3>2. OwnersOK(ka, {m}, N)
      BY <2>7
    <3> HIDE DEF N, M
    <3> QED BY <2>8, <3>1, <3>2, OwnersFreed
  <2>10. /\ Tidy(k3, N) /\ Follows(k2, k3)
         /\ k3.p_loctsk = k2.p_loctsk
         /\ OthersSame(k2, k3, t)
         /\ k3.tcb[t].tstat = r.tstat
         /\ k3.tcb[t].wobj = r.wobj
         /\ k3.tcb[t].p_lastmtx = l
         /\ PriOK(k3.tcb[t])
    <3>1. \A n \in CEILING : Waits(r1, n) => Waits(r, n)
      BY <2>5 DEF Waits
    <3>2. k2.tcb[t] = r1
      BY <2>6, <2>8
    <3>3. CASE m \in CEILING
      <4> DEFINE c == ceilpri[m]
      <4>1. k3 = mutex_drop_priority(k2, t, c)
        BY <3>3
      <4>2. Ceil(r) = Ceil(r1) \cup {c}
        BY <2>3, <2>5, <3>3 DEF Ceil
      <4> HIDE DEF k3, c, N
      <4> QED BY <2>1, <2>2, <2>5, <2>8, <3>1, <3>2, <4>1, <4>2, DropsPriority
    <3>4. CASE m \notin CEILING
      <4>1. k3 = k2
        BY <3>4
      <4>2. PriOK(r1)
        BY <2>2, <2>3, <2>5, <3>1, <3>4, PriKept
      <4> HIDE DEF k3
      <4> QED BY <2>5, <2>8, <3>2, <4>1, <4>2 DEF Follows, OthersSame
    <3> QED BY <3>3, <3>4
  <2> HIDE DEF k3
  <2>11. OwnersOK(k3, N, N)
    <3>1. N \ {t} \subseteq N /\ (\A n \in Mutex :
            Waits(k3.tcb[t], n) => k2.p_loctsk[n] # NULL /\ k2.p_loctsk[n] # t)
      <4>1. \A n \in Mutex : Waits(k3.tcb[t], n) => Waits(k2.tcb[t], n)
        BY <2>5, <2>6, <2>8, <2>10 DEF Waits
      <4> QED BY <2>1, <2>9, <4>1 DEF OwnersOK
    <3>2. k3.tcb[t].p_lastmtx = k2.tcb[t].p_lastmtx /\ k3.tcb[t].tstat = k2.tcb[t].tstat
      BY <2>5, <2>6, <2>8, <2>10
    <3>3. OwnersOK(k2, N, N)
      BY <2>9
    <3> HIDE DEF N
    <3> QED BY <2>1, <2>10, <3>1, <3>2, <3>3, OwnersFrame
  <2>12. PrioritiesOK(k3, N)
    <3>1. OthersSame(k1, k3, t)
      BY <2>6, <2>8, <2>10 DEF OthersSame
    <3>2. N \ {t} \subseteq N
      OBVIOUS
    <3> HIDE DEF N
    <3> QED BY <1>4, <2>1, <2>10, <3>1, <3>2, PrioritiesFrame
  <2>13. Follows(k, k3)
    BY <1>1, <2>6, <2>8, <2>10 DEF Follows
  <2>14. k3.p_loctsk[m] = NULL /\ HandsOver(k, k3)
    <3>1. \A n \in Mutex \ {m} : k3.p_loctsk[n] = k.p_loctsk[n]
      BY <1>1, <2>6, <2>8, <2>10 DEF SameObjects
    <3>2. k3.p_loctsk[m] = NULL
      BY <2>8, <2>10
    <3> QED BY <3>1, <3>2 DEF HandsOver
  <2> QED BY <2>4, <2>10, <2>11, <2>12, <2>13, <2>14 DEF Result, KOK
<1> QED BY <1>5, <1>6

--------------------------------------------------------------------------
(* task_terminate().  The task is taken out of whatever queue it is in.    *)
LEMMA SetAside ==
  ASSUME NEW k, Tidy(k, {}), NEW t \in Task, ~TSTAT_DORMANT(k.tcb[t].tstat),
         k.p_schedtsk = t => k.dspflg
  PROVE  LET s  == k.tcb[t].tstat
             k2 == IF TSTAT_RUNNABLE(s) THEN make_non_runnable(k, t)
                   ELSE IF TSTAT_WAITING(s)
                        THEN wait_dequeue_tmevtb(wait_dequeue_wobj(k, t), t)
                   ELSE k
         IN  /\ Tidy(k2, {t}) /\ Follows(k, k2)
             /\ k2.tcb = k.tcb /\ k2.p_loctsk = k.p_loctsk
             /\ t \notin k2.tmevtb
<1> DEFINE s  == k.tcb[t].tstat
           R  == Queued(k, {})
           N  == {}
           T  == {t}
<1>0. /\ k \in MSet /\ s \in TStat /\ Tidy(k, N) /\ t \notin N /\ N \cup T = T
      /\ \A u \in k.tmevtb : TSTAT_WAITING(k.tcb[u].tstat)
  BY TcbType DEF Tidy, QueuesOK
<1>1. CASE TSTAT_RUNNABLE(s)
  <2> DEFINE k2 == make_non_runnable(k, t)
  <2>1. Neutral(s) /\ t \notin k.tmevtb
    BY <1>0, <1>1, Flags
  <2>2. QueuesOK(k, R, T) /\ t \in R
    <3>1. \A m \in Mutex : Waiters(k, T, m) = Waiters(k, N, m)
      BY <2>1 DEF Waiters, Waits, Neutral
    <3>2. Quiet(k, R, N, k, T)
      BY <1>0, <3>1 DEF Quiet, SameSched, Tidy, QueuesOK
    <3>3. QueuesOK(k, R, N) /\ t \in R
      BY <1>0, <1>1 DEF Tidy, Queued
    <3> HIDE DEF R, N, T
    <3> QED BY <3>2, <3>3, QuietChange
  <2>3. /\ QueuesOK(k2, R \ {t}, T) /\ Follows(k, k2)
        /\ k2.tcb = k.tcb /\ SameObjects(k, k2) /\ k2.tmevtb = k.tmevtb
    <3> HIDE DEF R, T
    <3> QED BY <2>2, LeavesReady
  <2> HIDE DEF k2
  <2>4. Queued(k2, T) = R \ {t}
    BY <2>3 DEF Queued
  <2>5. Tidy(k2, T)
    BY <2>3, <2>4 DEF Tidy
  <2> QED BY <1>1, <2>1, <2>3, <2>5 DEF SameObjects, k2
<1>2. CASE ~TSTAT_RUNNABLE(s) /\ TSTAT_WAITING(s)
  <2> DEFINE k1 == wait_dequeue_wobj(k, t)
             k2 == wait_dequeue_tmevtb(k1, t)
  <2>1. Tidy(k1, T) /\ Moves(k, k1)
    <3> HIDE DEF N, T
    <3>1. LET k3 == wait_dequeue_wobj(k, t) IN Tidy(k3, N \cup {t}) /\ Moves(k, k3)
      BY <1>0, <1>2, DequeueWobj
    <3> QED BY <1>0, <3>1 DEF T
  <2> HIDE DEF k1
  <2>2. /\ Tidy(k2, T) /\ Follows(k1, k2)
        /\ k2.tcb = k1.tcb /\ SameObjects(k1, k2) /\ k2.tmevtb = k1.tmevtb \ {t}
    <3> HIDE DEF T
    <3> QED BY <2>1, DequeueTmevtb
  <2> HIDE DEF k2
  <2>3. Follows(k, k2) /\ k2.tcb = k.tcb /\ k2.p_loctsk = k.p_loctsk /\ t \notin k2.tmevtb
    BY <2>1, <2>2 DEF Follows, Moves, SameObjects
  <2> QED BY <1>2, <2>2, <2>3 DEF k2, k1
<1>3. CASE ~TSTAT_RUNNABLE(s) /\ ~TSTAT_WAITING(s)
  <2>1. ~TSTAT_WAIT_MTX(s) /\ t \notin k.tmevtb
    BY <1>0, <1>3, Flags DEF Neutral
  <2>2. Tidy(k, T)
    <3> HIDE DEF N, T
    <3>1. Tidy(k, N \cup {t})
      BY <1>0, <1>3, <2>1, MayLeave
    <3> QED BY <1>0, <3>1 DEF T
  <2> QED BY <1>3, <2>1, <2>2 DEF Follows
<1> QED BY <1>1, <1>2, <1>3

(* mutex_release_all(): the states of its loop.                            *)
TakeFirst(k, t) == [k EXCEPT !.tcb[t].p_lastmtx = Tail(@)]

Releases(k, t, g, n) ==
  g = [i \in 0..n |-> IF i = 0 THEN k
                      ELSE mutex_release(TakeFirst(g[i - 1], t), k.tcb[t].p_lastmtx[i])]

LEMMA ReleasesExists ==
  ASSUME NEW k, NEW t, NEW n \in Nat
  PROVE  \E g : Releases(k, t, g, n)
<1> DEFINE q  == k.tcb[t].p_lastmtx
           D(g, i) == g = [j \in 0..i |-> IF j = 0 THEN k
                                          ELSE mutex_release(TakeFirst(g[j - 1], t), q[j])]
           S  == {i \in Nat : ~\E g : D(g, i)}
<1>1. \A g, i : Releases(k, t, g, i) <=> D(g, i)
  BY DEF Releases
<1> HIDE DEF q
<1> HIDE DEF D
<1>2. SUFFICES ASSUME S # {} PROVE FALSE
  BY <1>1
<1>3. PICK i \in S : \A j \in S : i <= j
  <2>1. S \subseteq Nat
    OBVIOUS
  <2> HIDE DEF S
  <2> QED BY <1>2, <2>1, LeastNat
<1>4. i \in Nat
  BY <1>3
<1>5. CASE i = 0
  <2> DEFINE g == [j \in 0..0 |-> k]
  <2>1. D(g, 0)
    BY DEF D
  <2> HIDE DEF g
  <2> QED BY <1>3, <1>5, <2>1
<1>6. CASE i > 0
  <2>1. i - 1 \in Nat /\ i - 1 \notin S
    <3> HIDE DEF S
    <3> QED BY <1>3, <1>4, <1>6
  <2>2. PICK g : D(g, i - 1)
    BY <2>1
  <2> DEFINE x == mutex_release(TakeFirst(g[i - 1], t), q[i])
             h == [j \in 0..i |-> IF j = i THEN x ELSE g[j]]
  <2>3. \A j \in 0..i - 1 : h[j] = g[j]
    BY <1>4, <1>6
  <2>4. h[i] = mutex_release(TakeFirst(h[i - 1], t), q[i])
    BY <1>4, <1>6, <2>3
  <2>5. \A j \in 0..i : h[j] = IF j = 0 THEN k ELSE mutex_release(TakeFirst(h[j - 1], t), q[j])
    <3>1. CASE i \in Nat /\ i > 0
      <4> TAKE j \in 0..i
      <4>1. CASE j = i
        BY <2>4, <3>1, <4>1
      <4>2. CASE j # i
        <5>1. j \in 0..i - 1 /\ (j > 0 => j - 1 \in 0..i - 1)
          BY <3>1, <4>2
        <5>2. h[j] = g[j] /\ (j > 0 => h[j - 1] = g[j - 1])
          BY <2>3, <5>1
        <5>3. g[j] = IF j = 0 THEN k ELSE mutex_release(TakeFirst(g[j - 1], t), q[j])
          BY <2>2, <5>1 DEF D
        <5> HIDE DEF h
        <5> QED BY <5>1, <5>2, <5>3
      <4> QED BY <4>1, <4>2
    <3> QED BY <1>4, <1>6, <3>1
  <2>6. h = [j \in 0..i |-> h[j]]
    OBVIOUS
  <2> HIDE DEF h, x
  <2>7. D(h, i)
    BY <2>5, <2>6 DEF D
  <2> QED BY <1>3, <2>7
<1> QED BY <1>4, <1>5, <1>6

(* After i steps the first i mutexes of the list have been released.       *)
Released1(k, t, k2, m) ==
  /\ k.p_loctsk[m] = t
  /\ k2.p_loctsk[m] = IF k.wait_queue[m] = << >> THEN NULL
                      ELSE Head(k.wait_queue[m])

ReleasedTo(k, t, k2, i) ==
  /\ Tidy(k2, {t}) /\ OwnersOK(k2, {}, {t}) /\ PrioritiesOK(k2, {t})
  /\ Follows(k, k2) /\ t \notin k2.tmevtb
  /\ Len(k2.tcb[t].p_lastmtx) = Len(k.tcb[t].p_lastmtx) - i
  /\ \A j \in 1..Len(k.tcb[t].p_lastmtx) - i :
       k2.tcb[t].p_lastmtx[j] = k.tcb[t].p_lastmtx[i + j]
  /\ \A m \in Mutex :
       \/ k2.p_loctsk[m] = k.p_loctsk[m] /\ k2.wait_queue[m] = k.wait_queue[m]
       \/ Released1(k, t, k2, m)

LEMMA ReleaseStep ==
  ASSUME NEW k, NEW t \in Task, Tidy(k, {t}),
         NEW i \in Nat, i < Len(k.tcb[t].p_lastmtx),
         NEW k1, ReleasedTo(k, t, k1, i)
  PROVE  ReleasedTo(k, t, mutex_release(TakeFirst(k1, t), k.tcb[t].p_lastmtx[i + 1]), i + 1)
<1> DEFINE X  == {t}
           r  == k1.tcb[t]
           q  == k.tcb[t].p_lastmtx
           q1 == r.p_lastmtx
           l  == Tail(q1)
           m  == q[i + 1]
           M  == {m}
           r1 == [r EXCEPT !.p_lastmtx = l]
           ka == TakeFirst(k1, t)
           k2 == mutex_release(ka, m)
           n  == Len(q) - i
<1>0. /\ k1 \in MSet /\ r \in TCB /\ t \in X
      /\ Tidy(k1, X) /\ OwnersOK(k1, {}, X) /\ PrioritiesOK(k1, X)
      /\ Follows(k, k1) /\ t \notin k1.tmevtb
      /\ \A u \in k1.tmevtb : TSTAT_WAITING(k1.tcb[u].tstat)
  BY TcbType DEF ReleasedTo, Tidy, QueuesOK
<1>1. /\ Len(q) \in Nat /\ n \in Nat /\ n > 0
      /\ Len(q1) = n /\ \A j \in 1..n : q1[j] = q[i + j]
  <2>1. q \in Seq(Mutex)
    BY TcbType DEF Tidy, QueuesOK
  <2>2. Len(q1) = n /\ \A j \in 1..n : q1[j] = q[i + j]
    BY DEF ReleasedTo
  <2>3. i < Len(q)
    OBVIOUS
  <2> HIDE DEF q, q1
  <2>4. Len(q) \in Nat
    BY <2>1
  <2> QED BY <2>2, <2>3, <2>4
<1>2. /\ m = Head(q1) /\ m \in Mutex /\ k1.p_loctsk[m] = t
      /\ QueueOf(l, Owned(k1, {}, t) \ {m})
      /\ l \in Seq(Mutex)
      /\ Len(l) = Len(q1) - 1 /\ \A j \in 1..Len(q1) - 1 : l[j] = q1[j + 1]
  <2>1. QueueOf(q1, Owned(k1, {}, t))
    BY <1>0 DEF OwnersOK
  <2>2. q1 # << >> /\ q1[1] = m
    <3>1. Len(q1) > 0 /\ q1[1] = q[i + 1]
      BY <1>1
    <3>2. Len(<< >>) = 0
      OBVIOUS
    <3> HIDE DEF q1
    <3> QED BY <3>1, <3>2
  <2> HIDE DEF m, q1
  <2>3. m = Head(q1) /\ m \in Owned(k1, {}, t)
    BY <2>1, <2>2, QueueHead
  <2>4. QueueOf(l, Owned(k1, {}, t) \ {m}) /\ Removed(q1, l, 1)
    BY <2>1, <2>2, <2>3, QueueTail
  <2>5. l \in Seq(Mutex)
    <3>1. Owned(k1, {}, t) \ {m} \subseteq Mutex
      BY DEF Owned
    <3> HIDE DEF l
    <3> QED BY <2>4, <3>1, QueueIn
  <2>6. \A j \in 1..Len(q1) - 1 : l[j] = q1[j + 1]
    <3> HIDE DEF l
    <3>1. Len(q1) \in Nat
      BY <1>1 DEF q1
    <3> QED BY <2>4, <3>1 DEF Removed
  <2> HIDE DEF l
  <2> QED BY <2>3, <2>4, <2>5, <2>6 DEF Owned, Removed
<1>3. ka = Put(k1, t, r1)
  <2>1. ka = [k1 EXCEPT !.tcb[t].p_lastmtx = l]
    BY <1>0 DEF TakeFirst, MSet
  <2> HIDE DEF ka, l
  <2>3. [k1 EXCEPT !.tcb[t].p_lastmtx = l] = Put(k1, t, r1)
    BY DEF Put
  <2> QED BY <2>1, <2>3
<1> HIDE DEF ka, l, r, m, q, q1
<1>4. /\ r1 \in TCB /\ r1.p_lastmtx = l /\ r1.tstat = r.tstat /\ r1.wobj = r.wobj
  BY <1>0, <1>2 DEF TCB
<1> HIDE DEF r1
<1>5. /\ Tidy(ka, X) /\ Follows(k1, ka)
      /\ SameObjects(k1, ka) /\ OthersSame(k1, ka, t) /\ ka.tcb[t] = r1
      /\ ka.tmevtb = k1.tmevtb
  <2>1. Tidy(ka, X) /\ Follows(k1, ka)
    <3> HIDE DEF X
    <3> QED BY <1>0, <1>3, <1>4, PutQuiet
  <2> QED BY <1>0, <1>3, <1>4, <2>1, PutOK DEF OthersSame
<1>6. OwnersOK(ka, {m}, X)
  <2>1. ka.p_loctsk = k1.p_loctsk /\ ka.tcb[t].p_lastmtx = l
        /\ ka.tcb[t].tstat = k1.tcb[t].tstat /\ ka.tcb[t].wobj = k1.tcb[t].wobj
    BY <1>4, <1>5 DEF SameObjects, r
  <2> HIDE DEF X
  <2> QED BY <1>0, <1>2, <1>5, <2>1, OwnersShortened
<1>7. PrioritiesOK(ka, X)
  <2>1. X \ {t} \subseteq X
    OBVIOUS
  <2> HIDE DEF X
  <2> QED BY <1>0, <1>5, <2>1, PrioritiesFrame
<1>8. /\ Tidy(k2, X) /\ OwnersOK(k2, {}, X) /\ PrioritiesOK(k2, X)
      /\ Follows(ka, k2)
      /\ \A u \in Task : u \in X => k2.tcb[u] = ka.tcb[u]
      /\ k2.tmevtb \subseteq ka.tmevtb
      /\ \A o \in Mutex \ {m} : /\ k2.p_loctsk[o] = ka.p_loctsk[o]
                                /\ k2.wait_queue[o] = ka.wait_queue[o]
      /\ k2.p_loctsk[m] = IF ka.wait_queue[m] = << >> THEN NULL
                          ELSE Head(ka.wait_queue[m])
  <2>1. X \subseteq X
    OBVIOUS
  <2> HIDE DEF X
  <2> QED BY <1>2, <1>5, <1>6, <1>7, <2>1, Released
<1> HIDE DEF k2
<1>9. k2.tcb[t].p_lastmtx = l
  BY <1>0, <1>4, <1>5, <1>8
<1>10. /\ Len(l) = Len(q) - (i + 1)
       /\ \A j \in 1..Len(q) - (i + 1) : l[j] = q[i + 1 + j]
  <2>1. Len(l) = n - 1 /\ Len(q) - (i + 1) = n - 1
    BY <1>1, <1>2 DEF n
  <2>2. ASSUME NEW j \in 1..n - 1 PROVE l[j] = q[i + 1 + j]
    <3>1. l[j] = q1[j + 1] /\ j + 1 \in 1..n /\ i + (j + 1) = i + 1 + j
      BY <1>1, <1>2, <2>2
    <3>2. q1[j + 1] = q[i + (j + 1)]
      BY <1>1, <3>1
    <3> QED BY <3>1, <3>2
  <2> QED BY <2>1, <2>2
<1>11. Follows(k, k2) /\ t \notin k2.tmevtb
  BY <1>0, <1>5, <1>8 DEF Follows
<1>12. ASSUME NEW o \in Mutex
       PROVE  \/ k2.p_loctsk[o] = k.p_loctsk[o] /\ k2.wait_queue[o] = k.wait_queue[o]
              \/ Released1(k, t, k2, o)
  <2>1. \/ k1.p_loctsk[o] = k.p_loctsk[o] /\ k1.wait_queue[o] = k.wait_queue[o]
        \/ Released1(k, t, k1, o)
    BY DEF ReleasedTo
  <2>2. CASE o # m
    BY <1>5, <1>8, <2>1, <2>2 DEF SameObjects, Released1
  <2>3. CASE o = m
    <3>1. k1.p_loctsk[m] = t
      BY <1>2
    <3>2. k.wait_queue[m] # << >> => Head(k.wait_queue[m]) # t
      <4>1. k.wait_queue[m] # << >> => Best(k, X, m, Head(k.wait_queue[m]))
        <5>1. Tidy(k, X)
          OBVIOUS
        <5> HIDE DEF X
        <5> QED BY <1>2, <5>1, BestHead
      <4> QED BY <4>1 DEF Best, Waiters
    <3>3. k1.p_loctsk[m] = k.p_loctsk[m] /\ k1.wait_queue[m] = k.wait_queue[m]
      BY <2>1, <2>3, <3>1, <3>2, NULLAssumption DEF Released1
    <3> QED BY <1>5, <1>8, <2>3, <3>1, <3>3 DEF SameObjects, Released1
  <2> QED BY <2>2, <2>3
<1> QED BY <1>8, <1>9, <1>10, <1>11, <1>12 DEF ReleasedTo, X, k2, ka, m, q

LEMMA AllReleased ==
  ASSUME NEW k, NEW t \in Task, Tidy(k, {t}), OwnersOK(k, {}, {t}),
         PrioritiesOK(k, {t}), t \notin k.tmevtb
  PROVE  LET k2 == mutex_release_all(k, t)
         IN  ReleasedTo(k, t, k2, Len(k.tcb[t].p_lastmtx))
<1> DEFINE q == k.tcb[t].p_lastmtx
           n == Len(q)
<1>1. q \in Seq(Mutex) /\ n \in Nat
  <2>1. q \in Seq(Mutex)
    BY TcbType DEF Tidy, QueuesOK
  <2> HIDE DEF q
  <2> QED BY <2>1
<1>2. PICK g : Releases(k, t, g, n) /\ mutex_release_all(k, t) = g[n]
  <2> DEFINE f == CHOOSE g : Releases(k, t, g, n)
  <2>1. \E g : Releases(k, t, g, n)
    <3> HIDE DEF n
    <3> QED BY <1>1, ReleasesExists
  <2>2. mutex_release_all(k, t) = f[n]
    BY DEF mutex_release_all, Releases, TakeFirst
  <2>3. Releases(k, t, f, n)
    <3> HIDE DEF n
    <3> QED BY <2>1
  <2> QED BY <2>2, <2>3
<1>3. /\ g[0] = k
      /\ \A i \in 1..n : g[i] = mutex_release(TakeFirst(g[i - 1], t), q[i])
  <2> HIDE DEF q
  <2>1. g = [i \in 0..n |-> IF i = 0 THEN k
                            ELSE mutex_release(TakeFirst(g[i - 1], t), q[i])]
    BY <1>2 DEF Releases, q
  <2> HIDE DEF n
  <2> QED BY <1>1, <2>1
<1>4. ReleasedTo(k, t, g[0], 0)
  <2>1. Len(q) = Len(q) - 0 /\ \A j \in 1..Len(q) - 0 : q[j] = q[0 + j]
    <3> HIDE DEF q
    <3> QED BY <1>1
  <2> QED BY <1>3, <2>1 DEF ReleasedTo, Follows
<1> HIDE DEF n, q
<1>5. \A i \in 0..n : ReleasedTo(k, t, g[i], i)
  <2> DEFINE S == {i \in 0..n : ~ReleasedTo(k, t, g[i], i)}
  <2>1. SUFFICES ASSUME S # {} PROVE FALSE
    OBVIOUS
  <2>2. PICK i \in S : \A j \in S : i <= j
    <3>1. S \subseteq Nat
      BY <1>1
    <3> HIDE DEF S
    <3> QED BY <2>1, <3>1, LeastNat
  <2>3. i \in 0..n /\ i # 0
    BY <1>4, <2>2
  <2> DEFINE j == i - 1
  <2>4. j \in Nat /\ j \in 0..n /\ j < n /\ i = j + 1 /\ i \in 1..n /\ ~(i <= j)
    BY <1>1, <2>3
  <2>5. ReleasedTo(k, t, g[j], j)
    BY <2>2, <2>4
  <2>6. g[i] = mutex_release(TakeFirst(g[j], t), q[j + 1])
    BY <1>3, <2>4
  <2> HIDE DEF j
  <2>7. ReleasedTo(k, t, g[i], i)
    BY <2>4, <2>5, <2>6, ReleaseStep DEF q, n
  <2> QED BY <2>2, <2>7
<1> QED BY <1>1, <1>2, <1>5 DEF n, q

LEMMA DormantOK ==
  ASSUME NEW t \in Task
  PROVE  LET r == DormantTCB(t)
         IN  /\ r \in TCB /\ r.tstat = TS_DORMANT /\ r.p_lastmtx = << >>
             /\ WobjOK(r) /\ (\A m : ~Waits(r, m))
             /\ ~TSTAT_RUNNABLE(r.tstat) /\ ~TSTAT_WAIT_MTX(r.tstat)
             /\ PriOK(r)
<1> DEFINE r == DormantTCB(t)
           p == ipriority[t]
<1>1. p \in TPri
  BY MutexAssumption
<1> HIDE DEF p
<1>2. /\ r \in TCB /\ r.tstat = TS_DORMANT /\ r.p_lastmtx = << >>
      /\ r.priority = p /\ r.bpriority = p /\ r.boosted = FALSE
  BY <1>1, Flags DEF TCB, DormantTCB, p
<1> HIDE DEF r
<1>3. /\ WobjOK(r) /\ (\A m : ~Waits(r, m))
      /\ ~TSTAT_RUNNABLE(r.tstat) /\ ~TSTAT_WAIT_MTX(r.tstat)
  BY <1>2, Flags DEF WobjOK, Waits, Neutral
<1>4. Ceil(r) = {}
  BY <1>2 DEF Ceil, ToSet
<1>5. PriOK(r)
  <2>1. p <= p
    BY <1>1, TNUM_TPRIAssumption DEF TPri
  <2> QED BY <1>2, <1>3, <1>4, <2>1 DEF PriOK
<1> QED BY <1>2, <1>3, <1>5 DEF r

(* ext_tsk() and ter_tsk(). *)
LEMMA Terminated ==
  ASSUME NEW k, KOK(k), NEW t \in Task, ~TSTAT_DORMANT(k.tcb[t].tstat),
         k.p_schedtsk = t => k.dspflg
  PROVE  Result(k, task_terminate(k, t))
<1> DEFINE s  == k.tcb[t].tstat
           k1 == IF TSTAT_RUNNABLE(s) THEN make_non_runnable(k, t)
                 ELSE IF TSTAT_WAITING(s)
                      THEN wait_dequeue_tmevtb(wait_dequeue_wobj(k, t), t)
                 ELSE k
           k2 == mutex_release_all(k1, t)
           r  == DormantTCB(t)
           k3 == Put(k2, t, r)
           N  == {}
           T  == {t}
<1>0. /\ k \in MSet /\ Tidy(k, N) /\ OwnersOK(k, N, N) /\ PrioritiesOK(k, N)
      /\ T \ {t} = N /\ t \in T
  BY DEF KOK, Tidy, QueuesOK
<1>1. /\ Tidy(k1, T) /\ Follows(k, k1)
      /\ k1.tcb = k.tcb /\ k1.p_loctsk = k.p_loctsk
      /\ t \notin k1.tmevtb
  BY <1>0, SetAside
<1>2. task_terminate(k, t) = [k2 EXCEPT !.tcb[t] = r]
  BY DEF task_terminate
<1> HIDE DEF k1, k2
<1>3. OwnersOK(k1, N, T) /\ PrioritiesOK(k1, T)
  <2>1. \A u \in Task : Owned(k1, N, u) = Owned(k, N, u)
    BY <1>1 DEF Owned
  <2> HIDE DEF N
  <2> QED BY <1>0, <1>1, <2>1 DEF OwnersOK, PrioritiesOK
<1> DEFINE n == Len(k1.tcb[t].p_lastmtx)
<1>4. ReleasedTo(k1, t, k2, n)
  BY <1>1, <1>3, AllReleased DEF k2
<1>5. /\ k2 \in MSet /\ Tidy(k2, T) /\ OwnersOK(k2, N, T) /\ PrioritiesOK(k2, T)
      /\ Follows(k1, k2) /\ t \notin k2.tmevtb
  BY <1>4 DEF ReleasedTo, Tidy, QueuesOK
<1>6. k2.tcb[t].p_lastmtx = << >>
  <2> DEFINE q == k2.tcb[t].p_lastmtx
  <2>1. q \in Seq(Mutex) /\ Len(q) = n - n
    BY <1>4, <1>5, TcbType DEF ReleasedTo
  <2>2. n \in Nat
    <3> DEFINE q1 == k1.tcb[t].p_lastmtx
    <3>1. q1 \in Seq(Mutex)
      BY <1>1, TcbType DEF Tidy, QueuesOK
    <3> HIDE DEF q1
    <3>2. Len(q1) \in Nat
      BY <3>1
    <3> QED BY <3>2 DEF q1
  <2> HIDE DEF q, n
  <2>3. Len(q) = 0
    BY <2>1, <2>2
  <2>4. q = << >>
    BY <2>1, <2>3
  <2> QED BY <2>4 DEF q
<1>7. /\ r \in TCB /\ r.tstat = TS_DORMANT /\ r.p_lastmtx = << >>
      /\ WobjOK(r) /\ (\A m : ~Waits(r, m))
      /\ ~TSTAT_RUNNABLE(r.tstat) /\ ~TSTAT_WAIT_MTX(r.tstat)
      /\ PriOK(r)
  BY DormantOK
<1> HIDE DEF r
<1>8. task_terminate(k, t) = k3
  BY <1>2 DEF Put
<1> HIDE DEF k3
<1>9. Tidy(k3, T) /\ Follows(k2, k3)
  <2> HIDE DEF T
  <2> QED BY <1>0, <1>5, <1>7, PutQuiet DEF k3
<1>10. SameObjects(k2, k3) /\ k3.tcb[t] = r /\ OthersSame(k2, k3, t)
  BY <1>5, <1>7, PutOK DEF k3, OthersSame
<1>11. Tidy(k3, N)
  <2> HIDE DEF T, N
  <2> QED BY <1>0, <1>7, <1>9, <1>10, MayStay
<1>12. OwnersOK(k3, N, N)
  <2>1. k3.p_loctsk = k2.p_loctsk
    BY <1>10 DEF SameObjects
  <2>2. \A u \in Task : Owned(k3, N, u) = Owned(k2, N, u)
    BY <2>1 DEF Owned
  <2>3. \A u \in Task : k3.tcb[u].p_lastmtx = k2.tcb[u].p_lastmtx
    BY <1>6, <1>7, <1>10 DEF OthersSame
  <2>4. \A u \in Task : TSTAT_DORMANT(k3.tcb[u].tstat) => k3.tcb[u].p_lastmtx = << >>
    BY <1>5, <1>7, <1>10 DEF OthersSame, OwnersOK
  <2>5. \A u \in Task \ N : \A m \in Mutex :
          Waits(k3.tcb[u], m) => k3.p_loctsk[m] # NULL /\ k3.p_loctsk[m] # u
    BY <1>5, <1>7, <1>10, <2>1 DEF OthersSame, OwnersOK
  <2> HIDE DEF N
  <2> QED BY <1>5, <2>2, <2>3, <2>4, <2>5 DEF OwnersOK
<1>13. PrioritiesOK(k3, N)
  BY <1>5, <1>7, <1>10 DEF OthersSame, PrioritiesOK
<1>14. Follows(k, k3)
  BY <1>1, <1>5, <1>9 DEF Follows
<1>15. HandsOver(k, k3)
  <2> SUFFICES ASSUME NEW m \in Mutex
               PROVE  \/ k3.p_loctsk[m] = NULL
                      \/ k3.p_loctsk[m] = k.p_loctsk[m]
                      \/ k.p_loctsk[m] # NULL /\ Best(k, {}, m, k3.p_loctsk[m])
    BY DEF HandsOver
  <2>1. k3.p_loctsk[m] = k2.p_loctsk[m]
    BY <1>10 DEF SameObjects
  <2>2. \/ k2.p_loctsk[m] = k1.p_loctsk[m]
        \/ Released1(k1, t, k2, m)
    BY <1>4 DEF ReleasedTo
  <2>3. CASE k2.p_loctsk[m] = k1.p_loctsk[m]
    BY <1>1, <2>1, <2>3
  <2>4. CASE Released1(k1, t, k2, m)
    <3>1. k.p_loctsk[m] = t /\ t # NULL
      BY <1>1, <2>4, NULLAssumption DEF Released1
    <3> DEFINE u == Head(k1.wait_queue[m])
    <3>2. CASE k1.wait_queue[m] # << >>
      <4>1. k2.p_loctsk[m] = u
        BY <2>4, <3>2 DEF Released1
      <4> HIDE DEF u
      <4>2. Best(k1, T, m, u)
        <5> HIDE DEF T
        <5> QED BY <1>1, <3>2, BestHead DEF u
      <4>3. Waiters(k1, T, m) = Waiters(k, N, m)
        <5>1. ~Waits(k.tcb[t], m)
          BY <1>0, <3>1 DEF OwnersOK
        <5> QED BY <1>1, <5>1 DEF Waiters
      <4>4. Best(k, N, m, u)
        <5> HIDE DEF T, N
        <5> QED BY <1>1, <4>2, <4>3 DEF Best
      <4> QED BY <2>1, <3>1, <4>1, <4>4
    <3>3. CASE k1.wait_queue[m] = << >>
      BY <2>1, <2>4, <3>3 DEF Released1
    <3> QED BY <3>2, <3>3
  <2> QED BY <2>2, <2>3, <2>4
<1> QED BY <1>8, <1>11, <1>12, <1>13, <1>14, <1>15 DEF Result, KOK

--------------------------------------------------------------------------
(* The services that change the state of one task.                         *)
LEMMA StateChanged ==
  ASSUME NEW k, KOK(k), NEW k2, Tidy(k2, {}), Follows(k, k2),
         k2.p_loctsk = k.p_loctsk, NEW t \in Task, OthersSame(k, k2, t),
         Alike(k.tcb[t], k2.tcb[t]),
         TSTAT_DORMANT(k2.tcb[t].tstat) => TSTAT_DORMANT(k.tcb[t].tstat),
         \A m \in Mutex : Waits(k2.tcb[t], m) =>
           \/ Waits(k.tcb[t], m)
           \/ /\ k.p_loctsk[m] # NULL /\ k.p_loctsk[m] # t
              /\ m \in CEILING => ceilpri[m] <= k.tcb[t].bpriority
  PROVE  Result(k, k2)
<1> DEFINE N == {}
<1>0. /\ OwnersOK(k, N, N) /\ PrioritiesOK(k, N) /\ N \ {t} \subseteq N
      /\ CEILING \subseteq Mutex
  BY MutexAssumption, WaitQueueAssumption DEF KOK, Mutex
<1>1. OwnersOK(k2, N, N)
  <2>1. \A m \in Mutex : Waits(k2.tcb[t], m) => k.p_loctsk[m] # NULL /\ k.p_loctsk[m] # t
    BY <1>0 DEF OwnersOK
  <2>2. k2.tcb[t].p_lastmtx = k.tcb[t].p_lastmtx
    BY DEF Alike
  <2> HIDE DEF N
  <2> QED BY <1>0, <2>1, <2>2, OwnersFrame
<1>2. PriOK(k2.tcb[t])
  <2>1. PriOK(k.tcb[t])
    BY <1>0 DEF PrioritiesOK
  <2> QED BY <1>0, <2>1, AlikePri
<1>3. PrioritiesOK(k2, N)
  <2> HIDE DEF N
  <2> QED BY <1>0, <1>2, PrioritiesFrame
<1>4. HandsOver(k, k2)
  BY DEF HandsOver
<1> QED BY <1>1, <1>3, <1>4 DEF Result, KOK

(* act_tsk(), and rsm_tsk() for a task that does not wait.                 *)
LEMMA Activated ==
  ASSUME NEW k, KOK(k), NEW t \in Task, ~TSTAT_RUNNABLE(k.tcb[t].tstat),
         ~TSTAT_WAITING(k.tcb[t].tstat)
  PROVE  Result(k, make_active(k, t))
<1> DEFINE r  == [k.tcb[t] EXCEPT !.tstat = TS_RUNNABLE]
           k1 == set_tstat(k, t, TS_RUNNABLE)
           k2 == make_runnable(k1, t)
           N  == {}
           T  == {t}
<1>0. /\ k \in MSet /\ Tidy(k, N) /\ N \cup T = T /\ T \ {t} = N /\ t \in T /\ t \notin N
      /\ k.tcb[t].tstat \in TStat /\ TS_RUNNABLE \in TStat
      /\ \A u \in k.tmevtb : TSTAT_WAITING(k.tcb[u].tstat)
  BY TcbType, Flags DEF KOK, Tidy, QueuesOK
<1>1. /\ k1 = Put(k, t, r) /\ r \in TCB /\ r.tstat = TS_RUNNABLE
      /\ Alike(k.tcb[t], r)
  BY <1>0, SetTstat DEF Alike
<1>2. make_active(k, t) = k2
  BY DEF make_active
<1> HIDE DEF r, k1
<1>3. Tidy(k, T)
  <2>1. ~TSTAT_WAIT_MTX(k.tcb[t].tstat)
    BY <1>0, Flags DEF Neutral
  <2> HIDE DEF N, T
  <2>2. Tidy(k, N \cup {t})
    BY <1>0, <2>1, MayLeave
  <2> QED BY <1>0, <2>2 DEF T
<1>4. /\ Tidy(k1, T) /\ Follows(k, k1)
      /\ SameObjects(k, k1) /\ OthersSame(k, k1, t) /\ k1.tcb[t] = r
  <2>1. t \in k.tmevtb => TSTAT_WAITING(r.tstat)
    BY <1>0
  <2>2. Tidy(k1, T) /\ Follows(k, k1)
    <3> HIDE DEF T
    <3> QED BY <1>0, <1>1, <1>3, <2>1, PutQuiet
  <2> QED BY <1>0, <1>1, <2>2, PutOK DEF OthersSame
<1>5. /\ Tidy(k2, N) /\ Follows(k1, k2)
      /\ k2.tcb = k1.tcb /\ SameObjects(k1, k2)
  <2>1. TSTAT_RUNNABLE(k1.tcb[t].tstat)
    BY <1>1, <1>4, Flags
  <2> HIDE DEF T, N
  <2>2. LET k3 == make_runnable(k1, t)
        IN  /\ Tidy(k3, T \ {t}) /\ Follows(k1, k3)
            /\ k3.tcb = k1.tcb /\ SameObjects(k1, k3)
    BY <1>0, <1>4, <2>1, EntersReady
  <2> QED BY <1>0, <2>2
<1> HIDE DEF k2
<1>6. /\ Follows(k, k2) /\ k2.p_loctsk = k.p_loctsk /\ OthersSame(k, k2, t)
      /\ Alike(k.tcb[t], k2.tcb[t]) /\ Awake(k2.tcb[t])
  BY <1>1, <1>4, <1>5 DEF Follows, SameObjects, OthersSame, Awake
<1>7. Result(k, k2)
  <2>1. Tidy(k2, {})
    BY <1>5
  <2> QED BY <1>6, <2>1, AwakeNeutral, StateChanged
<1> QED BY <1>2, <1>7

(* loc_mtx() and tloc_mtx() on a mutex that another task has locked.       *)
LEMMA LockWaits ==
  ASSUME NEW k, KOK(k), NEW t \in Task, TSTAT_RUNNABLE(k.tcb[t].tstat),
         k.p_schedtsk = t => k.dspflg,
         NEW m \in Mutex, NEW timed \in BOOLEAN,
         k.p_loctsk[m] # NULL, k.p_loctsk[m] # t,
         m \in CEILING => k.tcb[t].bpriority >= ceilpri[m]
  PROVE  Result(k, wobj_make_wait_tmout(k, m, t, TS_WAITING_MTX, timed))
<1> DEFINE k2 == wobj_make_wait_tmout(k, m, t, TS_WAITING_MTX, timed)
<1>1. /\ Tidy(k2, {}) /\ Follows(k, k2)
      /\ k2.p_loctsk = k.p_loctsk
      /\ OthersSame(k, k2, t)
      /\ Alike(k.tcb[t], k2.tcb[t])
      /\ k2.tcb[t].tstat = TS_WAITING_MTX /\ k2.tcb[t].wobj = m
  BY WaitsForMutex DEF KOK
<1> HIDE DEF k2
<1>2. m \in CEILING => ceilpri[m] <= k.tcb[t].bpriority
  <2>1. k.tcb[t].bpriority \in TPri
    BY TcbType DEF KOK, Tidy, QueuesOK
  <2>2. m \in CEILING => ceilpri[m] \in TPri
    BY MutexAssumption
  <2> QED BY <2>1, <2>2, TNUM_TPRIAssumption DEF TPri
<1>3. \A n \in Mutex : Waits(k2.tcb[t], n) => n = m
  BY <1>1 DEF Waits
<1>4. ~TSTAT_DORMANT(k2.tcb[t].tstat)
  <2>1. TSTAT_WAITING(TS_WAITING_MTX) /\ TS_WAITING_MTX \in TStat
    BY Flags
  <2> QED BY <1>1, <2>1, Flags
<1>5. \A n \in Mutex : Waits(k2.tcb[t], n) =>
           \/ Waits(k.tcb[t], n)
           \/ /\ k.p_loctsk[n] # NULL /\ k.p_loctsk[n] # t
              /\ n \in CEILING => ceilpri[n] <= k.tcb[t].bpriority
  BY <1>2, <1>3
<1> QED BY <1>1, <1>4, <1>5, StateChanged DEF k2

(* dly_tsk(). *)
LEMMA Delayed ==
  ASSUME NEW k, KOK(k), NEW t \in Task, TSTAT_RUNNABLE(k.tcb[t].tstat),
         k.p_schedtsk = t => k.dspflg
  PROVE  Result(k, make_wait_tmout(k, t, TS_WAITING_DLY, TRUE))
<1> DEFINE k2 == make_wait_tmout(k, t, TS_WAITING_DLY, TRUE)
           N  == {}
           T  == {t}
           s  == TS_WAITING_DLY
<1>0. /\ Tidy(k, {}) /\ T \ {t} = N /\ t \in T
      /\ s \in TStat /\ TSTAT_WAITING(s) /\ Neutral(s) /\ ~TSTAT_RUNNABLE(s)
      /\ ~TSTAT_DORMANT(s)
  BY Flags DEF KOK
<1> HIDE DEF s
<1>1. /\ Tidy(k2, T) /\ Follows(k, k2)
      /\ SameObjects(k, k2)
      /\ OthersSame(k, k2, t)
      /\ Alike(k.tcb[t], k2.tcb[t]) /\ k2.tcb[t].tstat = s
  <2> DEFINE b == TRUE
  <2>0. b \in BOOLEAN
    OBVIOUS
  <2> HIDE DEF b
  <2>1. LET k3 == make_wait_tmout(k, t, s, b)
        IN  /\ Tidy(k3, {t}) /\ Follows(k, k3)
            /\ SameObjects(k, k3)
            /\ OthersSame(k, k3, t)
            /\ Alike(k.tcb[t], k3.tcb[t]) /\ k3.tcb[t].tstat = s
    BY <1>0, <2>0, StartsWait
  <2> QED BY <2>1 DEF s, b
<1> HIDE DEF k2
<1>2. Tidy(k2, N)
  <2>1. WobjOK(k2.tcb[t]) /\ ~TSTAT_WAIT_MTX(k2.tcb[t].tstat)
    BY <1>0, <1>1 DEF WobjOK, Neutral
  <2> HIDE DEF T, N
  <2> QED BY <1>0, <1>1, <2>1, MayStay
<1>3. \A m \in Mutex : ~Waits(k2.tcb[t], m)
  BY <1>0, <1>1 DEF Waits, Neutral
<1>4. Tidy(k2, {}) /\ k2.p_loctsk = k.p_loctsk /\ ~TSTAT_DORMANT(k2.tcb[t].tstat)
  BY <1>0, <1>1, <1>2 DEF SameObjects
<1> QED BY <1>1, <1>3, <1>4, StateChanged DEF k2

(* The wait of a task that is in no queue ends.                            *)
LEMMA Woken ==
  ASSUME NEW k, KOK(k), NEW t \in Task, TSTAT_WAITING(k.tcb[t].tstat),
         NEW k1, Tidy(k1, {t}), Follows(k, k1),
         k1.tcb = k.tcb, k1.p_loctsk = k.p_loctsk, t \notin k1.tmevtb
  PROVE  Result(k, make_non_wait(set_wercd(k1, t), t))
<1> DEFINE k2 == make_non_wait(k1, t)
           N  == {}
           T  == {t}
<1>1. set_wercd(k1, t) = k1
  <2>1. Tidy(k1, T)
    OBVIOUS
  <2> HIDE DEF T
  <2> QED BY <2>1, CodeStored
<1>2. /\ Tidy(k2, N) /\ Follows(k1, k2)
      /\ SameObjects(k1, k2)
      /\ OthersSame(k1, k2, t)
      /\ Alike(k1.tcb[t], k2.tcb[t]) /\ Awake(k2.tcb[t])
  <2>1. Tidy(k1, T) /\ t \in T /\ T \ {t} = N
    OBVIOUS
  <2> HIDE DEF T, N
  <2>2. TSTAT_WAITING(k1.tcb[t].tstat)
    OBVIOUS
  <2>3. LET k3 == make_non_wait(k1, t)
        IN  /\ Tidy(k3, T \ {t}) /\ Follows(k1, k3)
            /\ SameObjects(k1, k3)
            /\ OthersSame(k1, k3, t)
            /\ Alike(k1.tcb[t], k3.tcb[t]) /\ Awake(k3.tcb[t])
    BY <2>1, <2>2, WakesUp
  <2> QED BY <2>1, <2>3
<1> HIDE DEF k2
<1>3. /\ Tidy(k2, {}) /\ Follows(k, k2) /\ k2.p_loctsk = k.p_loctsk
      /\ OthersSame(k, k2, t) /\ Alike(k.tcb[t], k2.tcb[t])
      /\ ~TSTAT_DORMANT(k2.tcb[t].tstat) /\ \A m \in Mutex : ~Waits(k2.tcb[t], m)
  BY <1>2, AwakeNeutral DEF Follows, SameObjects, OthersSame
<1>4. Result(k, k2)
  BY <1>3, StateChanged
<1> QED BY <1>1, <1>4 DEF k2

(* rel_wai() and the timeout of a wait.                                    *)
LEMMA WaitReleased ==
  ASSUME NEW k, KOK(k), NEW t \in Task, TSTAT_WAITING(k.tcb[t].tstat)
  PROVE  Result(k, make_non_wait(set_wercd(
           wait_dequeue_tmevtb(wait_dequeue_wobj(k, t), t), t), t))
<1> DEFINE k1 == wait_dequeue_wobj(k, t)
           k2 == wait_dequeue_tmevtb(k1, t)
           N  == {}
           T  == {t}
<1>1. ~TSTAT_RUNNABLE(k.tcb[t].tstat) /\ Tidy(k, N) /\ t \notin N /\ N \cup {t} = T
  <2>1. k.tcb[t].tstat \in TStat /\ Tidy(k, N)
    BY TcbType DEF KOK, Tidy, QueuesOK
  <2> QED BY <2>1, Flags
<1>2. Tidy(k1, T) /\ Moves(k, k1)
  <2> HIDE DEF N, T
  <2>1. LET k3 == wait_dequeue_wobj(k, t) IN Tidy(k3, N \cup {t}) /\ Moves(k, k3)
    BY <1>1, DequeueWobj
  <2> QED BY <1>1, <2>1
<1> HIDE DEF k1
<1>3. /\ Tidy(k2, T) /\ Follows(k1, k2)
      /\ k2.tcb = k1.tcb /\ SameObjects(k1, k2) /\ k2.tmevtb = k1.tmevtb \ {t}
  <2> HIDE DEF T
  <2> QED BY <1>2, DequeueTmevtb
<1> HIDE DEF k2
<1>4. /\ Tidy(k2, {t}) /\ Follows(k, k2) /\ k2.tcb = k.tcb
      /\ k2.p_loctsk = k.p_loctsk /\ t \notin k2.tmevtb
  BY <1>2, <1>3 DEF Follows, Moves, SameObjects
<1> QED BY <1>4, Woken DEF k2, k1

LEMMA TimedOut ==
  ASSUME NEW k, KOK(k), NEW t \in Task, TSTAT_WAITING(k.tcb[t].tstat)
  PROVE  Result(k, make_non_wait(set_wercd(
           wait_dequeue_wobj(wait_dequeue_tmevtb(k, t), t), t), t))
<1> DEFINE k1 == wait_dequeue_tmevtb(k, t)
           k2 == wait_dequeue_wobj(k1, t)
           N  == {}
           T  == {t}
<1>1. ~TSTAT_RUNNABLE(k.tcb[t].tstat) /\ Tidy(k, N) /\ t \notin N /\ N \cup {t} = T
  <2>1. k.tcb[t].tstat \in TStat /\ Tidy(k, N)
    BY TcbType DEF KOK, Tidy, QueuesOK
  <2> QED BY <2>1, Flags
<1>2. /\ Tidy(k1, N) /\ Follows(k, k1)
      /\ k1.tcb = k.tcb /\ SameObjects(k, k1) /\ k1.tmevtb = k.tmevtb \ {t}
  <2> HIDE DEF N
  <2> QED BY <1>1, DequeueTmevtb
<1> HIDE DEF k1
<1>3. Tidy(k2, T) /\ Moves(k1, k2)
  <2> HIDE DEF N, T
  <2>1. ~TSTAT_RUNNABLE(k1.tcb[t].tstat)
    BY <1>1, <1>2
  <2>2. LET k3 == wait_dequeue_wobj(k1, t) IN Tidy(k3, N \cup {t}) /\ Moves(k1, k3)
    BY <1>1, <1>2, <2>1, DequeueWobj
  <2> QED BY <1>1, <2>2
<1> HIDE DEF k2
<1>4. /\ Tidy(k2, {t}) /\ Follows(k, k2) /\ k2.tcb = k.tcb
      /\ k2.p_loctsk = k.p_loctsk /\ t \notin k2.tmevtb
  BY <1>2, <1>3 DEF Follows, Moves, SameObjects
<1> QED BY <1>4, Woken DEF k2, k1

(* sus_tsk() for a task that can run.                                      *)
LEMMA Stopped ==
  ASSUME NEW k, KOK(k), NEW t \in Task, TSTAT_RUNNABLE(k.tcb[t].tstat),
         k.p_schedtsk = t => k.dspflg
  PROVE  Result(k, make_non_runnable(set_tstat(k, t, TS_SUSPENDED), t))
<1> DEFINE k2 == make_non_runnable(set_tstat(k, t, TS_SUSPENDED), t)
           N  == {}
           T  == {t}
           s  == TS_SUSPENDED
<1>0. /\ Tidy(k, {}) /\ T \ {t} = N /\ t \in T
      /\ s \in TStat /\ Neutral(s) /\ ~TSTAT_RUNNABLE(s)
      /\ ~TSTAT_DORMANT(s)
  BY Flags DEF KOK
<1> HIDE DEF s
<1>1. /\ Tidy(k2, T) /\ Follows(k, k2)
      /\ SameObjects(k, k2)
      /\ OthersSame(k, k2, t)
      /\ Alike(k.tcb[t], k2.tcb[t]) /\ k2.tcb[t].tstat = s
  BY <1>0, StopsRunning DEF s
<1> HIDE DEF k2
<1>2. Tidy(k2, N)
  <2>1. WobjOK(k2.tcb[t]) /\ ~TSTAT_WAIT_MTX(k2.tcb[t].tstat)
    BY <1>0, <1>1 DEF WobjOK, Neutral
  <2> HIDE DEF T, N
  <2> QED BY <1>0, <1>1, <2>1, MayStay
<1>3. \A m \in Mutex : ~Waits(k2.tcb[t], m)
  BY <1>0, <1>1 DEF Waits, Neutral
<1>4. Tidy(k2, {}) /\ k2.p_loctsk = k.p_loctsk /\ ~TSTAT_DORMANT(k2.tcb[t].tstat)
  BY <1>0, <1>1, <1>2 DEF SameObjects
<1> QED BY <1>1, <1>3, <1>4, StateChanged DEF k2

(* sus_tsk() and rsm_tsk() for a waiting task, which stays in its queue.   *)
LEMMA WaitsOn ==
  ASSUME NEW k, KOK(k), NEW t \in Task, TSTAT_WAITING(k.tcb[t].tstat),
         NEW s, s = k.tcb[t].tstat \cup TS_SUSPENDED \/ s = k.tcb[t].tstat \ TS_SUSPENDED
  PROVE  LET k2 == set_tstat(k, t, s)
         IN  Result(k, k2) /\ k2.p_schedtsk = k.p_schedtsk
<1> DEFINE x  == k.tcb[t].tstat
           r  == [k.tcb[t] EXCEPT !.tstat = s]
           k2 == set_tstat(k, t, s)
<1>0. /\ k \in MSet /\ Tidy(k, {}) /\ x \in TStat /\ WobjOK(k.tcb[t])
  BY TcbType DEF KOK, Tidy, QueuesOK
<1>1. /\ s \in TStat
      /\ TSTAT_WAITING(s) /\ TSTAT_WAITING(x)
      /\ TSTAT_WAIT_MTX(s) <=> TSTAT_WAIT_MTX(x)
      /\ TSTAT_WAIT_WOBJ(s) <=> TSTAT_WAIT_WOBJ(x)
  <2> HIDE DEF x
  <2> QED BY <1>0, DoubleWait DEF x
<1>2. ~TSTAT_DORMANT(s) /\ ~TSTAT_RUNNABLE(s) /\ ~TSTAT_RUNNABLE(x)
  <2> HIDE DEF x
  <2> QED BY <1>0, <1>1, Flags
<1>3. /\ k2 = Put(k, t, r) /\ r \in TCB
      /\ r.tstat = s /\ r.wobj = k.tcb[t].wobj
      /\ Alike(k.tcb[t], r)
  BY <1>0, <1>1, SetTstat DEF Alike
<1> HIDE DEF r, k2
<1>4. /\ \A m \in Mutex : Waits(r, m) <=> Waits(k.tcb[t], m)
      /\ WobjOK(r) /\ r.priority = k.tcb[t].priority
      /\ TSTAT_RUNNABLE(r.tstat) <=> TSTAT_RUNNABLE(k.tcb[t].tstat)
      /\ TSTAT_WAITING(r.tstat)
  BY <1>0, <1>1, <1>2, <1>3 DEF Waits, WobjOK, Alike
<1>5. Tidy(k2, {}) /\ Follows(k, k2)
  <2> DEFINE N == {}
  <2>1. Tidy(k, N)
    BY <1>0
  <2> HIDE DEF N
  <2>2. Tidy(Put(k, t, r), N) /\ Follows(k, Put(k, t, r))
    BY <1>3, <1>4, <2>1, PutQuiet
  <2> QED BY <1>3, <2>2 DEF N
<1>6. SameObjects(k, k2) /\ SameSched(k, k2) /\ OthersSame(k, k2, t) /\ k2.tcb[t] = r
  BY <1>0, <1>3, PutOK DEF OthersSame
<1>7. Result(k, k2)
  <2>1. k2.p_loctsk = k.p_loctsk /\ Alike(k.tcb[t], k2.tcb[t])
        /\ ~TSTAT_DORMANT(k2.tcb[t].tstat)
        /\ \A m \in Mutex : Waits(k2.tcb[t], m) => Waits(k.tcb[t], m)
    BY <1>2, <1>3, <1>4, <1>6 DEF SameObjects
  <2> QED BY <1>5, <1>6, <2>1, StateChanged
<1> QED BY <1>6, <1>7 DEF SameSched, k2

--------------------------------------------------------------------------
(* chg_pri(). *)
LEMMA CheckCeilpri ==
  ASSUME NEW k \in MSet, NEW t \in Task, NEW p, mutex_check_ceilpri(k, t, p),
         NEW r, ToSet(r.p_lastmtx) = ToSet(k.tcb[t].p_lastmtx),
         r.tstat = k.tcb[t].tstat, r.wobj = k.tcb[t].wobj, p \in TPri
  PROVE  /\ \A c \in Ceil(r) : c <= p
         /\ \A m \in CEILING : Waits(r, m) => ceilpri[m] <= p
<1>1. Ceilings(k, t) = Ceil(r)
  BY DEF Ceilings, Ceil
<1>2. \A c \in Ceil(r) : p >= c
  BY <1>1 DEF mutex_check_ceilpri
<1>3. \A m \in CEILING : Waits(r, m) => p >= ceilpri[m]
  BY DEF mutex_check_ceilpri, Waits
<1>4. Ceil(r) \subseteq TPri /\ \A m \in CEILING : ceilpri[m] \in TPri
  BY CeilPri, MutexAssumption
<1>5. \A a, b \in TPri : a >= b => b <= a
  BY TNUM_TPRIAssumption DEF TPri
<1> QED BY <1>2, <1>3, <1>4, <1>5

SetBase(k, t, p) == [k EXCEPT !.tcb[t].bpriority = p]

LEMMA BasePut ==
  ASSUME NEW k \in MSet, NEW t \in Task, NEW p \in TPri
  PROVE  LET r == [k.tcb[t] EXCEPT !.bpriority = p]
         IN  /\ SetBase(k, t, p) = Put(k, t, r)
             /\ r \in TCB /\ r.bpriority = p
             /\ r.priority = k.tcb[t].priority /\ r.boosted = k.tcb[t].boosted
             /\ r.p_lastmtx = k.tcb[t].p_lastmtx
             /\ r.tstat = k.tcb[t].tstat /\ r.wobj = k.tcb[t].wobj
<1> DEFINE x == k.tcb[t]
           r == [x EXCEPT !.bpriority = p]
<1>1. x \in TCB
  BY TcbType
<1>2. SetBase(k, t, p) = Put(k, t, r)
  BY DEF Put, SetBase
<1> HIDE DEF x
<1>3. /\ r \in TCB /\ r.bpriority = p
      /\ r.priority = x.priority /\ r.boosted = x.boosted
      /\ r.p_lastmtx = x.p_lastmtx
      /\ r.tstat = x.tstat /\ r.wobj = x.wobj
  BY <1>1 DEF TCB
<1> QED BY <1>2, <1>3 DEF x

(* The new base priority is stored first.                                  *)
LEMMA BaseStored ==
  ASSUME NEW k, KOK(k), NEW t \in Task, NEW p \in TPri,
         NEW k1, k1 = SetBase(k, t, p)
  PROVE  /\ Tidy(k1, {}) /\ Follows(k, k1) /\ OwnersOK(k1, {}, {})
         /\ SameSched(k, k1) /\ k1.p_loctsk = k.p_loctsk
         /\ OthersSame(k, k1, t)
         /\ k1.tcb[t] = [k.tcb[t] EXCEPT !.bpriority = p]
<1> DEFINE r == [k.tcb[t] EXCEPT !.bpriority = p]
           N == {}
<1>0. /\ k \in MSet /\ Tidy(k, N) /\ OwnersOK(k, N, N) /\ N \ {t} \subseteq N
      /\ WobjOK(k.tcb[t])
      /\ \A u \in k.tmevtb : TSTAT_WAITING(k.tcb[u].tstat)
  BY DEF KOK, Tidy, QueuesOK
<1>1. /\ k1 = Put(k, t, r)
      /\ r \in TCB /\ r.priority = k.tcb[t].priority
      /\ r.p_lastmtx = k.tcb[t].p_lastmtx
      /\ r.tstat = k.tcb[t].tstat /\ r.wobj = k.tcb[t].wobj
  BY <1>0, BasePut
<1> HIDE DEF r
<1>2. (\A m \in Mutex : Waits(r, m) <=> Waits(k.tcb[t], m)) /\ WobjOK(r)
  BY <1>0, <1>1 DEF Waits, WobjOK
<1>3. t \in k.tmevtb => TSTAT_WAITING(r.tstat)
  BY <1>0, <1>1
<1>4. Tidy(k1, N) /\ Follows(k, k1)
  <2> HIDE DEF N
  <2> QED BY <1>0, <1>1, <1>2, <1>3, PutQuiet
<1>5. /\ SameSched(k, k1) /\ k1.p_loctsk = k.p_loctsk
      /\ OthersSame(k, k1, t) /\ k1.tcb[t] = r
  BY <1>0, <1>1, PutOK DEF SameObjects, OthersSame
<1>6. OwnersOK(k1, N, N)
  <2>1. \A m \in Mutex : Waits(k1.tcb[t], m) => k.p_loctsk[m] # NULL /\ k.p_loctsk[m] # t
    BY <1>0, <1>2, <1>5 DEF OwnersOK
  <2>2. k1.tcb[t].p_lastmtx = k.tcb[t].p_lastmtx /\ k1.tcb[t].tstat = k.tcb[t].tstat
    BY <1>1, <1>5
  <2> HIDE DEF N
  <2> QED BY <1>0, <1>5, <2>1, <2>2, OwnersFrame
<1> QED BY <1>4, <1>5, <1>6 DEF r

(* The owner of a mutex with a ceiling keeps its current priority.         *)
LEMMA BoostedKeeps ==
  ASSUME NEW k, KOK(k), NEW t \in Task, NEW p \in TPri, k.tcb[t].boosted,
         mutex_check_ceilpri(k, t, p),
         NEW k1, k1 = SetBase(k, t, p)
  PROVE  Result(k, k1) /\ k1.p_schedtsk = k.p_schedtsk
<1> DEFINE x == k.tcb[t]
           r == [x EXCEPT !.bpriority = p]
           N == {}
<1>0. k \in MSet /\ PriOK(x) /\ x.priority \in TPri /\ x.bpriority \in TPri
  BY TcbType DEF KOK, Tidy, QueuesOK, PrioritiesOK
<1>1. /\ Tidy(k1, N) /\ Follows(k, k1) /\ OwnersOK(k1, N, N)
      /\ SameSched(k, k1) /\ k1.p_loctsk = k.p_loctsk
      /\ OthersSame(k, k1, t) /\ k1.tcb[t] = r
  BY BaseStored
<1>2. /\ r.bpriority = p
      /\ r.priority = x.priority /\ r.boosted = x.boosted
      /\ r.p_lastmtx = x.p_lastmtx
      /\ r.tstat = x.tstat /\ r.wobj = x.wobj
  <2>1. x \in TCB
    BY <1>0, TcbType
  <2> HIDE DEF x
  <2> QED BY <2>1 DEF TCB
<1> HIDE DEF r
<1>3. /\ \A c \in Ceil(r) : c <= p
      /\ \A m \in CEILING : Waits(r, m) => ceilpri[m] <= p
  BY <1>0, <1>2, CheckCeilpri
<1>4. PriOK(r)
  <2>1. Ceil(r) = Ceil(x) /\ Ceil(r) \subseteq TPri
    BY <1>2, CeilPri DEF Ceil
  <2>2. x.boosted
    OBVIOUS
  <2> HIDE DEF x
  <2> DEFINE C == Ceil(r)
  <2>3. /\ C # {} /\ x.priority \in C \cup {x.bpriority}
        /\ \A c \in C : x.priority <= c /\ c <= x.bpriority
        /\ \A c \in C : c <= p
    BY <1>0, <1>3, <2>1, <2>2 DEF PriOK
  <2>4. C \subseteq Nat /\ x.priority \in Nat /\ x.bpriority \in Nat /\ p \in Nat
    BY <1>0, <2>1, TNUM_TPRIAssumption DEF TPri
  <2>5. (r.boosted <=> C # {})
    BY <1>0, <1>2, <2>1 DEF PriOK
  <2> HIDE DEF C
  <2>6. PICK c \in C : x.priority <= c /\ c <= x.bpriority /\ c <= p
    BY <2>3
  <2>7. x.priority \in C
    BY <2>3, <2>4, <2>6
  <2>8. x.priority <= p
    BY <2>3, <2>7
  <2>9. /\ r.priority \in C \cup {r.bpriority}
        /\ \A d \in C : r.priority <= d /\ d <= r.bpriority
        /\ r.priority <= r.bpriority
    BY <1>2, <2>3, <2>7, <2>8
  <2>10. \A m \in CEILING : Waits(r, m) => ceilpri[m] <= r.bpriority
    BY <1>2, <1>3
  <2> QED BY <2>5, <2>9, <2>10 DEF PriOK, C
<1>5. PrioritiesOK(k1, N)
  <2>1. PrioritiesOK(k, N) /\ N \ {t} \subseteq N
    BY DEF KOK
  <2> HIDE DEF N
  <2> QED BY <1>1, <1>4, <2>1, PrioritiesFrame
<1>6. HandsOver(k, k1) /\ k1.p_schedtsk = k.p_schedtsk
  BY <1>1 DEF HandsOver, SameSched
<1> QED BY <1>1, <1>5, <1>6 DEF Result, KOK

(* Any other task is moved to its new priority.                            *)
LEMMA BaseChanged ==
  ASSUME NEW k, KOK(k), NEW t \in Task, NEW p \in TPri, ~k.tcb[t].boosted,
         TSTAT_WAIT_MTX(k.tcb[t].tstat) => mutex_check_ceilpri(k, t, p),
         NEW k1, k1 = SetBase(k, t, p)
  PROVE  Result(k, change_priority(k1, t, p, FALSE))
<1> DEFINE x  == k.tcb[t]
           r  == [x EXCEPT !.bpriority = p]
           r2 == [r EXCEPT !.priority = p]
           N  == {}
           b  == FALSE
           k2 == change_priority(k1, t, p, b)
<1>0. /\ k \in MSet /\ PriOK(x) /\ OwnersOK(k, N, N) /\ PrioritiesOK(k, N)
      /\ N \ {t} \subseteq N /\ t \notin N /\ b \in BOOLEAN
  BY DEF KOK, Tidy, QueuesOK, PrioritiesOK
<1>1. /\ Tidy(k1, N) /\ Follows(k, k1) /\ OwnersOK(k1, N, N)
      /\ SameSched(k, k1) /\ k1.p_loctsk = k.p_loctsk
      /\ OthersSame(k, k1, t) /\ k1.tcb[t] = r
  BY BaseStored
<1>2. /\ r \in TCB /\ r.bpriority = p
      /\ r.priority = x.priority /\ r.boosted = x.boosted
      /\ r.p_lastmtx = x.p_lastmtx
      /\ r.tstat = x.tstat /\ r.wobj = x.wobj
  BY <1>0, BasePut
<1> HIDE DEF r
<1>3. Tidy(k2, N) /\ PriorityChanged(k1, k2, t, p)
  <2> HIDE DEF N, b
  <2> QED BY <1>0, <1>1, ChangesPriority
<1>4. /\ r2.bpriority = p /\ r2.priority = p /\ r2.boosted = x.boosted
      /\ r2.p_lastmtx = x.p_lastmtx
      /\ r2.tstat = x.tstat /\ r2.wobj = x.wobj
  BY <1>2 DEF TCB
<1> HIDE DEF k2
<1>5. /\ k2.tcb[t] = r2 /\ OthersSame(k, k2, t) /\ Follows(k, k2)
      /\ k2.p_loctsk = k.p_loctsk /\ OthersSame(k1, k2, t)
      /\ k2.p_loctsk = k1.p_loctsk
  BY <1>1, <1>3 DEF PriorityChanged, OthersSame, Follows
<1> HIDE DEF r2
<1>6. PriOK(r2)
  <2>1. Ceil(r2) = {}
    <3>1. Ceil(r2) = Ceil(x)
      BY <1>4 DEF Ceil
    <3> QED BY <1>0, <3>1 DEF PriOK
  <2>2. \A m \in CEILING : Waits(r2, m) => ceilpri[m] <= p
    <3>1. CASE TSTAT_WAIT_MTX(x.tstat)
      <4>1. mutex_check_ceilpri(k, t, p)
        BY <3>1
      <4> QED BY <1>0, <1>4, <4>1, CheckCeilpri
    <3>2. CASE ~TSTAT_WAIT_MTX(x.tstat)
      BY <1>4, <3>2 DEF Waits
    <3> QED BY <3>1, <3>2
  <2>3. p <= p
    BY TNUM_TPRIAssumption DEF TPri
  <2>4. ~r2.boosted
    BY <1>4
  <2> QED BY <1>4, <2>1, <2>2, <2>3, <2>4 DEF PriOK
<1>7. PrioritiesOK(k2, N)
  <2> HIDE DEF N
  <2> QED BY <1>0, <1>5, <1>6, PrioritiesFrame
<1>8. OwnersOK(k2, N, N)
  <2>1. \A m \in Mutex : Waits(k2.tcb[t], m) => k1.p_loctsk[m] # NULL /\ k1.p_loctsk[m] # t
    <3>1. \A m \in Mutex : Waits(k2.tcb[t], m) => Waits(x, m)
      BY <1>4, <1>5 DEF Waits
    <3> QED BY <1>0, <1>1, <3>1 DEF OwnersOK
  <2>2. k2.tcb[t].p_lastmtx = k1.tcb[t].p_lastmtx /\ k2.tcb[t].tstat = k1.tcb[t].tstat
    BY <1>1, <1>2, <1>4, <1>5
  <2> HIDE DEF N
  <2> QED BY <1>0, <1>1, <1>5, <2>1, <2>2, OwnersFrame
<1>9. HandsOver(k, k2)
  BY <1>5 DEF HandsOver
<1> QED BY <1>3, <1>5, <1>7, <1>8, <1>9 DEF Result, KOK, k2

(* dis_dsp(), called by the task that should run.                          *)
LEMMA Disabled ==
  ASSUME NEW k, KOK(k), k.p_schedtsk \in Queued(k, {}),
         NEW k2, k2 = [k EXCEPT !.dspflg = FALSE]
  PROVE  /\ KOK(k2) /\ k2.p_loctsk = k.p_loctsk /\ k2.p_schedtsk = k.p_schedtsk
         /\ k2.tcb = k.tcb
<1> DEFINE N == {}
<1>0. /\ k \in MSet /\ Tidy(k, N) /\ OwnersOK(k, N, N) /\ PrioritiesOK(k, N)
      /\ KInv(k, Queued(k, N)) /\ k.p_schedtsk \in Queued(k, N)
  BY DEF KOK, Tidy, QueuesOK
<1>1. /\ k2 \in MSet /\ k2.dspflg = FALSE
      /\ k2.tcb = k.tcb /\ k2.ready_queue = k.ready_queue
      /\ k2.ready_primap = k.ready_primap /\ k2.p_schedtsk = k.p_schedtsk
      /\ k2.tmevtb = k.tmevtb /\ k2.asserted = k.asserted
      /\ k2.wait_queue = k.wait_queue /\ k2.p_loctsk = k.p_loctsk
  BY <1>0 DEF MSet
<1>2. KInv(k2, Queued(k2, N))
  <2>1. Queued(k2, N) = Queued(k, N)
    BY <1>1 DEF Queued
  <2> HIDE DEF N
  <2> QED BY <1>0, <1>1, <2>1 DEF KInv, ReadyOK, SchedOK, AtPri
<1>3. Tidy(k2, N)
  <2>1. \A m \in Mutex : Waiters(k2, N, m) = Waiters(k, N, m)
    BY <1>1 DEF Waiters
  <2>2. \A m \in Mutex : WaitQueueOK(TPRI, k2, m, k2.wait_queue[m], Waiters(k2, N, m))
    BY <1>0, <1>1, <2>1 DEF Tidy, QueuesOK, WaitQueueOK, Sorted
  <2> HIDE DEF N
  <2> QED BY <1>0, <1>1, <1>2, <2>2 DEF Tidy, QueuesOK
<1>4. OwnersOK(k2, N, N) /\ PrioritiesOK(k2, N)
  <2>1. \A t \in Task : Owned(k2, N, t) = Owned(k, N, t)
    BY <1>1 DEF Owned
  <2> HIDE DEF N
  <2> QED BY <1>0, <1>1, <2>1 DEF OwnersOK, PrioritiesOK
<1> QED BY <1>1, <1>3, <1>4 DEF KOK

(* ena_dsp(), and ext_tsk() with dispatching disabled.                     *)
LEMMA Enabled ==
  ASSUME NEW k, KOK(k), Queued(k, {}) # {}
  PROVE  LET k2 == set_dspflg(k)
         IN  KOK(k2) /\ k2.p_loctsk = k.p_loctsk /\ k2.tcb = k.tcb /\ k2.dspflg = TRUE
<1> DEFINE N  == {}
           c  == Core(k)
           c2 == set_dspflg(c)
           k2 == set_dspflg(k)
           R  == Queued(k, N)
<1>0. /\ k \in MSet /\ Tidy(k, N) /\ OwnersOK(k, N, N) /\ PrioritiesOK(k, N)
      /\ KInv(k, R) /\ R # {}
  BY DEF KOK, Tidy, QueuesOK
<1>1. PICK t \in Task : TRUE
  BY <1>0 DEF Queued
<1>2. k2 = With(k, c2)
  BY <1>0, <1>1, OnCore
<1>3. c \in KSet(TCB) /\ ReadyOK(c, R) /\ c.tcb = k.tcb /\ c.tmevtb = k.tmevtb
      /\ c.asserted = k.asserted
  <2> HIDE DEF R, c
  <2>1. c \in KSet(TCB) /\ (ReadyOK(c, R) <=> ReadyOK(k, R))
    BY <1>0, CoreOK DEF c
  <2> QED BY <1>0, <2>1 DEF KInv, c, Core
<1> HIDE DEF c, R, k2
<1>4. /\ c2 \in KSet(TCB) /\ KInv(c2, R) /\ c2.dspflg = TRUE
      /\ c2.tcb = k.tcb /\ c2.tmevtb = k.tmevtb /\ c2.asserted = k.asserted
  BY <1>0, <1>3, SetDspflg
<1> HIDE DEF c2
<1>5. /\ k2 \in MSet /\ KInv(k2, R) /\ k2.dspflg = TRUE
      /\ k2.tcb = k.tcb /\ k2.tmevtb = k.tmevtb /\ k2.asserted = k.asserted
      /\ SameObjects(k, k2)
  <2>1. KInv(c2, R) <=> KInv(With(k, c2), R)
    BY <1>0, <1>4, WithOK
  <2> QED BY <1>0, <1>2, <1>4, <2>1, WithOK
<1>6. Tidy(k2, N)
  <2>1. Queued(k2, N) = R /\ \A m \in Mutex : Waiters(k2, N, m) = Waiters(k, N, m)
    BY <1>5 DEF Queued, Waiters, R
  <2>2. \A m \in Mutex : WaitQueueOK(TPRI, k2, m, k2.wait_queue[m], Waiters(k2, N, m))
    BY <1>0, <1>5, <2>1 DEF Tidy, QueuesOK, WaitQueueOK, Sorted, SameObjects
  <2> HIDE DEF N
  <2> QED BY <1>0, <1>5, <2>1, <2>2 DEF Tidy, QueuesOK
<1>7. OwnersOK(k2, N, N) /\ PrioritiesOK(k2, N) /\ k2.p_loctsk = k.p_loctsk
  <2>1. \A u \in Task : Owned(k2, N, u) = Owned(k, N, u)
    BY <1>5 DEF Owned, SameObjects
  <2> HIDE DEF N
  <2> QED BY <1>0, <1>5, <2>1 DEF OwnersOK, PrioritiesOK, SameObjects
<1> QED BY <1>5, <1>6, <1>7 DEF KOK, k2

--------------------------------------------------------------------------
(* The inductive invariant: between service calls no task and no mutex is  *)
(* in transit, only existing mutexes have owners, and the task that runs   *)
(* is the one that should, except that an interrupt handler runs before    *)
(* the dispatch it has made necessary.                                     *)
ModesOK ==
  /\ p_runtsk \in Task \cup {NULL}
  /\ excpt_nest_count \in 0..MaxNest
  /\ excpt_nest_count = 0 \/ ~dspflg => p_runtsk = p_schedtsk

ExistingOK ==
  /\ existing \subseteq Mutex
  /\ \A m \in Mutex : p_loctsk[m] # NULL => m \in existing

IInv == KOK(kernel) /\ ModesOK /\ ExistingOK

(* Of a step: a mutex that changes owners goes to a task of the highest    *)
(* priority among those that wait for it.                                  *)
Passed(k, k2) ==
  \A m \in Mutex :
    k.p_loctsk[m] # NULL /\ k2.p_loctsk[m] # NULL /\ k2.p_loctsk[m] # k.p_loctsk[m]
      => Best(k, {}, m, k2.p_loctsk[m])

LEMMA KernelFields ==
  /\ kernel.tcb = tcb /\ kernel.ready_queue = ready_queue
  /\ kernel.ready_primap = ready_primap /\ kernel.p_schedtsk = p_schedtsk
  /\ kernel.dspflg = dspflg /\ kernel.tmevtb = tmevtb
  /\ kernel.asserted = asserted /\ kernel.wait_queue = wait_queue
  /\ kernel.p_loctsk = p_loctsk
BY DEF kernel

LEMMA Committed ==
  ASSUME NEW k, KOK(k), Update(k)
  PROVE  kernel' = k
<1>1. k \in MSet
  BY DEF KOK, Tidy, QueuesOK
<1>2. k = [tcb |-> k.tcb, ready_queue |-> k.ready_queue,
           ready_primap |-> k.ready_primap, p_schedtsk |-> k.p_schedtsk,
           dspflg |-> k.dspflg, tmevtb |-> k.tmevtb, asserted |-> k.asserted,
           wait_queue |-> k.wait_queue, p_loctsk |-> k.p_loctsk]
  BY <1>1 DEF MSet
<1> QED BY <1>2 DEF Update, kernel

(* A service call made by a task.                                          *)
LEMMA Running ==
  ASSUME IInv, TaskContext
  PROVE  /\ p_runtsk \in Task /\ p_runtsk = p_schedtsk
         /\ TSTAT_RUNNABLE(kernel.tcb[p_runtsk].tstat)
         /\ p_runtsk \in Queued(kernel, {})
         /\ excpt_nest_count = 0
<1>1. excpt_nest_count \in Nat /\ ~(excpt_nest_count > 0)
  BY MutexAssumption DEF IInv, ModesOK, TaskContext, sense_context
<1>2. excpt_nest_count = 0
  BY <1>1
<1>3. p_runtsk = p_schedtsk /\ p_runtsk # NULL
  BY <1>2 DEF IInv, ModesOK, TaskContext
<1>4. SchedOK(kernel, Queued(kernel, {}))
  BY DEF IInv, KOK, Tidy, QueuesOK, KInv
<1>5. p_schedtsk \in Queued(kernel, {})
  <2> DEFINE R == Queued(kernel, {})
  <2> HIDE DEF R
  <2>1. SchedOK(kernel, R)
    BY <1>4 DEF R
  <2>2. p_schedtsk \in R
    BY <1>3, <2>1, KernelFields DEF SchedOK, IsFirst
  <2> QED BY <2>2 DEF R
<1>6. \A t \in Queued(kernel, {}) : t \in Task /\ TSTAT_RUNNABLE(kernel.tcb[t].tstat)
  BY DEF Queued
<1> QED BY <1>2, <1>3, <1>5, <1>6

(* An action commits the result of its service call.                       *)
LEMMA Dispatched ==
  ASSUME IInv, NEW k, KOK(k), k.dspflg \/ Follows(kernel, k), Dispatch(k),
         existing' \subseteq Mutex,
         \A m \in Mutex : k.p_loctsk[m] # NULL => m \in existing'
  PROVE  IInv' /\ kernel' = k
<1>1. kernel' = k
  BY Committed DEF Dispatch
<1>2. /\ p_schedtsk' = k.p_schedtsk /\ dspflg' = k.dspflg /\ p_loctsk' = k.p_loctsk
      /\ excpt_nest_count' = excpt_nest_count
      /\ p_runtsk' = IF excpt_nest_count > 0 THEN p_runtsk ELSE k.p_schedtsk
  BY DEF Dispatch, Update, sense_context
<1>3. p_schedtsk' \in Task \cup {NULL}
  BY <1>2 DEF KOK, Tidy, QueuesOK, MSet
<1>4. ModesOK'
  <2>1. excpt_nest_count \in Nat /\ excpt_nest_count \in 0..MaxNest
    BY MutexAssumption DEF IInv, ModesOK
  <2>2. CASE excpt_nest_count > 0
    <3>1. p_runtsk' = p_runtsk /\ ~(excpt_nest_count' = 0)
      BY <1>2, <2>1, <2>2
    <3>2. ~k.dspflg => p_runtsk = p_schedtsk /\ p_schedtsk' = p_schedtsk
      BY <1>2, KernelFields DEF Follows, IInv, ModesOK
    <3> QED BY <1>2, <2>1, <3>1, <3>2 DEF IInv, ModesOK
  <2>3. CASE ~(excpt_nest_count > 0)
    BY <1>2, <1>3, <2>1, <2>3 DEF ModesOK
  <2> QED BY <2>2, <2>3
<1>5. ExistingOK'
  BY <1>2 DEF ExistingOK
<1>6. KOK(kernel')
  BY <1>1
<1> QED BY <1>1, <1>4, <1>5, <1>6 DEF IInv

LEMMA Returned ==
  ASSUME IInv, TaskContext, NEW k, KOK(k), k.p_schedtsk = p_schedtsk, Return(k),
         existing' \subseteq Mutex,
         \A m \in Mutex : k.p_loctsk[m] # NULL => m \in existing'
  PROVE  IInv' /\ kernel' = k
<1>1. kernel' = k
  BY Committed DEF Return
<1>2. /\ p_schedtsk' = k.p_schedtsk /\ p_loctsk' = k.p_loctsk
      /\ excpt_nest_count' = excpt_nest_count /\ p_runtsk' = p_runtsk
  BY DEF Return, Update
<1>3. ModesOK'
  BY <1>2, Running DEF IInv, ModesOK
<1>4. ExistingOK'
  BY <1>2 DEF ExistingOK
<1>5. KOK(kernel')
  BY <1>1
<1> QED BY <1>1, <1>3, <1>4, <1>5 DEF IInv

(* The usual cases.                                                        *)
LEMMA ResultPassed ==
  ASSUME IInv, NEW k, Result(kernel, k)
  PROVE  /\ \A m \in Mutex : k.p_loctsk[m] # NULL => m \in existing
         /\ existing \subseteq Mutex
         /\ Passed(kernel, k)
<1>1. \A m \in Mutex : kernel.p_loctsk[m] # NULL => m \in existing
  BY KernelFields DEF IInv, ExistingOK
<1> QED BY <1>1 DEF Result, HandsOver, Passed, IInv, ExistingOK

LEMMA DispatchedResult ==
  ASSUME IInv, NEW k, Result(kernel, k), Dispatch(k), UNCHANGED existing
  PROVE  IInv' /\ Passed(kernel, kernel')
<1>1. IInv' /\ kernel' = k
  BY ResultPassed, Dispatched DEF Result
<1> QED BY <1>1, ResultPassed

LEMMA ReturnedResult ==
  ASSUME IInv, TaskContext, NEW k, Result(kernel, k), k.p_schedtsk = p_schedtsk,
         Return(k), UNCHANGED existing
  PROVE  IInv' /\ Passed(kernel, kernel')
<1>1. IInv' /\ kernel' = k
  BY ResultPassed, Returned DEF Result
<1> QED BY <1>1, ResultPassed

(* A step that changes no owner.                                           *)
LEMMA SamePassed ==
  ASSUME p_loctsk' = p_loctsk
  PROVE  Passed(kernel, kernel')
<1>1. kernel'.p_loctsk = p_loctsk'
  BY DEF kernel
<1> QED BY <1>1, KernelFields DEF Passed

--------------------------------------------------------------------------
(* Each action keeps the invariant and passes mutexes on correctly.        *)
Good == IInv' /\ Passed(kernel, kernel')

LEMMA StepPloc ==
  ASSUME IInv, NEW m \in Mutex, ploc_mtx(m)
  PROVE  Good
<1> DEFINE t  == p_runtsk
           k  == mutex_acquire(kernel, t, m)
           k2 == [k EXCEPT !.asserted = @ /\ t = k.p_schedtsk]
<1>0. /\ TaskContext /\ m \in existing /\ existing' = existing
      /\ kernel.p_loctsk[m] = NULL
      /\ CeilingRespected(m) /\ Return(k2)
  BY KernelFields DEF ploc_mtx, UsesMutex
<1>1. /\ t \in Task /\ t = p_schedtsk /\ TSTAT_RUNNABLE(kernel.tcb[t].tstat)
      /\ KOK(kernel)
  BY <1>0, Running DEF IInv
<1>2. m \in CEILING => ceilpri[m] <= kernel.tcb[t].bpriority
  <2> DEFINE p == kernel.tcb[t].bpriority
  <2>1. m \in CEILING => p >= ceilpri[m]
    BY <1>0, KernelFields DEF CeilingRespected
  <2>2. p \in TPri
    BY <1>1, TcbType DEF KOK, Tidy, QueuesOK
  <2>3. m \in CEILING => ceilpri[m] \in TPri
    BY MutexAssumption
  <2> HIDE DEF p
  <2>4. \A a, b \in TPri : a >= b => b <= a
    BY TNUM_TPRIAssumption DEF TPri
  <2> QED BY <2>1, <2>2, <2>3, <2>4 DEF p
<1>3. /\ KOK(k) /\ Follows(kernel, k)
      /\ kernel.p_schedtsk = t => k.p_schedtsk = t
      /\ k.p_loctsk[m] = t
      /\ \A n \in Mutex \ {m} : k.p_loctsk[n] = kernel.p_loctsk[n]
  <2> HIDE DEF t
  <2> QED BY <1>0, <1>1, <1>2, Acquired
<1> HIDE DEF k
<1>4. k2 = k
  <2>1. k \in MSet /\ k.asserted = TRUE
    BY <1>3 DEF KOK, Tidy, QueuesOK
  <2>2. t = k.p_schedtsk
    BY <1>1, <1>3, KernelFields
  <2>3. (k.asserted /\ t = k.p_schedtsk) = TRUE
    BY <2>1, <2>2
  <2>4. k2 = [k EXCEPT !.asserted = (k.asserted /\ t = k.p_schedtsk)]
    BY <2>1 DEF MSet
  <2> HIDE DEF k2, t
  <2> QED BY <2>1, <2>3, <2>4 DEF MSet
<1> HIDE DEF k2
<1>5. /\ k.p_schedtsk = p_schedtsk /\ Return(k)
      /\ existing' \subseteq Mutex
      /\ \A n \in Mutex : k.p_loctsk[n] # NULL => n \in existing'
  BY <1>0, <1>1, <1>3, <1>4, KernelFields DEF IInv, ExistingOK
<1>6. IInv' /\ kernel' = k
  BY <1>0, <1>3, <1>5, Returned
<1>7. Passed(kernel, k)
  BY <1>0, <1>3 DEF Passed
<1> QED BY <1>6, <1>7 DEF Good

LEMMA StepTloc ==
  ASSUME IInv, NEW m \in Mutex, NEW timed \in BOOLEAN, tloc_mtx(m, timed)
  PROVE  Good
<1> DEFINE t == p_runtsk
           k == wobj_make_wait_tmout(kernel, m, t, TS_WAITING_MTX, timed)
<1>0. /\ TaskContext /\ dspflg /\ existing' = existing
      /\ kernel.p_loctsk[m] # NULL /\ kernel.p_loctsk[m] # t
      /\ m \in CEILING => kernel.tcb[t].bpriority >= ceilpri[m]
      /\ Dispatch(k)
  BY KernelFields DEF tloc_mtx, UsesMutex, CeilingRespected
<1>1. /\ t \in Task /\ TSTAT_RUNNABLE(kernel.tcb[t].tstat)
      /\ KOK(kernel) /\ (kernel.p_schedtsk = t => kernel.dspflg)
  BY <1>0, Running, KernelFields DEF IInv
<1>2. Result(kernel, k)
  <2> HIDE DEF t
  <2> QED BY <1>0, <1>1, LockWaits
<1> HIDE DEF k
<1> QED BY <1>0, <1>2, DispatchedResult DEF Good

LEMMA StepUnl ==
  ASSUME IInv, NEW m \in Mutex, unl_mtx(m)
  PROVE  Good
<1> DEFINE t  == p_runtsk
           k1 == [kernel EXCEPT !.tcb[t].p_lastmtx = Tail(@)]
           k2 == IF m \in CEILING THEN mutex_drop_priority(k1, t, ceilpri[m]) ELSE k1
           k  == mutex_release(k2, m)
<1>0. /\ TaskContext /\ existing' = existing
      /\ kernel.tcb[t].p_lastmtx # << >> /\ m = Head(kernel.tcb[t].p_lastmtx)
      /\ Dispatch(k)
  BY KernelFields DEF unl_mtx, UsesMutex
<1>1. t \in Task /\ KOK(kernel)
  BY <1>0, Running DEF IInv
<1>2. Result(kernel, k)
  <2> HIDE DEF t
  <2> QED BY <1>0, <1>1, Unlocked
<1> HIDE DEF k
<1> QED BY <1>0, <1>2, DispatchedResult DEF Good

LEMMA StepIni ==
  ASSUME IInv, NEW m \in Mutex, ini_mtx(m)
  PROVE  Good
<1> DEFINE k == free_mutex(kernel, m)
<1>0. existing' = existing /\ Dispatch(k)
  BY DEF ini_mtx, UsesMutex
<1>1. Result(kernel, k)
  BY MutexFreed DEF IInv
<1> HIDE DEF k
<1> QED BY <1>0, <1>1, DispatchedResult DEF Good

LEMMA StepDel ==
  ASSUME IInv, NEW m \in Mutex, del_mtx(m)
  PROVE  Good
<1> DEFINE k == free_mutex(kernel, m)
<1>0. existing' = existing \ {m} /\ Dispatch(k)
  BY DEF del_mtx
<1>1. Result(kernel, k) /\ k.p_loctsk[m] = NULL
  BY MutexFreed DEF IInv
<1> HIDE DEF k
<1>2. /\ existing' \subseteq Mutex
      /\ \A n \in Mutex : k.p_loctsk[n] # NULL => n \in existing'
      /\ Passed(kernel, k)
  BY <1>0, <1>1, ResultPassed
<1>3. IInv' /\ kernel' = k
  BY <1>0, <1>1, <1>2, Dispatched DEF Result
<1> QED BY <1>2, <1>3 DEF Good

LEMMA StepAcre ==
  ASSUME IInv, NEW m \in Mutex, acre_mtx(m)
  PROVE  Good
<1>0. /\ existing' = existing \cup {m}
      /\ kernelVars' = kernelVars /\ p_runtsk' = p_runtsk
      /\ excpt_nest_count' = excpt_nest_count
  BY DEF acre_mtx
<1>1. kernel' = kernel /\ p_loctsk' = p_loctsk /\ p_schedtsk' = p_schedtsk
      /\ dspflg' = dspflg
  BY <1>0 DEF kernelVars, kernel
<1>2. KOK(kernel')
  BY <1>1 DEF IInv
<1>3. ModesOK' /\ ExistingOK'
  BY <1>0, <1>1 DEF IInv, ModesOK, ExistingOK
<1>4. Passed(kernel, kernel')
  BY <1>1, SamePassed
<1> QED BY <1>2, <1>3, <1>4 DEF Good, IInv

LEMMA StepAct ==
  ASSUME IInv, NEW t \in Task, act_tsk(t), UNCHANGED existing
  PROVE  Good
<1> DEFINE k == make_active(kernel, t)
<1>0. TSTAT_DORMANT(kernel.tcb[t].tstat) /\ Dispatch(k)
  BY KernelFields DEF act_tsk, Dormant
<1>1. ~TSTAT_RUNNABLE(kernel.tcb[t].tstat) /\ ~TSTAT_WAITING(kernel.tcb[t].tstat)
  <2>1. kernel.tcb[t].tstat \in TStat
    BY TcbType DEF IInv, KOK, Tidy, QueuesOK
  <2> QED BY <1>0, <2>1, Flags
<1>2. Result(kernel, k)
  BY <1>1, Activated DEF IInv
<1> HIDE DEF k
<1> QED BY <1>0, <1>2, DispatchedResult DEF Good

LEMMA StepTer ==
  ASSUME IInv, NEW t \in Task, ter_tsk(t), UNCHANGED existing
  PROVE  Good
<1> DEFINE k == task_terminate(kernel, t)
<1>0. /\ TaskContext /\ t # p_runtsk /\ ~TSTAT_DORMANT(kernel.tcb[t].tstat)
      /\ Dispatch(k)
  BY KernelFields DEF ter_tsk, Dormant
<1>1. kernel.p_schedtsk # t
  BY <1>0, Running, KernelFields
<1>2. Result(kernel, k)
  BY <1>0, <1>1, Terminated DEF IInv
<1> HIDE DEF k
<1> QED BY <1>0, <1>2, DispatchedResult DEF Good

LEMMA StepTmout ==
  ASSUME IInv, NEW t \in Task, wait_tmout(t), UNCHANGED existing
  PROVE  Good
<1> DEFINE k == make_non_wait(set_wercd(
                  wait_dequeue_wobj(wait_dequeue_tmevtb(kernel, t), t), t), t)
<1>0. t \in kernel.tmevtb /\ Dispatch(k)
  BY KernelFields DEF wait_tmout
<1>1. TSTAT_WAITING(kernel.tcb[t].tstat) /\ KOK(kernel)
  BY <1>0 DEF IInv, KOK, Tidy, QueuesOK
<1>2. Result(kernel, k)
  BY <1>1, TimedOut
<1> HIDE DEF k
<1> QED BY <1>0, <1>2, DispatchedResult DEF Good

LEMMA StepChg ==
  ASSUME IInv, NEW t \in Task, NEW p \in TPri, chg_pri(t, p), UNCHANGED existing
  PROVE  Good
<1> DEFINE k == SetBase(kernel, t, p)
           x == kernel.tcb[t]
<1>0. /\ TaskContext
      /\ x.boosted \/ TSTAT_WAIT_MTX(x.tstat) => mutex_check_ceilpri(kernel, t, p)
      /\ IF x.boosted THEN Return(k) ELSE Dispatch(change_priority(k, t, p, FALSE))
  BY KernelFields DEF chg_pri, SetBase
<1>1. KOK(kernel)
  BY DEF IInv
<1> HIDE DEF k
<1>2. CASE x.boosted
  <2>1. Result(kernel, k) /\ k.p_schedtsk = kernel.p_schedtsk
    BY <1>0, <1>1, <1>2, BoostedKeeps DEF k
  <2> QED BY <1>0, <1>2, <2>1, ReturnedResult, KernelFields DEF Good
<1>3. CASE ~x.boosted
  <2> DEFINE k2 == change_priority(k, t, p, FALSE)
  <2>1. Result(kernel, k2)
    BY <1>0, <1>1, <1>3, BaseChanged DEF k
  <2>2. Dispatch(k2)
    BY <1>0, <1>3
  <2> HIDE DEF k2
  <2> QED BY <2>1, <2>2, DispatchedResult DEF Good
<1> QED BY <1>2, <1>3

LEMMA StepDly ==
  ASSUME IInv, dly_tsk, UNCHANGED existing
  PROVE  Good
<1> DEFINE t == p_runtsk
           k == make_wait_tmout(kernel, t, TS_WAITING_DLY, TRUE)
<1>0. TaskContext /\ dspflg /\ Dispatch(k)
  BY DEF dly_tsk
<1>1. /\ t \in Task /\ TSTAT_RUNNABLE(kernel.tcb[t].tstat)
      /\ KOK(kernel) /\ (kernel.p_schedtsk = t => kernel.dspflg)
  BY <1>0, Running, KernelFields DEF IInv
<1>2. Result(kernel, k)
  <2> HIDE DEF t
  <2> QED BY <1>1, Delayed
<1> HIDE DEF k
<1> QED BY <1>0, <1>2, DispatchedResult DEF Good

LEMMA StepRel ==
  ASSUME IInv, NEW t \in Task, rel_wai(t), UNCHANGED existing
  PROVE  Good
<1> DEFINE k == make_non_wait(set_wercd(
                  wait_dequeue_tmevtb(wait_dequeue_wobj(kernel, t), t), t), t)
<1>0. TSTAT_WAITING(kernel.tcb[t].tstat) /\ Dispatch(k)
  BY KernelFields DEF rel_wai, Waiting
<1>1. Result(kernel, k)
  BY <1>0, WaitReleased DEF IInv
<1> HIDE DEF k
<1> QED BY <1>0, <1>1, DispatchedResult DEF Good

(* A task that is neither dormant nor able to run waits, or is suspended.  *)
LEMMA StepSus ==
  ASSUME IInv, NEW t \in Task, sus_tsk(t), UNCHANGED existing
  PROVE  Good
<1> DEFINE x == kernel.tcb[t].tstat
<1>0. /\ TaskContext /\ (t = p_runtsk => dspflg)
      /\ ~TSTAT_DORMANT(x) /\ ~TSTAT_SUSPENDED(x)
  BY KernelFields DEF sus_tsk, Dormant, Suspended
<1>1. KOK(kernel) /\ x \in TStat /\ (kernel.p_schedtsk = t => kernel.dspflg)
  BY <1>0, Running, KernelFields, TcbType DEF IInv, KOK, Tidy, QueuesOK
<1>2. CASE TSTAT_RUNNABLE(x)
  <2> DEFINE k == make_non_runnable(set_tstat(kernel, t, TS_SUSPENDED), t)
  <2>1. Dispatch(k)
    BY <1>2, KernelFields DEF sus_tsk, Runnable
  <2>2. Result(kernel, k)
    BY <1>1, <1>2, Stopped
  <2> HIDE DEF k
  <2> QED BY <2>1, <2>2, DispatchedResult DEF Good
<1>3. CASE ~TSTAT_RUNNABLE(x)
  <2> DEFINE s == x \cup TS_SUSPENDED
             k == set_tstat(kernel, t, s)
  <2>1. Return(k)
    BY <1>3, KernelFields DEF sus_tsk, Runnable
  <2>2. TSTAT_WAITING(x)
    <3> HIDE DEF x
    <3> QED BY <1>0, <1>1, <1>3, Flags
  <2>3. Result(kernel, k) /\ k.p_schedtsk = kernel.p_schedtsk
    <3>1. s = x \cup TS_SUSPENDED
      OBVIOUS
    <3> HIDE DEF s
    <3> QED BY <1>1, <2>2, <3>1, WaitsOn
  <2> HIDE DEF k
  <2> QED BY <1>0, <2>1, <2>3, ReturnedResult, KernelFields DEF Good
<1> QED BY <1>2, <1>3

LEMMA StepRsm ==
  ASSUME IInv, NEW t \in Task, rsm_tsk(t), UNCHANGED existing
  PROVE  Good
<1> DEFINE x == kernel.tcb[t].tstat
<1>0. TaskContext /\ TSTAT_SUSPENDED(x)
  BY KernelFields DEF rsm_tsk, Suspended
<1>1. KOK(kernel) /\ x \in TStat /\ ~TSTAT_RUNNABLE(x)
  <2>1. KOK(kernel) /\ x \in TStat
    BY TcbType DEF IInv, KOK, Tidy, QueuesOK
  <2> HIDE DEF x
  <2> QED BY <1>0, <2>1, Flags
<1>2. CASE ~TSTAT_WAITING(x)
  <2> DEFINE k == make_active(kernel, t)
  <2>1. Dispatch(k)
    BY <1>2, KernelFields DEF rsm_tsk, Waiting, make_active
  <2>2. Result(kernel, k)
    BY <1>1, <1>2, Activated
  <2> HIDE DEF k
  <2> QED BY <2>1, <2>2, DispatchedResult DEF Good
<1>3. CASE TSTAT_WAITING(x)
  <2> DEFINE s == x \ TS_SUSPENDED
             k == set_tstat(kernel, t, s)
  <2>1. Return(k)
    BY <1>3, KernelFields DEF rsm_tsk, Waiting
  <2>2. Result(kernel, k) /\ k.p_schedtsk = kernel.p_schedtsk
    <3>1. s = x \ TS_SUSPENDED
      OBVIOUS
    <3> HIDE DEF s
    <3> QED BY <1>1, <1>3, <3>1, WaitsOn
  <2> HIDE DEF k
  <2> QED BY <1>0, <2>1, <2>2, ReturnedResult, KernelFields DEF Good
<1> QED BY <1>2, <1>3

LEMMA StepExt ==
  ASSUME IInv, ext_tsk, UNCHANGED existing
  PROVE  Good
<1> DEFINE t  == p_runtsk
           k1 == IF dspflg THEN kernel ELSE set_dspflg(kernel)
           k  == task_terminate(k1, t)
<1>0. TaskContext /\ Dispatch(k)
  BY DEF ext_tsk
<1>1. /\ t \in Task /\ TSTAT_RUNNABLE(kernel.tcb[t].tstat)
      /\ KOK(kernel) /\ Queued(kernel, {}) # {}
  BY <1>0, Running DEF IInv
<1>2. /\ KOK(k1) /\ k1.p_loctsk = kernel.p_loctsk
      /\ k1.tcb = kernel.tcb /\ k1.dspflg
  BY <1>1, Enabled, KernelFields
<1> HIDE DEF k1
<1>3. ~TSTAT_DORMANT(k1.tcb[t].tstat)
  <2>1. kernel.tcb[t].tstat \in TStat
    BY <1>1, TcbType DEF KOK, Tidy, QueuesOK
  <2> QED BY <1>1, <1>2, <2>1, Flags
<1>4. Result(k1, k)
  <2> HIDE DEF t
  <2> QED BY <1>1, <1>2, <1>3, Terminated
<1> HIDE DEF k
<1>5. Result(kernel, k) \/ (KOK(k) /\ k.dspflg /\ HandsOver(kernel, k))
  <2>1. KOK(k) /\ k.dspflg
    BY <1>2, <1>4 DEF Result, Follows
  <2>2. \A m, u : Best(k1, {}, m, u) => Best(kernel, {}, m, u)
    <3>1. \A m : Waiters(k1, {}, m) = Waiters(kernel, {}, m)
      BY <1>2 DEF Waiters
    <3> QED BY <1>2, <3>1 DEF Best
  <2>3. HandsOver(kernel, k)
    BY <1>2, <1>4, <2>2 DEF Result, HandsOver
  <2> QED BY <2>1, <2>3
<1>6. /\ KOK(k) /\ k.dspflg
      /\ existing' \subseteq Mutex
      /\ \A m \in Mutex : k.p_loctsk[m] # NULL => m \in existing'
      /\ Passed(kernel, k)
  <2>1. KOK(k) /\ k.dspflg /\ HandsOver(kernel, k)
    BY <1>2, <1>4, <1>5 DEF Result, Follows
  <2>2. \A m \in Mutex : kernel.p_loctsk[m] # NULL => m \in existing
    BY KernelFields DEF IInv, ExistingOK
  <2> QED BY <2>1, <2>2 DEF HandsOver, Passed, IInv, ExistingOK
<1>7. IInv' /\ kernel' = k
  BY <1>0, <1>6, Dispatched
<1> QED BY <1>6, <1>7 DEF Good

LEMMA StepDis ==
  ASSUME IInv, dis_dsp, UNCHANGED existing
  PROVE  Good
<1> DEFINE k == [kernel EXCEPT !.dspflg = FALSE]
<1>0. TaskContext /\ Return(k)
  BY DEF dis_dsp
<1>1. kernel.p_schedtsk \in Queued(kernel, {}) /\ KOK(kernel)
  BY <1>0, Running, KernelFields DEF IInv
<1>2. k = [kernel EXCEPT !.dspflg = FALSE]
  OBVIOUS
<1> HIDE DEF k
<1>3. KOK(k) /\ k.p_loctsk = kernel.p_loctsk /\ k.p_schedtsk = kernel.p_schedtsk
  BY <1>1, <1>2, Disabled
<1>4. existing' \subseteq Mutex /\ \A m \in Mutex : k.p_loctsk[m] # NULL => m \in existing'
  BY <1>3, KernelFields DEF IInv, ExistingOK
<1>5. IInv' /\ kernel' = k
  BY <1>0, <1>3, <1>4, Returned, KernelFields
<1>6. Passed(kernel, k)
  BY <1>3 DEF Passed
<1> QED BY <1>5, <1>6 DEF Good

LEMMA StepEna ==
  ASSUME IInv, ena_dsp, UNCHANGED existing
  PROVE  Good
<1> DEFINE k == set_dspflg(kernel)
<1>0. TaskContext /\ Dispatch(k)
  BY DEF ena_dsp
<1>1. Queued(kernel, {}) # {} /\ KOK(kernel)
  BY <1>0, Running DEF IInv
<1>2. KOK(k) /\ k.p_loctsk = kernel.p_loctsk /\ k.dspflg
  BY <1>1, Enabled
<1> HIDE DEF k
<1>3. existing' \subseteq Mutex /\ \A m \in Mutex : k.p_loctsk[m] # NULL => m \in existing'
  BY <1>2, KernelFields DEF IInv, ExistingOK
<1>4. IInv' /\ kernel' = k
  BY <1>0, <1>2, <1>3, Dispatched
<1>5. Passed(kernel, k)
  BY <1>2 DEF Passed
<1> QED BY <1>4, <1>5 DEF Good

LEMMA StepIrq ==
  ASSUME IInv, irq_handler \/ irq_return, UNCHANGED existing
  PROVE  Good
<1>1. kernelVars' = kernelVars
  BY DEF irq_handler, irq_return
<1>2. kernel' = kernel /\ p_loctsk' = p_loctsk /\ p_schedtsk' = p_schedtsk
      /\ dspflg' = dspflg
  BY <1>1 DEF kernelVars, kernel
<1>3. KOK(kernel') /\ Passed(kernel, kernel') /\ ExistingOK'
  BY <1>2, SamePassed DEF IInv, ExistingOK
<1>4. p_schedtsk \in Task \cup {NULL} /\ excpt_nest_count \in 0..MaxNest
      /\ p_runtsk \in Task \cup {NULL} /\ MaxNest \in Nat
  BY KernelFields, MutexAssumption DEF IInv, KOK, Tidy, QueuesOK, MSet, ModesOK
<1>5. ModesOK'
  <2>1. CASE irq_handler
    <3>1. excpt_nest_count' = excpt_nest_count + 1 /\ p_runtsk' = p_runtsk
          /\ excpt_nest_count < MaxNest
      BY <2>1 DEF irq_handler
    <3>2. excpt_nest_count' \in 0..MaxNest /\ ~(excpt_nest_count' = 0)
      BY <1>4, <3>1
    <3> QED BY <1>2, <1>4, <3>1, <3>2 DEF IInv, ModesOK
  <2>2. CASE irq_return
    <3>1. /\ excpt_nest_count > 0 /\ excpt_nest_count' = excpt_nest_count - 1
          /\ p_runtsk' = IF excpt_nest_count = 1 THEN p_schedtsk ELSE p_runtsk
      BY <2>2 DEF irq_return, sense_context
    <3>2. excpt_nest_count' \in 0..MaxNest /\ (excpt_nest_count' = 0 => excpt_nest_count = 1)
      BY <1>4, <3>1
    <3> QED BY <1>2, <1>4, <3>1, <3>2 DEF IInv, ModesOK
  <2> QED BY <2>1, <2>2
<1> QED BY <1>3, <1>5 DEF Good, IInv

LEMMA NextGood ==
  ASSUME IInv, Next
  PROVE  Good
<1>1. CASE DisciplinedNext
  <2>1. ASSUME NEW m \in CEILING, ploc_mtx(m) \/ unl_mtx(m) PROVE Good
    <3>1. m \in Mutex
      BY MutexAssumption, WaitQueueAssumption DEF Mutex
    <3> QED BY <2>1, <3>1, StepPloc, StepUnl
  <2>2. ASSUME NEW m \in Mutex, acre_mtx(m) PROVE Good
    BY <2>2, StepAcre
  <2>3. ASSUME UNCHANGED existing, NEW t \in Task, act_tsk(t) \/ ter_tsk(t) \/ wait_tmout(t)
        PROVE  Good
    BY <2>3, StepAct, StepTer, StepTmout
  <2>4. ASSUME UNCHANGED existing, NEW t \in Task, NEW pri \in TPri, chg_pri(t, pri)
        PROVE  Good
    BY <2>4, StepChg
  <2>5. ASSUME UNCHANGED existing,
               dly_tsk \/ ext_tsk \/ dis_dsp \/ ena_dsp \/ irq_handler \/ irq_return
        PROVE  Good
    BY <2>5, StepDly, StepExt, StepDis, StepEna, StepIrq
  <2> QED BY <1>1, <2>1, <2>2, <2>3, <2>4, <2>5 DEF DisciplinedNext
<1>2. CASE UndisciplinedNext
  <2>1. ASSUME NEW m \in Mutex,
               ploc_mtx(m) \/ unl_mtx(m) \/ ini_mtx(m) \/ del_mtx(m)
        PROVE  Good
    BY <2>1, StepPloc, StepUnl, StepIni, StepDel
  <2>2. ASSUME NEW m \in Mutex, NEW timed \in BOOLEAN, tloc_mtx(m, timed) PROVE Good
    BY <2>2, StepTloc
  <2>3. ASSUME UNCHANGED existing, NEW t \in Task, rel_wai(t) \/ sus_tsk(t) \/ rsm_tsk(t)
        PROVE  Good
    BY <2>3, StepRel, StepSus, StepRsm
  <2>4. ASSUME UNCHANGED existing, NEW t \in Task, NEW pri \in TPri, chg_pri(t, pri)
        PROVE  Good
    BY <2>4, StepChg
  <2>5. ASSUME UNCHANGED existing, dly_tsk PROVE Good
    BY <2>5, StepDly
  <2> QED BY <1>2, <2>1, <2>2, <2>3, <2>4, <2>5 DEF UndisciplinedNext
<1> QED BY <1>1, <1>2 DEF Next

--------------------------------------------------------------------------
(* The invariant holds initially and in every reachable state.             *)
LEMMA InitIInv ==
  ASSUME Init
  PROVE  IInv
<1> DEFINE N == {}
<1>1. /\ tcb \in [Task -> TCB]
      /\ \A t \in Task :
           /\ tcb[t].tstat = TS_DORMANT /\ tcb[t].p_lastmtx = << >>
           /\ WobjOK(tcb[t]) /\ (\A m : ~Waits(tcb[t], m))
           /\ ~TSTAT_RUNNABLE(tcb[t].tstat)
           /\ PriOK(tcb[t])
  <2>1. tcb = [t \in Task |-> DormantTCB(t)]
    BY DEF Init, Boot
  <2>2. \A t \in Task : tcb[t] = DormantTCB(t)
    BY <2>1
  <2>3. \A t \in Task : DormantTCB(t) \in TCB
    BY DormantOK
  <2> QED BY <2>1, <2>2, <2>3, DormantOK
<1>2. /\ ready_queue = [p \in TPri |-> << >>] /\ ready_primap = {}
      /\ p_schedtsk = NULL /\ dspflg = TRUE /\ tmevtb = {} /\ asserted = TRUE
      /\ wait_queue = [m \in Mutex |-> << >>]
      /\ p_loctsk = [m \in Mutex |-> NULL]
      /\ p_runtsk = NULL /\ excpt_nest_count = 0 /\ existing = {}
  BY DEF Init, Boot
<1>3. kernel \in MSet
  <2>1. /\ ready_queue \in [TPri -> Seq(Task)]
        /\ wait_queue \in [Mutex -> Seq(Task)]
        /\ p_loctsk \in [Mutex -> Task \cup {NULL}]
    BY <1>2
  <2> QED BY <1>1, <1>2, <2>1 DEF kernel, MSet
<1>4. Queued(kernel, N) = {} /\ \A m \in Mutex : Waiters(kernel, N, m) = {}
  BY <1>1, KernelFields DEF Queued, Waiters
<1>5. KInv(kernel, {})
  <2>1. \A p \in TPri : AtPri(kernel, {}, p) = {} /\ ready_queue[p] = << >>
    BY <1>2 DEF AtPri
  <2>2. \A t \in Task : tcb[t].priority \in TPri
    BY <1>3, TcbType, KernelFields
  <2>3. ReadyOK(kernel, {})
    BY <1>2, <2>1, <2>2, QueueEmpty, KernelFields DEF ReadyOK
  <2>4. SchedOK(kernel, {})
    BY <1>2, KernelFields DEF SchedOK
  <2> QED BY <2>3, <2>4 DEF KInv
<1>6. \A m \in Mutex : WaitQueueOK(TPRI, kernel, m, wait_queue[m], Waiters(kernel, N, m))
  <2>1. TAKE m \in Mutex
  <2>2. wait_queue[m] = << >> /\ Len(<< >>) = 0
    BY <1>2
  <2>3. Sorted(kernel, wait_queue[m])
    BY <2>2 DEF Sorted
  <2> QED BY <1>4, <2>2, <2>3, QueueEmpty DEF WaitQueueOK
<1>7. Tidy(kernel, N)
  BY <1>1, <1>2, <1>3, <1>4, <1>5, <1>6, KernelFields DEF Tidy, QueuesOK
<1>8. OwnersOK(kernel, N, N)
  <2>1. \A t \in Task : Owned(kernel, N, t) = {}
    BY <1>2, NULLAssumption, KernelFields DEF Owned
  <2>2. \A t \in Task : QueueOf(tcb[t].p_lastmtx, Owned(kernel, N, t))
    BY <1>1, <2>1, QueueEmpty
  <2> QED BY <1>1, <2>2, KernelFields DEF OwnersOK
<1>9. PrioritiesOK(kernel, N)
  BY <1>1, KernelFields DEF PrioritiesOK
<1>10. ModesOK /\ ExistingOK
  BY <1>2, MutexAssumption DEF ModesOK, ExistingOK
<1> QED BY <1>7, <1>8, <1>9, <1>10 DEF IInv, KOK

LEMMA Stutter ==
  ASSUME IInv, UNCHANGED vars
  PROVE  Good
<1>1. UNCHANGED <<tcb, ready_queue, ready_primap, p_schedtsk, dspflg, tmevtb,
                  asserted, wait_queue, p_loctsk>>
      /\ UNCHANGED <<existing, p_runtsk, excpt_nest_count>>
  BY DEF vars, kernelVars
<1>2. kernel' = kernel
  BY <1>1 DEF kernel
<1>3. KOK(kernel')
  BY <1>2 DEF IInv
<1>4. ModesOK' /\ ExistingOK'
  BY <1>1 DEF IInv, ModesOK, ExistingOK
<1> QED BY <1>1, <1>3, <1>4, SamePassed DEF Good, IInv

LEMMA Inductive == Spec => []IInv
<1>1. Init => IInv
  BY InitIInv
<1>2. IInv /\ [Next]_vars => IInv'
  BY NextGood, Stutter DEF Good
<1> QED BY <1>1, <1>2, PTL DEF Spec

--------------------------------------------------------------------------
(* What the invariant says of the variables.                               *)
LEMMA Facts ==
  ASSUME IInv
  PROVE  /\ kernel \in MSet
         /\ TypeOK
         /\ asserted = TRUE
         /\ KInv(kernel, {t \in Task : Runnable(t)})
         /\ \A m \in Mutex :
              WaitQueueOK(TPRI, kernel, m, wait_queue[m], {t \in Task : Waits(tcb[t], m)})
         /\ \A t \in tmevtb : Waiting(t)
         /\ \A t \in Task :
              /\ QueueOf(tcb[t].p_lastmtx, {m \in Mutex : p_loctsk[m] = t})
              /\ Dormant(t) => tcb[t].p_lastmtx = << >>
              /\ \A m \in Mutex :
                   Waits(tcb[t], m) => p_loctsk[m] # NULL /\ p_loctsk[m] # t
              /\ PriOK(tcb[t])
<1> DEFINE N == {}
<1>1. Tidy(kernel, N) /\ OwnersOK(kernel, N, N) /\ PrioritiesOK(kernel, N)
  BY DEF IInv, KOK
<1>2. /\ Queued(kernel, N) = {t \in Task : Runnable(t)}
      /\ \A m : Waiters(kernel, N, m) = {t \in Task : Waits(tcb[t], m)}
      /\ \A t : Owned(kernel, N, t) = {m \in Mutex : p_loctsk[m] = t}
      /\ Task \ N = Task
  BY KernelFields DEF Queued, Waiters, Owned, Runnable
<1> HIDE DEF N
<1>3. /\ kernel \in MSet /\ asserted = TRUE
      /\ KInv(kernel, {t \in Task : Runnable(t)})
      /\ \A m \in Mutex :
           WaitQueueOK(TPRI, kernel, m, wait_queue[m], {t \in Task : Waits(tcb[t], m)})
      /\ \A t \in tmevtb : Waiting(t)
  BY <1>1, <1>2, KernelFields DEF Tidy, QueuesOK, Waiting
<1>4. TypeOK
  BY <1>3 DEF MSet, kernel, IInv, ModesOK, ExistingOK, TypeOK
<1>5. \A t \in Task :
        /\ QueueOf(tcb[t].p_lastmtx, {m \in Mutex : p_loctsk[m] = t})
        /\ Dormant(t) => tcb[t].p_lastmtx = << >>
        /\ \A m \in Mutex :
             Waits(tcb[t], m) => p_loctsk[m] # NULL /\ p_loctsk[m] # t
        /\ PriOK(tcb[t])
  BY <1>1, <1>2, KernelFields DEF OwnersOK, PrioritiesOK, Dormant
<1> QED BY <1>3, <1>4, <1>5

--------------------------------------------------------------------------
(* The results. *)

(* In every reachable state the owner recorded in a mutex and the lists of *)
(* the mutexes that tasks have locked agree; a dormant task holds none,    *)
(* and nobody holds a deleted one.                                         *)
THEOREM OwnersCorrect == Spec => []OwnerListsAgree
<1>1. ASSUME IInv PROVE OwnerListsAgree
  <2> SUFFICES ASSUME NEW t \in Task
               PROVE  /\ Held(t) = {m \in Mutex : p_loctsk[m] = t}
                      /\ IsInjective(tcb[t].p_lastmtx)
                      /\ Dormant(t) => Held(t) = {}
                      /\ Held(t) \subseteq existing
    BY DEF OwnerListsAgree
  <2> DEFINE S == {m \in Mutex : p_loctsk[m] = t}
  <2>2. QueueOf(tcb[t].p_lastmtx, S)
    BY <1>1, Facts
  <2>3. \A m \in S : m \in existing
    BY <1>1, NULLAssumption DEF IInv, ExistingOK
  <2>4. Dormant(t) => tcb[t].p_lastmtx = << >>
    BY <1>1, Facts
  <2> HIDE DEF S
  <2>5. Held(t) = S /\ IsInjective(tcb[t].p_lastmtx)
    BY <2>2 DEF Held, QueueOf
  <2>6. Dormant(t) => S = {}
    BY <2>2, <2>4, QueueHead
  <2> QED BY <2>3, <2>5, <2>6 DEF S
<1> QED BY <1>1, Inductive, PTL

(* A task is in the wait queue of the mutex it waits for, once, and in no  *)
(* other; that mutex has an owner, which is not the task itself; the       *)
(* queues of TPRI are in the order of the current priorities, whichever    *)
(* calls have changed these; and only a waiting task has a time event.     *)
THEOREM WaitQueuesCorrect == Spec => []WaitQueuesOK
<1>1. ASSUME IInv PROVE WaitQueuesOK
  <2>1. ASSUME NEW m \in Mutex
        PROVE  /\ IsInjective(wait_queue[m])
               /\ ToSet(wait_queue[m]) =
                    {t \in Task : TSTAT_WAIT_MTX(tcb[t].tstat) /\ tcb[t].wobj = m}
               /\ wait_queue[m] # << >> =>
                    p_loctsk[m] \notin ToSet(wait_queue[m]) \cup {NULL}
               /\ m \in TPRI => \A i, j \in DOMAIN wait_queue[m] :
                    i < j => tcb[wait_queue[m][i]].priority
                               <= tcb[wait_queue[m][j]].priority
    <3> DEFINE S == {t \in Task : Waits(tcb[t], m)}
               q == wait_queue[m]
    <3>1. WaitQueueOK(TPRI, kernel, m, q, S)
      BY <1>1, Facts
    <3>2. \A t \in S : p_loctsk[m] # NULL /\ p_loctsk[m] # t
      BY <1>1, Facts
    <3>3. S = {t \in Task : TSTAT_WAIT_MTX(tcb[t].tstat) /\ tcb[t].wobj = m}
      BY DEF Waits
    <3> HIDE DEF S, q
    <3>4. QueueOf(q, S) /\ (m \in TPRI => Sorted(kernel, q))
      BY <3>1 DEF WaitQueueOK
    <3>5. DOMAIN q = 1..Len(q) /\ (q # << >> => Head(q) \in S)
      BY <3>4, QueueIndex, QueueHead
    <3>6. IsInjective(q) /\ ToSet(q) = S
      BY <3>4 DEF QueueOf
    <3>7. q # << >> => p_loctsk[m] \notin ToSet(q) \cup {NULL}
      BY <3>2, <3>5, <3>6
    <3>8. m \in TPRI => \A i, j \in DOMAIN q :
            i < j => tcb[q[i]].priority <= tcb[q[j]].priority
      BY <3>4, <3>5, KernelFields DEF Sorted
    <3> QED BY <3>3, <3>6, <3>7, <3>8 DEF q
  <2>2. \A t \in tmevtb : Waiting(t)
    BY <1>1, Facts
  <2> QED BY <2>1, <2>2 DEF WaitQueuesOK
<1> QED BY <1>1, Inductive, PTL

(* The current priority of a task is always the highest of its base        *)
(* priority and of the ceilings of the mutexes it has locked, none of      *)
(* which, nor that of a mutex it waits for, is below the base priority.    *)
THEOREM PrioritiesCorrect == Spec => []PriorityIsCeiling
<1>1. ASSUME IInv PROVE PriorityIsCeiling
  <2>1. ASSUME NEW t \in Task
        PROVE  /\ tcb[t].priority = Min(Ceilings(kernel, t) \cup {tcb[t].bpriority})
               /\ tcb[t].boosted <=> Ceilings(kernel, t) # {}
               /\ mutex_check_ceilpri(kernel, t, tcb[t].bpriority)
    <3> DEFINE r == tcb[t]
               C == Ceil(r)
               S == C \cup {r.bpriority}
    <3>1. PriOK(r) /\ kernel \in MSet
      BY <1>1, Facts
    <3>2. r.priority \in TPri /\ r.bpriority \in TPri
      BY <3>1, TcbType, KernelFields
    <3>3. Ceilings(kernel, t) = C
      BY KernelFields DEF Ceilings, Ceil
    <3>4. /\ C \subseteq TPri
          /\ \A c \in C : r.priority <= c /\ c <= r.bpriority
          /\ r.priority \in C \cup {r.bpriority} /\ r.priority <= r.bpriority
          /\ r.boosted <=> C # {}
          /\ \A m \in CEILING : Waits(r, m) => ceilpri[m] <= r.bpriority
      BY <3>1, CeilPri DEF PriOK
    <3>5. TPri \subseteq Nat /\ \A a, b \in TPri : a <= b => b >= a
      BY TNUM_TPRIAssumption DEF TPri
    <3> HIDE DEF C
    <3>6. r.priority = Min(S)
      <4>1. /\ S \subseteq Nat /\ S # {} /\ r.priority \in S
            /\ \A s \in S : r.priority <= s
        BY <3>2, <3>4, <3>5
      <4> HIDE DEF S
      <4>2. Min(S) \in S /\ \A s \in S : Min(S) <= s
        BY <4>1, MinNat
      <4>3. Min(S) \in Nat /\ r.priority \in Nat
            /\ Min(S) <= r.priority /\ r.priority <= Min(S)
        BY <4>1, <4>2
      <4> QED BY <4>3
    <3>7. \A c \in C : r.bpriority >= c
      BY <3>2, <3>4, <3>5
    <3>8. ASSUME TSTAT_WAIT_MTX(r.tstat), r.wobj \in CEILING
          PROVE  r.bpriority >= ceilpri[r.wobj]
      <4>1. Waits(r, r.wobj) /\ ceilpri[r.wobj] \in TPri
        BY <3>8, MutexAssumption DEF Waits
      <4> QED BY <3>2, <3>4, <3>5, <3>8, <4>1
    <3>9. mutex_check_ceilpri(kernel, t, r.bpriority)
      BY <3>3, <3>7, <3>8, KernelFields DEF mutex_check_ceilpri
    <3> QED BY <3>3, <3>4, <3>6, <3>9
  <2> QED BY <2>1 DEF PriorityIsCeiling
<1> QED BY <1>1, Inductive, PTL

(* The variables keep their types, each task that can run is in the ready  *)
(* queue of its current priority, once, the first of the highest priority  *)
(* should run, and no assert() of the code fails.                          *)
THEOREM SchedulerCorrect == Spec => []SchedulerOK
<1>1. ASSUME IInv PROVE SchedulerOK
  <2> DEFINE R == {t \in Task : Runnable(t)}
  <2>1. kernel \in MSet /\ TypeOK /\ asserted = TRUE /\ KInv(kernel, R)
    BY <1>1, Facts
  <2>2. \A p \in TPri :
          AtPri(kernel, R, p) = {t \in Task : Runnable(t) /\ tcb[t].priority = p}
    BY KernelFields DEF AtPri
  <2> HIDE DEF R
  <2>3. /\ \A p \in TPri : QueueOf(ready_queue[p], AtPri(kernel, R, p))
        /\ \A p \in TPri : p \in ready_primap <=> AtPri(kernel, R, p) # {}
        /\ ready_primap \subseteq TPri
        /\ \A t \in R : t \in Task /\ tcb[t].priority \in TPri
        /\ dspflg => IF R = {} THEN p_schedtsk = NULL ELSE IsFirst(kernel, R, p_schedtsk)
    BY <2>1, KernelFields DEF KInv, ReadyOK, SchedOK, MSet
  <2>4. \A p \in TPri : /\ IsInjective(ready_queue[p])
                        /\ ToSet(ready_queue[p]) = AtPri(kernel, R, p)
    BY <2>3 DEF QueueOf
  <2>5. ready_primap = {p \in TPri : ready_queue[p] # << >>}
    BY <2>3, QueueHead
  <2>6. ready_primap = {} <=> R = {}
    <3>1. ASSUME NEW t \in R PROVE tcb[t].priority \in ready_primap
      <4>1. t \in AtPri(kernel, R, tcb[t].priority)
        BY KernelFields DEF AtPri
      <4> QED BY <2>3, <4>1
    <3>2. ASSUME NEW p \in ready_primap PROVE R # {}
      BY <2>3 DEF AtPri
    <3> QED BY <3>1, <3>2
  <2>7. ASSUME IsFirst(kernel, R, p_schedtsk), R # {}
        PROVE  p_schedtsk = search_schedtsk(kernel)
    <3> DEFINE p == primap_search(ready_primap)
               s == tcb[p_schedtsk].priority
    <3>1. /\ p_schedtsk \in R /\ p_schedtsk = Head(ready_queue[s])
          /\ \A t \in R : s <= tcb[t].priority
      BY <2>7, KernelFields DEF IsFirst
    <3>2. p \in ready_primap /\ \A q \in ready_primap : p <= q
      BY <2>3, <2>6, <2>7, PrimapSearch
    <3>3. s \in TPri /\ s \in ready_primap
      BY <2>3, <3>1, KernelFields DEF AtPri
    <3> HIDE DEF p
    <3>4. PICK t \in R : tcb[t].priority = p
      BY <2>3, <3>2, KernelFields DEF AtPri
    <3>5. s <= p /\ p <= s /\ p \in TPri
      BY <2>3, <3>1, <3>2, <3>3, <3>4
    <3>6. s = p
      <4> HIDE DEF s
      <4> QED BY <3>3, <3>5 DEF TPri
    <3> QED BY <3>1, <3>6, KernelFields DEF search_schedtsk, p
  <2>8. dspflg => p_schedtsk = IF ready_primap = {} THEN NULL
                               ELSE search_schedtsk(kernel)
    BY <2>3, <2>6, <2>7
  <2> QED BY <2>1, <2>2, <2>4, <2>5, <2>8 DEF SchedulerOK
<1> QED BY <1>1, Inductive, PTL

(* In every step in which a mutex of TPRI passes from one task to another, *)
(* it goes to a task that was waiting for it, of the highest priority.     *)
THEOREM HandOverCorrect == Spec => HandedToBestWaiter
<1>1. ASSUME IInv, [Next]_vars
      PROVE  \A m \in TPRI :
               p_loctsk[m] # NULL /\ p_loctsk'[m] \notin {NULL, p_loctsk[m]} =>
                 /\ p_loctsk'[m] \in ToSet(wait_queue[m])
                 /\ \A t \in ToSet(wait_queue[m]) :
                      tcb[p_loctsk'[m]].priority <= tcb[t].priority
  <2>1. Passed(kernel, kernel')
    BY <1>1, NextGood, Stutter DEF Good
  <2>2. kernel'.p_loctsk = p_loctsk'
    BY DEF kernel
  <2>3. SUFFICES ASSUME NEW m \in TPRI, p_loctsk[m] # NULL,
                        p_loctsk'[m] \notin {NULL, p_loctsk[m]}
                 PROVE  /\ p_loctsk'[m] \in ToSet(wait_queue[m])
                        /\ \A t \in ToSet(wait_queue[m]) :
                             tcb[p_loctsk'[m]].priority <= tcb[t].priority
    OBVIOUS
  <2>4. m \in Mutex
    BY WaitQueueAssumption DEF Mutex
  <2> DEFINE N == {}
             S == {t \in Task : Waits(tcb[t], m)}
             u == p_loctsk'[m]
  <2>5. Best(kernel, N, m, u)
    BY <2>1, <2>2, <2>3, <2>4, KernelFields DEF Passed
  <2>6. Waiters(kernel, N, m) = S
    BY KernelFields DEF Waiters
  <2>7. WaitQueueOK(TPRI, kernel, m, wait_queue[m], S)
    BY <1>1, <2>4, Facts
  <2> HIDE DEF N, S, u
  <2>8. ToSet(wait_queue[m]) = S
    BY <2>7 DEF WaitQueueOK, QueueOf
  <2>9. u \in S /\ \A t \in S : tcb[u].priority <= tcb[t].priority
    BY <2>3, <2>5, <2>6, KernelFields DEF Best
  <2> QED BY <2>8, <2>9 DEF u
<1> QED BY <1>1, Inductive, PTL DEF Spec, HandedToBestWaiter

--------------------------------------------------------------------------
(* The use of ceilings, an argument about layers.  The tasks that hold a   *)
(* mutex can all run, each is before the other tasks of its priority, and  *)
(* the priorities between the current and the base priority of one are     *)
(* apart from those of every other.  So whoever should run has a base      *)
(* priority above the current priority, hence above the ceilings, of every *)
(* other holder.                                                           *)

(* The order of a queue.                                                   *)
Before(q, t, u) == \E i, j \in 1..Len(q) : i < j /\ q[i] = t /\ q[j] = u

LEMMA HeadBefore ==
  ASSUME NEW S, NEW q, QueueOf(q, S), NEW u \in S, u # Head(q)
  PROVE  Before(q, Head(q), u)
<1>1. /\ Len(q) \in Nat /\ q # << >>
      /\ \E i \in 1..Len(q) : q[i] = u
  BY QueueIndex, QueueHead
<1>2. Head(q) = q[1] /\ Len(q) > 0
  BY <1>1, QueueHead
<1>3. PICK i \in 1..Len(q) : q[i] = u
  BY <1>1
<1>4. i # 1 /\ 1 \in 1..Len(q)
  BY <1>1, <1>2, <1>3
<1> QED BY <1>1, <1>2, <1>3, <1>4 DEF Before

LEMMA BeforeInserted ==
  ASSUME NEW q, Len(q) \in Nat, NEW t, NEW u, Before(q, t, u),
         NEW r, NEW i, NEW x, Inserted(q, r, i, x)
  PROVE  Before(r, t, u)
<1>1. PICK a, b \in 1..Len(q) : a < b /\ q[a] = t /\ q[b] = u
  BY DEF Before
<1>2. i \in 1..Len(q) + 1 /\ Len(r) = Len(q) + 1
  BY DEF Inserted
<1> DEFINE to(j) == IF j < i THEN j ELSE j + 1
<1>3. ASSUME NEW j \in 1..Len(q) PROVE to(j) \in 1..Len(r) /\ r[to(j)] = q[j]
  <2>1. to(j) \in 1..Len(r)
    BY <1>2
  <2>2. CASE j < i
    BY <2>1, <2>2 DEF Inserted
  <2>3. CASE ~(j < i)
    <3>1. i <= j
      BY <1>2, <2>3
    <3> QED BY <2>1, <2>3, <3>1 DEF Inserted
  <2> QED BY <2>2, <2>3
<1>4. to(a) < to(b)
  BY <1>1, <1>2
<1> HIDE DEF to
<1> QED BY <1>1, <1>3, <1>4 DEF Before

LEMMA BeforeRemoved ==
  ASSUME NEW q, Len(q) \in Nat, NEW t, NEW u, Before(q, t, u),
         NEW r, NEW i, Removed(q, r, i), q[i] # t, q[i] # u
  PROVE  Before(r, t, u)
<1>1. PICK a, b \in 1..Len(q) : a < b /\ q[a] = t /\ q[b] = u
  BY DEF Before
<1>2. i \in 1..Len(q) /\ Len(r) = Len(q) - 1
  BY DEF Removed
<1> DEFINE to(j) == IF j < i THEN j ELSE j - 1
<1>3. ASSUME NEW j \in 1..Len(q), j # i PROVE to(j) \in 1..Len(r) /\ r[to(j)] = q[j]
  <2>1. to(j) \in 1..Len(q) - 1
    BY <1>2, <1>3
  <2>2. r[to(j)] = IF to(j) < i THEN q[to(j)] ELSE q[to(j) + 1]
    <3> HIDE DEF to
    <3> QED BY <2>1 DEF Removed
  <2>3. CASE j < i
    BY <1>2, <2>1, <2>2, <2>3
  <2>4. CASE ~(j < i)
    <3>1. to(j) = j - 1 /\ ~(j - 1 < i) /\ j - 1 + 1 = j
      BY <1>2, <1>3, <2>4
    <3> HIDE DEF to
    <3> QED BY <1>2, <2>1, <2>2, <3>1
  <2> QED BY <2>3, <2>4
<1>4. a # i /\ b # i
  BY <1>1
<1>5. to(a) < to(b)
  BY <1>1, <1>2, <1>4
<1> HIDE DEF to
<1> QED BY <1>1, <1>3, <1>4, <1>5 DEF Before

(* The tasks other than t keep their order in all ready queues.            *)
OrderKept(rq, rq2, t) ==
  \A p \in TPri : \A u, v \in Task \ {t} : Before(rq[p], u, v) => Before(rq2[p], u, v)

(* What happens to t in one queue of tasks S.                              *)
LEMMA AppendOrder ==
  ASSUME NEW S, NEW q, QueueOf(q, S), NEW t, t \notin S
  PROVE  /\ \A u, v : Before(q, u, v) => Before(Append(q, t), u, v)
         /\ \A u \in S : Before(Append(q, t), u, t)
<1> DEFINE r == Append(q, t)
           n == Len(q)
<1>1. /\ n \in Nat
      /\ \A u \in S : \E i \in 1..n : q[i] = u
      /\ Inserted(q, r, n + 1, t)
  BY QueueIndex, QueueAppend
<1> HIDE DEF r
<1>2. \A u, v : Before(q, u, v) => Before(r, u, v)
  BY <1>1, BeforeInserted
<1>3. ASSUME NEW u \in S PROVE Before(r, u, t)
  <2>1. PICK i \in 1..n : q[i] = u
    BY <1>1
  <2>2. /\ i < n + 1 /\ r[i] = u /\ r[n + 1] = t /\ Len(r) = n + 1
        /\ i \in 1..n + 1 /\ n + 1 \in 1..n + 1
    BY <1>1, <2>1 DEF Inserted
  <2> HIDE DEF n
  <2> QED BY <2>2 DEF Before
<1> QED BY <1>2, <1>3 DEF r

LEMMA ConsOrder ==
  ASSUME NEW S, NEW q, QueueOf(q, S), NEW t, t \notin S
  PROVE  /\ \A u, v : Before(q, u, v) => Before(Cons(t, q), u, v)
         /\ \A u \in S : Before(Cons(t, q), t, u)
<1> DEFINE r == Cons(t, q)
<1>1. /\ Len(q) \in Nat /\ Inserted(q, r, 1, t)
      /\ QueueOf(r, S \cup {t}) /\ Head(r) = t
  BY QueueIndex, QueueCons
<1> HIDE DEF r
<1>2. \A u, v : Before(q, u, v) => Before(r, u, v)
  BY <1>1, BeforeInserted
<1>3. ASSUME NEW u \in S PROVE Before(r, t, u)
  <2> DEFINE T == S \cup {t}
  <2>1. u \in T /\ u # Head(r) /\ QueueOf(r, T)
    BY <1>1
  <2> HIDE DEF T
  <2> QED BY <1>1, <2>1, HeadBefore
<1> QED BY <1>2, <1>3 DEF r

LEMMA RemoveOrder ==
  ASSUME NEW S, NEW q, QueueOf(q, S), NEW t \in S
  PROVE  \A u, v : u # t /\ v # t /\ Before(q, u, v) => Before(RemoveFirst(q, t), u, v)
<1> DEFINE r == RemoveFirst(q, t)
<1>1. Len(q) \in Nat /\ \E i \in 1..Len(q) : q[i] = t /\ Removed(q, r, i)
  BY QueueIndex, QueueRemove
<1> HIDE DEF r
<1> QED BY <1>1, BeforeRemoved DEF r

--------------------------------------------------------------------------
(* What the helpers do to the order of the ready queues.                   *)
LEMMA RunnableOrder ==
  ASSUME NEW k \in MSet, NEW R, KInv(k, R), NEW t \in Task, t \notin R
  PROVE  LET k2 == make_runnable(k, t)
         IN  /\ k2.tcb = k.tcb /\ SameObjects(k, k2)
             /\ OrderKept(k.ready_queue, k2.ready_queue, t)
             /\ \A u \in R : k.tcb[u].priority = k.tcb[t].priority =>
                  Before(k2.ready_queue[k.tcb[t].priority], u, t)
<1> DEFINE k2  == make_runnable(k, t)
           pri == k.tcb[t].priority
           q   == k.ready_queue[pri]
           rq  == [k.ready_queue EXCEPT ![pri] = Append(q, t)]
           S   == AtPri(k, R, pri)
<1>1. pri \in TPri /\ QueueOf(q, S) /\ t \notin S
  BY DEF KInv, ReadyOK, AtPri
<1>2. k2.tcb = k.tcb /\ SameObjects(k, k2) /\ k2.ready_queue = rq
  BY DEF make_runnable, MSet, SameObjects
<1>3. \A p \in TPri : rq[p] = IF p = pri THEN Append(q, t) ELSE k.ready_queue[p]
  BY <1>1 DEF MSet
<1> HIDE DEF k2, rq
<1>4. /\ \A u, v : Before(q, u, v) => Before(Append(q, t), u, v)
      /\ \A u \in S : Before(Append(q, t), u, t)
  <2> HIDE DEF q, S
  <2> QED BY <1>1, AppendOrder
<1>5. OrderKept(k.ready_queue, rq, t)
  BY <1>3, <1>4 DEF OrderKept
<1>6. \A u \in R : k.tcb[u].priority = pri => Before(rq[pri], u, t)
  BY <1>1, <1>3, <1>4 DEF AtPri
<1> QED BY <1>2, <1>5, <1>6 DEF k2

LEMMA NonRunnableOrder ==
  ASSUME NEW k \in MSet, NEW R, KInv(k, R), NEW t \in R
  PROVE  LET k2 == make_non_runnable(k, t)
         IN  /\ k2.tcb = k.tcb /\ SameObjects(k, k2)
             /\ OrderKept(k.ready_queue, k2.ready_queue, t)
<1> DEFINE k2  == make_non_runnable(k, t)
           pri == k.tcb[t].priority
           q   == k.ready_queue[pri]
           rq  == [k.ready_queue EXCEPT ![pri] = RemoveFirst(q, t)]
           S   == AtPri(k, R, pri)
<1>1. pri \in TPri /\ QueueOf(q, S) /\ t \in S
  BY DEF KInv, ReadyOK, AtPri
<1>2. k2.tcb = k.tcb /\ SameObjects(k, k2) /\ k2.ready_queue = rq
  BY DEF make_non_runnable, MSet, SameObjects
<1>3. \A p \in TPri : rq[p] = IF p = pri THEN RemoveFirst(q, t) ELSE k.ready_queue[p]
  BY <1>1 DEF MSet
<1> HIDE DEF k2, rq
<1>4. \A u, v : u # t /\ v # t /\ Before(q, u, v) => Before(RemoveFirst(q, t), u, v)
  <2> HIDE DEF q, S
  <2> QED BY <1>1, RemoveOrder
<1>5. OrderKept(k.ready_queue, rq, t)
  BY <1>3, <1>4 DEF OrderKept
<1> QED BY <1>2, <1>5 DEF k2

(* A task that can run goes before all others of its new priority.         *)
LEMMA PriorityOrder ==
  ASSUME NEW k \in MSet, KInv(k, Queued(k, {})),
         NEW t \in Task, TSTAT_RUNNABLE(k.tcb[t].tstat), NEW new \in TPri
  PROVE  LET k2 == change_priority(k, t, new, TRUE)
         IN  /\ SameObjects(k, k2) /\ OthersSame(k, k2, t)
             /\ k2.tcb[t] = [k.tcb[t] EXCEPT !.priority = new]
             /\ OrderKept(k.ready_queue, k2.ready_queue, t)
             /\ \A u \in Task \ {t} :
                  TSTAT_RUNNABLE(k.tcb[u].tstat) /\ k.tcb[u].priority = new =>
                    Before(k2.ready_queue[new], t, u)
<1> DEFINE k2  == change_priority(k, t, new, TRUE)
           N   == {}
           R   == Queued(k, N)
           old == k.tcb[t].priority
           q   == k.ready_queue[old]
           rq1 == [k.ready_queue EXCEPT ![old] = RemoveFirst(q, t)]
           rq2 == [rq1 EXCEPT ![new] = Cons(t, @)]
           k1  == [k EXCEPT !.tcb[t].priority = new]
<1>1. k \in MSet /\ KInv(k, R) /\ t \in R
      /\ \A u \in Task : TSTAT_RUNNABLE(k.tcb[u].tstat) => u \in R
  BY DEF Queued
<1> HIDE DEF R
<1>2. old \in TPri /\ QueueOf(q, AtPri(k, R, old)) /\ t \in AtPri(k, R, old)
  BY <1>1 DEF KInv, ReadyOK, AtPri
<1>3. k2 = requeue(k1, t, old, new, TRUE)
  BY DEF change_priority
<1>4. /\ k1 \in MSet
      /\ k1.ready_queue = k.ready_queue /\ SameObjects(k, k1)
      /\ OthersSame(k, k1, t) /\ k1.tcb[t] = [k.tcb[t] EXCEPT !.priority = new]
  <2> DEFINE r == [k.tcb[t] EXCEPT !.priority = new]
  <2>1. r \in TCB /\ k1 = Put(k, t, r)
    <3>1. k.tcb[t] \in TCB
      BY <1>1, TcbType
    <3>2. r \in TCB
      BY <3>1, TCBFields
    <3>3. k1 = Put(k, t, r)
      BY <1>1 DEF Put
    <3> QED BY <3>2, <3>3
  <2> HIDE DEF r, k1
  <2>2. /\ k1 \in MSet /\ k1.ready_queue = k.ready_queue /\ SameObjects(k, k1)
        /\ OthersSame(k, k1, t) /\ k1.tcb[t] = r
    BY <1>1, <2>1, PutOK DEF SameSched, OthersSame
  <2> QED BY <2>2 DEF r
<1> HIDE DEF k1
<1>5. SameObjects(k, k2) /\ k2.ready_queue = rq2 /\ k2.tcb = k1.tcb
  <2> DEFINE map == (IF RemoveFirst(q, t) = << >> THEN k1.ready_primap \ {old}
                     ELSE k1.ready_primap) \cup {new}
             s   == IF k1.p_schedtsk = t THEN Head(rq2[primap_search(map)])
                    ELSE Head(rq2[new])
             moves == /\ k1.dspflg
                      /\ IF k1.p_schedtsk = t THEN new >= old
                         ELSE new <= k1.tcb[k1.p_schedtsk].priority
  <2>1. k2 = IF moves THEN [k1 EXCEPT !.ready_queue = rq2, !.ready_primap = map,
                                      !.p_schedtsk = s]
             ELSE [k1 EXCEPT !.ready_queue = rq2, !.ready_primap = map]
    BY <1>3, <1>4 DEF requeue, search_schedtsk, MSet
  <2> HIDE DEF rq2, map, s, moves, k2
  <2>2. k2.ready_queue = rq2 /\ SameObjects(k1, k2) /\ k2.tcb = k1.tcb
    BY <1>4, <2>1 DEF MSet, SameObjects
  <2> QED BY <1>4, <2>2 DEF SameObjects
<1> HIDE DEF k2
<1>6. \A p \in TPri : QueueOf(rq1[p], AtPri(k, R, p) \ {t})
  <2>1. QueueOf(RemoveFirst(q, t), AtPri(k, R, old) \ {t})
    <3> HIDE DEF q, old
    <3> QED BY <1>2, QueueRemove
  <2>2. \A p \in TPri : rq1[p] = IF p = old THEN RemoveFirst(q, t) ELSE k.ready_queue[p]
    BY <1>1, <1>2 DEF MSet
  <2>3. ASSUME NEW p \in TPri, p # old
        PROVE  QueueOf(k.ready_queue[p], AtPri(k, R, p) \ {t})
    <3>1. AtPri(k, R, p) \ {t} = AtPri(k, R, p)
      BY <2>3 DEF AtPri
    <3> QED BY <1>1, <3>1 DEF KInv, ReadyOK
  <2> HIDE DEF rq1
  <2> QED BY <2>1, <2>2, <2>3
<1>7. OrderKept(k.ready_queue, rq1, t)
  <2>1. \A u, v : u # t /\ v # t /\ Before(q, u, v) => Before(RemoveFirst(q, t), u, v)
    <3> HIDE DEF q
    <3> QED BY <1>2, RemoveOrder
  <2>2. \A p \in TPri : rq1[p] = IF p = old THEN RemoveFirst(q, t) ELSE k.ready_queue[p]
    BY <1>1, <1>2 DEF MSet
  <2> HIDE DEF rq1
  <2> QED BY <2>1, <2>2 DEF OrderKept
<1>8. \A p \in TPri : rq2[p] = IF p = new THEN Cons(t, rq1[new]) ELSE rq1[p]
  BY <1>1 DEF MSet
<1> HIDE DEF rq1, rq2
<1>9. /\ \A u, v : Before(rq1[new], u, v) => Before(Cons(t, rq1[new]), u, v)
      /\ \A u \in AtPri(k, R, new) \ {t} : Before(Cons(t, rq1[new]), t, u)
  <2> DEFINE S == AtPri(k, R, new) \ {t}
  <2>1. QueueOf(rq1[new], S) /\ t \notin S
    BY <1>6
  <2> HIDE DEF S
  <2>2. /\ \A u, v : Before(rq1[new], u, v) => Before(Cons(t, rq1[new]), u, v)
        /\ \A u \in S : Before(Cons(t, rq1[new]), t, u)
    BY <2>1, ConsOrder
  <2> QED BY <2>2 DEF S
<1>10. OrderKept(k.ready_queue, rq2, t)
  BY <1>7, <1>8, <1>9 DEF OrderKept
<1>11. ASSUME NEW u \in Task \ {t}, TSTAT_RUNNABLE(k.tcb[u].tstat), k.tcb[u].priority = new
       PROVE  Before(rq2[new], t, u)
  <2>1. u \in AtPri(k, R, new) \ {t}
    BY <1>1, <1>11 DEF AtPri
  <2> QED BY <1>8, <1>9, <2>1
<1>12. OthersSame(k, k2, t) /\ k2.tcb[t] = [k.tcb[t] EXCEPT !.priority = new]
  BY <1>4, <1>5 DEF OthersSame
<1> QED BY <1>5, <1>10, <1>11, <1>12 DEF k2

--------------------------------------------------------------------------
(* The layers. *)
HasMutex(k, t) == k.tcb[t].p_lastmtx # << >>
Runs(k, t)     == TSTAT_RUNNABLE(k.tcb[t].tstat)

(* t is before the other tasks of its priority.                            *)
Leads(k, t) ==
  \A u \in Task \ {t} : Runs(k, u) /\ k.tcb[u].priority = k.tcb[t].priority
    => Before(k.ready_queue[k.tcb[t].priority], t, u)

(* The priorities of t, from the current one to the base priority, are     *)
(* above those of u, or below.                                             *)
Apart(k, t, u) ==
  \/ k.tcb[t].bpriority < k.tcb[u].priority
  \/ k.tcb[u].bpriority < k.tcb[t].priority

Layered(k) ==
  /\ \A m \in Mutex : k.wait_queue[m] = << >>
                      /\ (k.p_loctsk[m] # NULL => m \in CEILING)
  /\ \A t \in Task : HasMutex(k, t) => Runs(k, t)
  /\ \A t, u \in Task :
       /\ HasMutex(k, t) /\ ~HasMutex(k, u) /\ Runs(k, u)
       /\ k.tcb[u].priority = k.tcb[t].priority
       => Before(k.ready_queue[k.tcb[t].priority], t, u)
  /\ \A t, u \in Task : HasMutex(k, t) /\ HasMutex(k, u) /\ t # u => Apart(k, t, u)

Above(k, t) ==
  \A u \in Task \ {t} : HasMutex(k, u) => k.tcb[t].bpriority < k.tcb[u].priority

(* The task that should run leads and is above all others that hold one,   *)
(* also when others of a higher priority cannot be dispatched.             *)
Topmost(k) ==
  k.p_schedtsk # NULL => Leads(k, k.p_schedtsk) /\ Above(k, k.p_schedtsk)

LEMMA Pris ==
  ASSUME NEW k, KOK(k), NEW t \in Task
  PROVE  /\ k.tcb[t].priority \in Int /\ k.tcb[t].bpriority \in Int
         /\ k.tcb[t].priority \in TPri
         /\ k.tcb[t].priority <= k.tcb[t].bpriority
         /\ ~HasMutex(k, t) => k.tcb[t].priority = k.tcb[t].bpriority
<1> DEFINE r == k.tcb[t]
<1>1. r.priority \in TPri /\ r.bpriority \in TPri /\ PriOK(r)
  BY TcbType DEF KOK, Tidy, QueuesOK, PrioritiesOK
<1>2. ~HasMutex(k, t) => Ceil(r) = {}
  BY DEF HasMutex, Ceil, ToSet
<1> HIDE DEF r
<1> QED BY <1>1, <1>2 DEF PriOK, r, TPri

(* The ready queues, by the tasks that can run.                            *)
LEMMA ReadyQueue ==
  ASSUME NEW k, KOK(k), NEW p \in TPri
  PROVE  QueueOf(k.ready_queue[p], {t \in Task : Runs(k, t) /\ k.tcb[t].priority = p})
<1>1. KInv(k, Queued(k, {}))
  BY DEF KOK, Tidy, QueuesOK
<1>2. AtPri(k, Queued(k, {}), p) = {t \in Task : Runs(k, t) /\ k.tcb[t].priority = p}
  BY DEF AtPri, Queued, Runs
<1> QED BY <1>1, <1>2 DEF KInv, ReadyOK

LEMMA BeforeOnce ==
  ASSUME NEW S, NEW q, QueueOf(q, S), NEW t, NEW u, Before(q, t, u)
  PROVE  ~Before(q, u, t)
<1>1. Len(q) \in Nat /\ \A i, j \in 1..Len(q) : q[i] = q[j] => i = j
  BY QueueIndex
<1> QED BY <1>1 DEF Before

(* While dispatching is enabled, it is the first of the highest priority.  *)
LEMMA FirstTopmost ==
  ASSUME NEW k, KOK(k), k.dspflg, Layered(k)
  PROVE  Topmost(k)
<1> DEFINE s == k.p_schedtsk
           R == Queued(k, {})
           p == k.tcb[s].priority
           S == {t \in Task : Runs(k, t) /\ k.tcb[t].priority = p}
<1>1. SUFFICES ASSUME s # NULL PROVE Leads(k, s) /\ Above(k, s)
  BY DEF Topmost
<1>2. KInv(k, R)
  BY DEF KOK, Tidy, QueuesOK
<1>3. \A t \in Task : Runs(k, t) <=> t \in R
  BY DEF Queued, Runs
<1>3a. R \subseteq Task
  BY DEF Queued
<1> HIDE DEF R
<1>4. IsFirst(k, R, s)
  BY <1>1, <1>2 DEF KInv, SchedOK
<1>5. /\ s \in Task /\ Runs(k, s) /\ s = Head(k.ready_queue[p])
      /\ \A t \in Task : Runs(k, t) => p <= k.tcb[t].priority
  BY <1>3, <1>3a, <1>4 DEF IsFirst
<1>6. QueueOf(k.ready_queue[p], S)
  BY <1>5, Pris, ReadyQueue
<1>7. \A u \in S : u # s => Before(k.ready_queue[p], s, u)
  <2> DEFINE q == k.ready_queue[p]
  <2> HIDE DEF S, s, q
  <2> QED BY <1>5, <1>6, HeadBefore DEF q
<1>8. Leads(k, s)
  BY <1>7 DEF Leads
<1>9. ASSUME NEW u \in Task \ {s}, HasMutex(k, u)
      PROVE  k.tcb[s].bpriority < k.tcb[u].priority
  <2>1. Runs(k, u) /\ p <= k.tcb[u].priority
    BY <1>5, <1>9 DEF Layered
  <2>2. CASE HasMutex(k, s)
    <3>1. Apart(k, s, u)
      BY <1>5, <1>9, <2>2 DEF Layered
    <3> DEFINE x == k.tcb[s].bpriority
               y == k.tcb[u].bpriority
               z == k.tcb[u].priority
    <3>2. x < z \/ y < p
      BY <3>1 DEF Apart
    <3>3. x \in Int /\ y \in Int /\ z \in Int /\ p \in Int /\ z <= y /\ p <= z
      BY <1>5, <1>9, <2>1, Pris
    <3> HIDE DEF x, y, z, p
    <3>4. x < z
      BY <3>2, <3>3
    <3> QED BY <3>4 DEF x, z
  <2>3. CASE ~HasMutex(k, s)
    <3>1. k.tcb[s].bpriority = p
      BY <1>5, <2>3, Pris
    <3>2. k.tcb[u].priority # p
      <4>1. SUFFICES ASSUME k.tcb[u].priority = p PROVE FALSE
        OBVIOUS
      <4>2. Before(k.ready_queue[p], u, s)
        BY <1>5, <1>9, <2>3, <4>1 DEF Layered
      <4>3. Before(k.ready_queue[p], s, u)
        BY <1>7, <1>9, <2>1, <4>1
      <4> HIDE DEF S
      <4> QED BY <1>6, <4>2, <4>3, BeforeOnce
    <3> DEFINE z == k.tcb[u].priority
    <3>3. z \in Int /\ p \in Int /\ p <= z /\ z # p
      BY <1>5, <1>9, <2>1, <3>2, Pris
    <3> HIDE DEF z, p
    <3>4. p < z
      BY <3>3
    <3> QED BY <3>1, <3>4 DEF z
  <2> QED BY <2>2, <2>3
<1>10. Above(k, s)
  BY <1>9 DEF Above
<1> QED BY <1>8, <1>10

--------------------------------------------------------------------------
(* A step that concerns one task and that leaves the wait queues empty.    *)
Quiet1(k, k2, t) ==
  /\ KOK(k) /\ Layered(k) /\ KOK(k2) /\ t \in Task
  /\ OthersSame(k, k2, t) /\ k2.wait_queue = k.wait_queue
  /\ \A m \in Mutex : k2.p_loctsk[m] # NULL => m \in CEILING
  /\ OrderKept(k.ready_queue, k2.ready_queue, t)

(* t is behind all others of its priority, or only behind those with a     *)
(* mutex.                                                                  *)
BehindAll(k, t) ==
  \A u \in Task \ {t} : Runs(k, u) /\ k.tcb[u].priority = k.tcb[t].priority
    => Before(k.ready_queue[k.tcb[t].priority], u, t)

BehindHolders(k, t) ==
  \A u \in Task \ {t} : HasMutex(k, u) /\ k.tcb[u].priority = k.tcb[t].priority
    => Before(k.ready_queue[k.tcb[t].priority], u, t)

LEMMA OneChanges ==
  ASSUME NEW k, NEW k2, NEW t, Quiet1(k, k2, t),
         HasMutex(k2, t) => Runs(k2, t) /\ Leads(k2, t) /\ Above(k2, t),
         ~HasMutex(k2, t) /\ Runs(k2, t) => BehindHolders(k2, t)
  PROVE  Layered(k2)
<1>0. /\ t \in Task /\ Layered(k)
      /\ \A u \in Task \ {t} : /\ k2.tcb[u] = k.tcb[u]
                               /\ HasMutex(k2, u) <=> HasMutex(k, u)
                               /\ Runs(k2, u) <=> Runs(k, u)
  BY DEF Quiet1, OthersSame, HasMutex, Runs
<1>1. \A m \in Mutex : k2.wait_queue[m] = << >>
                       /\ (k2.p_loctsk[m] # NULL => m \in CEILING)
  BY DEF Quiet1, Layered
<1>2. \A u \in Task : HasMutex(k2, u) => Runs(k2, u)
  BY <1>0 DEF Layered
<1>3. ASSUME NEW u \in Task, NEW v \in Task, HasMutex(k2, u), ~HasMutex(k2, v),
             Runs(k2, v), k2.tcb[v].priority = k2.tcb[u].priority
      PROVE  Before(k2.ready_queue[k2.tcb[u].priority], u, v)
  <2>1. CASE u = t
    BY <1>3, <2>1 DEF Leads
  <2>2. CASE v = t
    BY <1>3, <2>2 DEF BehindHolders
  <2>3. CASE u # t /\ v # t
    <3> DEFINE p == k.tcb[u].priority
    <3>1. p \in TPri /\ k2.tcb[u].priority = p
      BY <1>0, <2>3, Pris DEF Quiet1
    <3>2. Before(k.ready_queue[p], u, v)
      BY <1>0, <1>3, <2>3 DEF Layered
    <3> HIDE DEF p
    <3> QED BY <2>3, <3>1, <3>2 DEF Quiet1, OrderKept
  <2> QED BY <2>1, <2>2, <2>3
<1>4. ASSUME NEW u \in Task, NEW v \in Task, HasMutex(k2, u), HasMutex(k2, v), u # v
      PROVE  Apart(k2, u, v)
  <2>1. CASE u = t
    BY <1>4, <2>1 DEF Above, Apart
  <2>2. CASE v = t
    BY <1>4, <2>2 DEF Above, Apart
  <2>3. CASE u # t /\ v # t
    BY <1>0, <1>4, <2>3 DEF Layered, Apart
  <2> QED BY <2>1, <2>2, <2>3
<1> QED BY <1>1, <1>2, <1>3, <1>4 DEF Layered

(* The running task locks or unlocks a mutex and goes on leading.          *)
LEMMA LeaderActs ==
  ASSUME NEW k, NEW k2, NEW t, Quiet1(k, k2, t),
         Topmost(k), k.p_schedtsk = t, Follows(k, k2),
         k2.tcb[t].bpriority = k.tcb[t].bpriority,
         Runs(k2, t), Leads(k2, t)
  PROVE  Layered(k2) /\ Topmost(k2)
<1>1. t \in Task /\ KOK(k) /\ KOK(k2) /\ t # NULL
  BY NULLAssumption DEF Quiet1
<1>2. Above(k2, t)
  BY <1>1 DEF Topmost, Above, Quiet1, OthersSame, HasMutex
<1>3. ASSUME ~HasMutex(k2, t) PROVE BehindHolders(k2, t)
  <2> SUFFICES ASSUME NEW u \in Task \ {t}, HasMutex(k2, u),
                      k2.tcb[u].priority = k2.tcb[t].priority
               PROVE  FALSE
    BY DEF BehindHolders
  <2> DEFINE b == k2.tcb[t].bpriority
             p == k2.tcb[u].priority
  <2>1. b < p
    BY <1>2 DEF Above
  <2>2. k2.tcb[t].priority <= b /\ b \in Int /\ p \in Int
    BY <1>1, Pris
  <2>3. p <= b
    BY <2>2
  <2> HIDE DEF b, p
  <2> QED BY <2>1, <2>2, <2>3
<1>4. Layered(k2)
  BY <1>2, <1>3, OneChanges
<1>5. CASE k2.dspflg
  BY <1>1, <1>4, <1>5, FirstTopmost
<1>6. CASE ~k2.dspflg
  <2>1. k2.p_schedtsk = t
    BY <1>6 DEF Follows
  <2> QED BY <1>2, <1>4, <2>1 DEF Topmost
<1> QED BY <1>4, <1>5, <1>6

(* A task without mutexes arrives at the tail of its queue, or a task      *)
(* leaves its queue and has no mutexes then.                               *)
LEMMA OtherActs ==
  ASSUME NEW k, NEW k2, NEW t, Quiet1(k, k2, t),
         Topmost(k), Follows(k, k2), k2.dspflg \/ k.p_schedtsk # t,
         ~HasMutex(k2, t), Runs(k2, t) => BehindAll(k2, t)
  PROVE  Layered(k2) /\ Topmost(k2)
<1>1. /\ t \in Task /\ KOK(k) /\ KOK(k2)
      /\ \A u \in Task \ {t} : /\ k2.tcb[u] = k.tcb[u]
                               /\ HasMutex(k2, u) <=> HasMutex(k, u)
                               /\ Runs(k2, u) <=> Runs(k, u)
  BY DEF Quiet1, OthersSame, HasMutex, Runs
<1>2. Layered(k2)
  <2>1. \A u \in Task \ {t} : HasMutex(k2, u) => Runs(k2, u)
    BY <1>1 DEF Quiet1, Layered
  <2>2. Runs(k2, t) => BehindHolders(k2, t)
    BY <2>1 DEF BehindAll, BehindHolders
  <2> QED BY <2>2, OneChanges
<1>3. CASE k2.dspflg
  BY <1>1, <1>2, <1>3, FirstTopmost
<1>4. CASE ~k2.dspflg
  <2> DEFINE s == k.p_schedtsk
  <2>1. k2.p_schedtsk = s /\ s # t
    BY <1>4 DEF Follows
  <2>2. SUFFICES ASSUME s # NULL PROVE Leads(k2, s) /\ Above(k2, s)
    BY <1>2, <2>1 DEF Topmost
  <2>3. s \in Task /\ Leads(k, s) /\ Above(k, s)
    BY <1>1, <2>2 DEF Topmost, KOK, Tidy, QueuesOK, MSet
  <2>4. Above(k2, s)
    BY <1>1, <2>1, <2>3 DEF Above
  <2>5. ASSUME NEW u \in Task \ {s}, Runs(k2, u),
               k2.tcb[u].priority = k2.tcb[s].priority
        PROVE  Before(k2.ready_queue[k2.tcb[s].priority], s, u)
    <3> DEFINE p == k.tcb[s].priority
    <3>1. p \in TPri /\ k2.tcb[s].priority = p
      BY <1>1, <2>1, <2>3, Pris
    <3>2. CASE u = t
      <4>1. Runs(k2, s)
        <5>1. s \in Queued(k, {})
          <6>1. SchedOK(k, Queued(k, {})) /\ k.dspflg = k2.dspflg
            BY <1>1 DEF KOK, Tidy, QueuesOK, KInv, Follows
          <6> QED BY <1>4, <6>1 DEF SchedOK
        <5> QED BY <1>1, <2>1, <5>1 DEF Queued, Runs
      <4> QED BY <2>1, <2>3, <2>5, <3>2, <4>1 DEF BehindAll
    <3>3. CASE u # t
      <4>1. Runs(k, u) /\ k.tcb[u].priority = p
        BY <1>1, <2>1, <2>3, <2>5, <3>1, <3>3
      <4>2. Before(k.ready_queue[p], s, u)
        BY <2>3, <2>5, <4>1 DEF Leads
      <4> HIDE DEF p, s
      <4> QED BY <2>1, <2>3, <2>5, <3>1, <3>3, <4>2 DEF Quiet1, OrderKept
    <3> QED BY <3>2, <3>3
  <2> QED BY <2>4, <2>5 DEF Leads
<1> QED BY <1>2, <1>3, <1>4

--------------------------------------------------------------------------
(* The task that should run gets another priority because of a mutex, or   *)
(* keeps its own.                                                          *)
Relocked(k, k1, t) ==
  /\ Tidy(k1, {}) /\ SameSched(k, k1) /\ k1.wait_queue = k.wait_queue
  /\ OthersSame(k, k1, t)
  /\ k1.tcb[t].priority = k.tcb[t].priority
  /\ k1.tcb[t].bpriority = k.tcb[t].bpriority
  /\ k1.tcb[t].tstat = k.tcb[t].tstat /\ k1.tcb[t].wobj = k.tcb[t].wobj

(* The priority of t may have changed then, at the head of its queue.      *)
Requeued(k1, k2, t) ==
  k2 = k1 \/ \E new \in TPri : k2 = change_priority(k1, t, new, TRUE)

LEMMA Reprioritized ==
  ASSUME NEW k, KOK(k), NEW t \in Task, Runs(k, t), Leads(k, t),
         NEW k1, Relocked(k, k1, t),
         NEW k2, Requeued(k1, k2, t)
  PROVE  /\ Tidy(k2, {})
         /\ OrderKept(k.ready_queue, k2.ready_queue, t)
         /\ OthersSame(k, k2, t) /\ SameObjects(k1, k2)
         /\ k2.tcb[t].bpriority = k.tcb[t].bpriority
         /\ k2.tcb[t].p_lastmtx = k1.tcb[t].p_lastmtx
         /\ Runs(k2, t) /\ Leads(k2, t)
<1>1. /\ k1 \in MSet /\ k1.ready_queue = k.ready_queue
      /\ Runs(k1, t)
      /\ \A u \in Task \ {t} : k1.tcb[u] = k.tcb[u]
      /\ \A u \in Task : /\ k1.tcb[u].priority = k.tcb[u].priority
                         /\ Runs(k1, u) <=> Runs(k, u)
  BY DEF Relocked, SameSched, OthersSame, Runs, Tidy, QueuesOK
<1>2. CASE k2 = k1
  BY <1>1, <1>2 DEF Relocked, OrderKept, SameObjects, Leads
<1>3. CASE \E new \in TPri : k2 = change_priority(k1, t, new, TRUE)
  <2>1. PICK new \in TPri : k2 = change_priority(k1, t, new, TRUE)
    BY <1>3
  <2>2. KInv(k1, Queued(k1, {}))
    BY DEF Relocked, Tidy, QueuesOK
  <2>3. /\ SameObjects(k1, k2) /\ OthersSame(k1, k2, t)
        /\ k2.tcb[t] = [k1.tcb[t] EXCEPT !.priority = new]
        /\ OrderKept(k1.ready_queue, k2.ready_queue, t)
        /\ \A u \in Task \ {t} :
             TSTAT_RUNNABLE(k1.tcb[u].tstat) /\ k1.tcb[u].priority = new =>
               Before(k2.ready_queue[new], t, u)
    BY <1>1, <2>1, <2>2, PriorityOrder DEF Runs
  <2>4. /\ k2.tcb[t].priority = new
        /\ k2.tcb[t].bpriority = k1.tcb[t].bpriority
        /\ k2.tcb[t].p_lastmtx = k1.tcb[t].p_lastmtx
        /\ k2.tcb[t].tstat = k1.tcb[t].tstat
    <3>1. k1.tcb[t] \in TCB
      BY <1>1, TcbType
    <3> QED BY <2>3, <3>1 DEF TCB
  <2>5. Runs(k2, t) /\ Leads(k2, t)
    BY <1>1, <2>3, <2>4 DEF Leads, Runs, OthersSame
  <2>6. Tidy(k2, {})
    <3> DEFINE N == {}
    <3>1. Tidy(k1, N) /\ t \notin N
      BY DEF Relocked
    <3> HIDE DEF N
    <3>2. LET k4 == change_priority(k1, t, new, TRUE)
          IN  Tidy(k4, N) /\ PriorityChanged(k1, k4, t, new)
      BY <3>1, MutexPriority
    <3> QED BY <2>1, <3>2 DEF N
  <2> QED BY <1>1, <2>3, <2>4, <2>5, <2>6 DEF Relocked, OrderKept, OthersSame
<1> QED BY <1>2, <1>3 DEF Requeued

(* Where the running task stands before it locks or unlocks a mutex.       *)
LEMMA Leader ==
  ASSUME NEW k, KOK(k), Topmost(k), NEW t \in Task, k.p_schedtsk = t
  PROVE  Runs(k, t) /\ Leads(k, t)
<1>1. SchedOK(k, Queued(k, {}))
  BY DEF KOK, Tidy, QueuesOK, KInv
<1>2. t # NULL
  BY NULLAssumption
<1>3. t \in Queued(k, {})
  <2> DEFINE R == Queued(k, {})
  <2> HIDE DEF R
  <2>1. SchedOK(k, R)
    BY <1>1 DEF R
  <2> QED BY <1>2, <2>1 DEF SchedOK, IsFirst, R
<1> QED BY <1>2, <1>3 DEF Topmost, Queued, Runs

(* Changes that only lock or unlock.                                       *)
LEMMA RelockedPut ==
  ASSUME NEW k, NEW k0, NEW t \in Task, Relocked(k0, k, t), NEW r \in TCB,
         r.priority = k.tcb[t].priority, r.bpriority = k.tcb[t].bpriority,
         r.tstat = k.tcb[t].tstat, r.wobj = k.tcb[t].wobj
  PROVE  /\ Relocked(k0, Put(k, t, r), t)
         /\ Put(k, t, r).tcb[t] = r
         /\ Put(k, t, r).p_loctsk = k.p_loctsk
<1> DEFINE k2 == Put(k, t, r)
           N  == {}
<1>0. Tidy(k, N) /\ k \in MSet
  BY DEF Relocked, Tidy, QueuesOK
<1>1. /\ SameSched(k, k2) /\ SameObjects(k, k2)
      /\ k2.tcb[t] = r /\ \A u \in Task \ {t} : k2.tcb[u] = k.tcb[u]
  BY <1>0, PutOK
<1>1a. Tidy(k2, N)
  <2>1. WobjOK(r) /\ \A m \in Mutex : Waits(r, m) <=> Waits(k.tcb[t], m)
    BY <1>0 DEF Waits, WobjOK, Tidy, QueuesOK
  <2>2. t \in k.tmevtb => TSTAT_WAITING(r.tstat)
    BY <1>0 DEF Tidy, QueuesOK
  <2> HIDE DEF N
  <2> QED BY <1>0, <2>1, <2>2, PutQuiet
<1> HIDE DEF k2
<1>2. Relocked(k0, k2, t)
  BY <1>1, <1>1a DEF Relocked, SameSched, SameObjects, OthersSame
<1> QED BY <1>1, <1>2 DEF k2, SameObjects

LEMMA RelockedOwner ==
  ASSUME NEW k, NEW k0, NEW t \in Task, Relocked(k0, k, t), NEW m \in Mutex,
         NEW o \in Task \cup {NULL}
  PROVE  /\ Relocked(k0, PutOwner(k, m, o), t)
         /\ PutOwner(k, m, o).tcb = k.tcb
         /\ PutOwner(k, m, o).p_loctsk[m] = o
         /\ \A n \in Mutex \ {m} : PutOwner(k, m, o).p_loctsk[n] = k.p_loctsk[n]
<1> DEFINE k2 == PutOwner(k, m, o)
           N  == {}
<1>1. Tidy(k, N) /\ k \in MSet
  BY DEF Relocked, Tidy, QueuesOK
<1>2. /\ Tidy(k2, N) /\ k2.tcb = k.tcb /\ k2.wait_queue = k.wait_queue
      /\ k2.p_loctsk[m] = o
      /\ \A n \in Mutex \ {m} : k2.p_loctsk[n] = k.p_loctsk[n]
  <2> HIDE DEF N
  <2> QED BY <1>1, PutOwnerOK
<1>3. SameSched(k, k2)
  BY <1>1 DEF PutOwner, MSet, SameSched
<1> HIDE DEF k2
<1>4. Relocked(k0, k2, t)
  BY <1>2, <1>3 DEF Relocked, SameSched, OthersSame
<1> QED BY <1>2, <1>4 DEF k2

LEMMA RelockedSelf ==
  ASSUME NEW k, Tidy(k, {}), NEW t \in Task
  PROVE  Relocked(k, k, t)
BY DEF Relocked, SameSched, OthersSame

(* What is left to show of a leader that has locked or unlocked.           *)
LEMMA Relocks ==
  ASSUME NEW k, KOK(k), Layered(k), Topmost(k), NEW t \in Task, k.p_schedtsk = t,
         NEW k1, Relocked(k, k1, t),
         NEW k2, Requeued(k1, k2, t),
         NEW k3, k3.tcb = k2.tcb, k3.ready_queue = k2.ready_queue,
         k3.wait_queue = k2.wait_queue,
         KOK(k3), Follows(k, k3),
         \A m \in Mutex : k3.p_loctsk[m] # NULL => m \in CEILING
  PROVE  Layered(k3) /\ Topmost(k3)
<1>1. Runs(k, t) /\ Leads(k, t)
  BY Leader
<1>2. /\ OrderKept(k.ready_queue, k2.ready_queue, t)
      /\ OthersSame(k, k2, t) /\ SameObjects(k1, k2)
      /\ k2.tcb[t].bpriority = k.tcb[t].bpriority
      /\ Runs(k2, t) /\ Leads(k2, t)
  BY <1>1, Reprioritized
<1>3. Quiet1(k, k3, t)
  BY <1>2 DEF Quiet1, Relocked, SameObjects, OthersSame
<1>4. Runs(k3, t) /\ Leads(k3, t)
  BY <1>2 DEF Runs, Leads
<1> QED BY <1>2, <1>3, <1>4, LeaderActs

(* ploc_mtx().                                                             *)
LEMMA Locks ==
  ASSUME NEW k, KOK(k), Layered(k), Topmost(k), NEW t \in Task, k.p_schedtsk = t,
         NEW m \in CEILING, k.p_loctsk[m] = NULL,
         ceilpri[m] <= k.tcb[t].bpriority
  PROVE  LET k2 == mutex_acquire(k, t, m)
         IN  Layered(k2) /\ Topmost(k2)
<1> DEFINE r  == k.tcb[t]
           l  == Cons(m, r.p_lastmtx)
           r1 == [r EXCEPT !.p_lastmtx = l]
           r2 == [r1 EXCEPT !.boosted = TRUE]
           k0 == Put(k, t, r1)
           k1 == PutOwner(k0, m, t)
           kb == Put(k1, t, r2)
           k2 == mutex_acquire(k, t, m)
           c  == ceilpri[m]
<1>1. m \in Mutex /\ c \in TPri
  BY MutexAssumption, WaitQueueAssumption DEF Mutex
<1>2. k \in MSet /\ Runs(k, t) /\ r \in TCB
  BY Leader, TcbType DEF KOK, Tidy, QueuesOK
<1>3. KOK(k2) /\ Follows(k, k2)
      /\ k2.p_loctsk[m] = t
      /\ \A n \in Mutex \ {m} : k2.p_loctsk[n] = k.p_loctsk[n]
  BY <1>1, <1>2, Acquired DEF Runs
<1>4. l \in Seq(Mutex)
  <2> DEFINE q == r.p_lastmtx
  <2>1. q \in Seq(Mutex)
    BY <1>2, TcbType
  <2> HIDE DEF q
  <2>2. Cons(m, q) \in Seq(Mutex)
    BY <1>1, <2>1 DEF Cons
  <2> QED BY <2>2 DEF q
<1> HIDE DEF l
<1>5. /\ r1 \in TCB /\ r2 \in TCB
      /\ r1.priority = r.priority /\ r1.bpriority = r.bpriority
      /\ r1.tstat = r.tstat /\ r1.wobj = r.wobj
      /\ r2.priority = r.priority /\ r2.bpriority = r.bpriority
      /\ r2.tstat = r.tstat /\ r2.wobj = r.wobj
  <2> HIDE DEF r
  <2> QED BY <1>2, <1>4 DEF TCB
<1>6. push_mutex(k, t, m) = k1
  BY <1>2 DEF push_mutex, PutOwner, Put, MSet, l
<1>7. [k1 EXCEPT !.tcb[t].boosted = TRUE] = kb /\ k1.tcb[t] = r1 /\ Relocked(k, kb, t)
  <2> HIDE DEF r1, r2
  <2>1. Relocked(k, k0, t) /\ k0.tcb[t] = r1
    BY <1>2, <1>5, RelockedSelf, RelockedPut DEF KOK
  <2> HIDE DEF k0
  <2>2. Relocked(k, k1, t) /\ k1.tcb = k0.tcb
    BY <1>1, <2>1, RelockedOwner
  <2> HIDE DEF k1
  <2>3. Relocked(k, kb, t)
    BY <1>5, <2>1, <2>2, RelockedPut
  <2>4. [k1 EXCEPT !.tcb[t].boosted = TRUE]
          = Put(k1, t, [k1.tcb[t] EXCEPT !.boosted = TRUE])
    BY DEF Put
  <2> QED BY <2>1, <2>2, <2>3, <2>4 DEF r2
<1>8. k2 = IF c < r.priority THEN change_priority(kb, t, c, TRUE) ELSE kb
  <2>1. k1.tcb[t].priority = r.priority
    BY <1>5, <1>7
  <2> HIDE DEF k1, kb, r
  <2> QED BY <1>6, <1>7, <2>1 DEF mutex_acquire, mutex_raise_priority
<1> HIDE DEF kb, k2, r
<1>9. Requeued(kb, k2, t)
  BY <1>1, <1>8 DEF Requeued
<1>10. \A n \in Mutex : k2.p_loctsk[n] # NULL => n \in CEILING
  BY <1>3 DEF Layered
<1> QED BY <1>3, <1>7, <1>9, <1>10, Relocks DEF k2

(* unl_mtx().                                                              *)
LEMMA Unlocks ==
  ASSUME NEW k, KOK(k), Layered(k), Topmost(k), NEW t \in Task, k.p_schedtsk = t,
         k.tcb[t].p_lastmtx # << >>,
         NEW m \in CEILING, m = Head(k.tcb[t].p_lastmtx)
  PROVE  LET k1 == [k EXCEPT !.tcb[t].p_lastmtx = Tail(@)]
             k2 == mutex_release(mutex_drop_priority(k1, t, ceilpri[m]), m)
         IN  Layered(k2) /\ Topmost(k2)
<1> DEFINE r  == k.tcb[t]
           l  == Tail(r.p_lastmtx)
           r1 == [r EXCEPT !.p_lastmtx = l]
           k1 == [k EXCEPT !.tcb[t].p_lastmtx = Tail(@)]
           b  == (Ceilings(k1, t) # {})
           r2 == [r1 EXCEPT !.boosted = b]
           kb == Put(k1, t, r2)
           p  == mutex_calc_priority(k1, t)
           k2 == mutex_drop_priority(k1, t, ceilpri[m])
           k3 == mutex_release(k2, m)
<1>1. m \in Mutex
  BY MutexAssumption, WaitQueueAssumption DEF Mutex
<1>2. k \in MSet /\ Tidy(k, {}) /\ r \in TCB
  BY TcbType DEF KOK, Tidy, QueuesOK
<1>3. KOK(k3) /\ Follows(k, k3)
  <2>1. \A j : j = mutex_release(IF m \in CEILING THEN k2 ELSE k1, m) => Result(k, j)
    BY Unlocked
  <2> HIDE DEF k1, k2, k3
  <2> QED BY <2>1 DEF Result, k3
<1>4. l \in Seq(Mutex)
  <2> DEFINE q == r.p_lastmtx
  <2>1. q \in Seq(Mutex) /\ q # << >>
    BY <1>2, TcbType
  <2> HIDE DEF q
  <2>2. Tail(q) \in Seq(Mutex)
    BY <2>1
  <2> QED BY <2>2 DEF q
<1>5. k1 = Put(k, t, r1)
  <2>1. k1 = [k EXCEPT !.tcb[t].p_lastmtx = l]
    BY <1>2 DEF MSet
  <2> HIDE DEF k1, l
  <2> QED BY <1>2, <2>1, PutFields
<1> HIDE DEF k1, l, b
<1>6. /\ r1 \in TCB /\ r2 \in TCB
      /\ r1.priority = r.priority /\ r1.bpriority = r.bpriority
      /\ r1.tstat = r.tstat /\ r1.wobj = r.wobj
      /\ r2.priority = r.priority /\ r2.bpriority = r.bpriority
      /\ r2.tstat = r.tstat /\ r2.wobj = r.wobj
  <2>1. b \in BOOLEAN
    BY DEF b
  <2> HIDE DEF r
  <2> QED BY <1>2, <1>4, <2>1 DEF TCB
<1> HIDE DEF r1
<1>7. /\ Relocked(k, k1, t) /\ k1.tcb[t] = r1
      /\ k1.p_loctsk = k.p_loctsk
  BY <1>2, <1>5, <1>6, RelockedSelf, RelockedPut
<1> HIDE DEF r2, r
<1>8. /\ Relocked(k, kb, t) /\ kb.p_loctsk = k.p_loctsk
  BY <1>6, <1>7, RelockedPut
<1>9. \E kr \in {k1, kb} : Requeued(kr, k2, t)
  <2>1. [k1 EXCEPT !.tcb[t].boosted = b] = kb
    BY <1>7 DEF Put, r2
  <2>2. p \in TPri
    <3>1. k1 \in MSet
      BY <1>7 DEF Relocked, Tidy, QueuesOK
    <3> QED BY <3>1, CalcPriority
  <2> HIDE DEF kb, p
  <2>3. k2 = k1 \/ k2 = kb \/ k2 = change_priority(kb, t, p, TRUE)
    BY <2>1 DEF mutex_drop_priority, b, p
  <2> QED BY <2>2, <2>3 DEF Requeued
<1>10. PICK kr \in {k1, kb} : Requeued(kr, k2, t)
  BY <1>9
<1> HIDE DEF kb, k2
<1>11. Relocked(k, kr, t) /\ kr.p_loctsk = k.p_loctsk
  BY <1>7, <1>8, <1>10
<1>12. k2 \in MSet /\ SameObjects(kr, k2)
  <2>1. Runs(k, t) /\ Leads(k, t)
    BY Leader
  <2> QED BY <1>10, <1>11, <2>1, Reprioritized DEF Tidy, QueuesOK
<1>13. k2.wait_queue = k.wait_queue /\ k2.p_loctsk = k.p_loctsk
  BY <1>11, <1>12 DEF Relocked, SameObjects
<1>14. k3 = PutOwner(k2, m, NULL)
  <2>1. k2.wait_queue[m] = << >>
    BY <1>1, <1>13 DEF Layered
  <2> QED BY <2>1 DEF mutex_release, PutOwner
<1> HIDE DEF k3
<1>15. /\ k3.tcb = k2.tcb /\ k3.ready_queue = k2.ready_queue
       /\ k3.wait_queue = k2.wait_queue
       /\ \A n \in Mutex : k3.p_loctsk[n] = IF n = m THEN NULL ELSE k2.p_loctsk[n]
  BY <1>12, <1>14 DEF PutOwner, MSet
<1>16. \A n \in Mutex : k3.p_loctsk[n] # NULL => n \in CEILING
  BY <1>13, <1>15 DEF Layered
<1>17. Layered(k3) /\ Topmost(k3)
  BY <1>3, <1>10, <1>11, <1>13, <1>15, <1>16, Relocks
<1> QED BY <1>17 DEF k3, k2, k1

--------------------------------------------------------------------------
(* A release of mutexes that nobody waits for concerns their owner alone.  *)
Released0(k, k2) ==
  /\ SameSched(k, k2) /\ k2.wait_queue = k.wait_queue
  /\ \A m \in Mutex : k2.p_loctsk[m] \in {k.p_loctsk[m], NULL}

LEMMA ReleasesQuietly ==
  ASSUME NEW k, NEW t \in Task, Tidy(k, {t}), OwnersOK(k, {}, {t}),
         PrioritiesOK(k, {t}), t \notin k.tmevtb,
         \A m \in Mutex : k.wait_queue[m] = << >>
  PROVE  LET k2 == mutex_release_all(k, t)
         IN  Released0(k, k2) /\ OthersSame(k, k2, t)
<1> DEFINE q == k.tcb[t].p_lastmtx
           n == Len(q)
           Q(k2) == Released0(k, k2) /\ OthersSame(k, k2, t)
<1>1. q \in Seq(Mutex) /\ n \in Nat /\ k \in MSet
  <2>1. q \in Seq(Mutex) /\ k \in MSet
    BY TcbType DEF Tidy, QueuesOK
  <2> HIDE DEF q
  <2> QED BY <2>1
<1>2. PICK g : Releases(k, t, g, n) /\ mutex_release_all(k, t) = g[n]
  <2> DEFINE f == CHOOSE g : Releases(k, t, g, n)
  <2>1. \E g : Releases(k, t, g, n)
    <3> HIDE DEF n
    <3> QED BY <1>1, ReleasesExists
  <2>2. mutex_release_all(k, t) = f[n]
    BY DEF mutex_release_all, Releases, TakeFirst
  <2>3. Releases(k, t, f, n)
    <3> HIDE DEF n
    <3> QED BY <2>1
  <2> QED BY <2>2, <2>3
<1>3. /\ g[0] = k
      /\ \A i \in 1..n : g[i] = mutex_release(TakeFirst(g[i - 1], t), q[i])
  <2> HIDE DEF q
  <2>1. g = [i \in 0..n |-> IF i = 0 THEN k
                            ELSE mutex_release(TakeFirst(g[i - 1], t), q[i])]
    BY <1>2 DEF Releases, q
  <2> HIDE DEF n
  <2> QED BY <1>1, <2>1
<1>4. ReleasedTo(k, t, g[0], 0) /\ Q(g[0])
  <2>1. Len(q) = Len(q) - 0 /\ \A j \in 1..Len(q) - 0 : q[j] = q[0 + j]
    <3> HIDE DEF q
    <3> QED BY <1>1
  <2> QED BY <1>3, <2>1 DEF ReleasedTo, Follows, Released0, SameSched, OthersSame
<1>5. \A j \in 1..n : q[j] \in Mutex
  <2> HIDE DEF q
  <2> QED BY <1>1
<1> HIDE DEF n, q, Q
<1>6. \A i \in 0..n : ReleasedTo(k, t, g[i], i) /\ Q(g[i])
  <2> DEFINE S == {i \in 0..n : ~(ReleasedTo(k, t, g[i], i) /\ Q(g[i]))}
  <2>1. SUFFICES ASSUME S # {} PROVE FALSE
    OBVIOUS
  <2>2. PICK i \in S : \A j \in S : i <= j
    <3>1. S \subseteq Nat
      BY <1>1
    <3> HIDE DEF S
    <3> QED BY <2>1, <3>1, LeastNat
  <2>3. i \in 0..n /\ i # 0
    BY <1>4, <2>2
  <2> DEFINE j == i - 1
  <2>4. j \in Nat /\ j \in 0..n /\ j < n /\ i = j + 1 /\ i \in 1..n /\ ~(i <= j)
    BY <1>1, <2>3
  <2>5. ReleasedTo(k, t, g[j], j)
    BY <2>2, <2>4
  <2>5a. Q(g[j])
    BY <2>2, <2>4
  <2>6. g[i] = mutex_release(TakeFirst(g[j], t), q[j + 1])
    BY <1>3, <2>4
  <2> HIDE DEF j
  <2>7. ReleasedTo(k, t, g[i], i)
    BY <2>4, <2>5, <2>6, ReleaseStep DEF q, n
  <2> DEFINE m  == q[j + 1]
             k1 == g[j]
             l  == Tail(k1.tcb[t].p_lastmtx)
             r1 == [k1.tcb[t] EXCEPT !.p_lastmtx = l]
             ka == TakeFirst(k1, t)
             k2 == g[i]
  <2>8. m \in Mutex /\ k1 \in MSet
    BY <1>5, <2>4, <2>5 DEF ReleasedTo, Tidy, QueuesOK
  <2>9. ka = Put(k1, t, r1)
    <3>1. ka = [k1 EXCEPT !.tcb[t].p_lastmtx = l]
      BY <2>8 DEF TakeFirst, MSet
    <3> HIDE DEF ka, l
    <3>2. [k1 EXCEPT !.tcb[t].p_lastmtx = l] = Put(k1, t, r1)
      BY DEF Put
    <3> QED BY <3>1, <3>2
  <2> HIDE DEF m, k1, l, r1, ka, k2
  <2>10. /\ ka.wait_queue = k1.wait_queue /\ ka.p_loctsk = k1.p_loctsk
         /\ SameSched(k1, ka) /\ OthersSame(k1, ka, t)
         /\ DOMAIN ka = DOMAIN k1
    BY <2>8, <2>9 DEF Put, MSet, SameSched, OthersSame
  <2>11. k2 = PutOwner(ka, m, NULL)
    <3>1. ka.wait_queue[m] = << >>
      BY <2>5a, <2>8, <2>10 DEF Q, Released0, k1
    <3> QED BY <2>6, <3>1 DEF mutex_release, PutOwner, k2, m, k1, ka
  <2>12. /\ SameSched(ka, k2) /\ k2.wait_queue = ka.wait_queue /\ k2.tcb = ka.tcb
         /\ \A o \in Mutex : k2.p_loctsk[o] = IF o = m THEN NULL ELSE ka.p_loctsk[o]
    <3>1. k2 = [Put(k1, t, r1) EXCEPT !.p_loctsk = [ka.p_loctsk EXCEPT ![m] = NULL]]
      BY <2>9, <2>11 DEF PutOwner
    <3>2. ka.p_loctsk \in [Mutex -> Task \cup {NULL}]
      BY <2>8, <2>10 DEF MSet
    <3> DEFINE w == [ka.p_loctsk EXCEPT ![m] = NULL]
    <3>3. \A o \in Mutex : w[o] = IF o = m THEN NULL ELSE ka.p_loctsk[o]
      BY <3>2
    <3> HIDE DEF w
    <3>4. k2 = [Put(k1, t, r1) EXCEPT !.p_loctsk = w]
      BY <3>1 DEF w
    <3>5. SameSched(ka, k2) /\ k2.wait_queue = ka.wait_queue /\ k2.tcb = ka.tcb
          /\ k2.p_loctsk = w
      BY <2>8, <2>9, <3>4 DEF Put, MSet, SameSched
    <3> QED BY <3>3, <3>5
  <2>13. Q(k2)
    <3>1. Released0(k, k1) /\ OthersSame(k, k1, t)
      BY <2>5a DEF Q, k1
    <3> QED BY <2>10, <2>12, <3>1 DEF Q, Released0, SameSched, OthersSame
  <2> QED BY <2>2, <2>7, <2>13 DEF k2
<1>7. Q(g[n])
  BY <1>1, <1>6
<1> QED BY <1>2, <1>7 DEF n, q, Q

--------------------------------------------------------------------------
(* Nobody waits for a mutex.                                               *)
LEMMA NobodyWaits ==
  ASSUME NEW k, KOK(k), Layered(k), NEW t \in Task
  PROVE  /\ ~TSTAT_WAIT_WOBJ(k.tcb[t].tstat)
         /\ wait_dequeue_wobj(k, t) = k
<1> DEFINE w == k.tcb[t].wobj
           N == {}
<1>1. ~TSTAT_WAIT_WOBJ(k.tcb[t].tstat)
  <2> SUFFICES ASSUME TSTAT_WAIT_WOBJ(k.tcb[t].tstat) PROVE FALSE
    OBVIOUS
  <2>1. WobjOK(k.tcb[t])
    BY DEF KOK, Tidy, QueuesOK
  <2>2. w \in Mutex /\ Waits(k.tcb[t], w)
    BY <2>1 DEF WobjOK, Waits
  <2> HIDE DEF w
  <2>3. t \in Waiters(k, N, w)
    BY <2>2 DEF Waiters
  <2>4. QueueOf(k.wait_queue[w], Waiters(k, N, w)) /\ k.wait_queue[w] = << >>
    BY <2>2 DEF KOK, Tidy, QueuesOK, WaitQueueOK, Layered
  <2> HIDE DEF N
  <2> QED BY <2>3, <2>4, QueueHead
<1> QED BY <1>1 DEF wait_dequeue_wobj

(* A task that could not run enters the ready queue of its priority.       *)
LEMMA Arrives ==
  ASSUME NEW k, Tidy(k, {}), NEW t \in Task, ~Runs(k, t)
  PROVE  LET k2 == make_runnable(set_tstat(k, t, TS_RUNNABLE), t)
         IN  /\ OthersSame(k, k2, t) /\ SameObjects(k, k2)
             /\ k2.tcb[t].p_lastmtx = k.tcb[t].p_lastmtx
             /\ OrderKept(k.ready_queue, k2.ready_queue, t)
             /\ BehindAll(k2, t)
<1> DEFINE r  == [k.tcb[t] EXCEPT !.tstat = TS_RUNNABLE]
           k1 == set_tstat(k, t, TS_RUNNABLE)
           k2 == make_runnable(k1, t)
           R  == Queued(k, {})
<1>1. k \in MSet /\ KInv(k, R) /\ t \notin R
      /\ \A u \in Task : u \in R <=> Runs(k, u)
  BY DEF Tidy, QueuesOK, Queued, Runs
<1> HIDE DEF R
<1>2. /\ k1 = Put(k, t, r) /\ r \in TCB
      /\ r.priority = k.tcb[t].priority /\ r.p_lastmtx = k.tcb[t].p_lastmtx
  BY <1>1, SetTstat, Flags
<1> HIDE DEF r, k1
<1>3. /\ k1 \in MSet /\ SameSched(k, k1) /\ SameObjects(k, k1)
      /\ k1.tcb[t] = r /\ OthersSame(k, k1, t)
  BY <1>1, <1>2, PutOK DEF OthersSame
<1>4. KInv(k1, R)
  <2>1. \A u \in R : k1.tcb[u].priority = k.tcb[u].priority
    <3>1. R \subseteq Task
      BY <1>1 DEF KInv, ReadyOK
    <3> QED BY <1>2, <1>3, <3>1 DEF OthersSame
  <2> QED BY <1>1, <1>3, <2>1, SameReady
<1>5. /\ k2.tcb = k1.tcb /\ SameObjects(k1, k2)
      /\ OrderKept(k1.ready_queue, k2.ready_queue, t)
      /\ \A u \in R : k1.tcb[u].priority = k1.tcb[t].priority =>
           Before(k2.ready_queue[k1.tcb[t].priority], u, t)
  BY <1>1, <1>3, <1>4, RunnableOrder
<1> HIDE DEF k2
<1>6. BehindAll(k2, t)
  <2> SUFFICES ASSUME NEW u \in Task \ {t}, Runs(k2, u),
                      k2.tcb[u].priority = k2.tcb[t].priority
               PROVE  Before(k2.ready_queue[k2.tcb[t].priority], u, t)
    BY DEF BehindAll
  <2>1. u \in R
    BY <1>1, <1>3, <1>5 DEF OthersSame, Runs
  <2> QED BY <1>5, <2>1
<1>7. /\ OthersSame(k, k2, t) /\ SameObjects(k, k2)
      /\ k2.tcb[t].p_lastmtx = k.tcb[t].p_lastmtx
      /\ OrderKept(k.ready_queue, k2.ready_queue, t)
  BY <1>2, <1>3, <1>5 DEF OthersSame, SameObjects, SameSched
<1> QED BY <1>6, <1>7 DEF k2, k1

(* The mutexes that have an owner have a ceiling.                          *)
LEMMA OwnedCeilings ==
  ASSUME NEW k, Layered(k), NEW k2,
         \A m \in Mutex : k2.p_loctsk[m] \in {k.p_loctsk[m], NULL}
  PROVE  \A m \in Mutex : k2.p_loctsk[m] # NULL => m \in CEILING
BY DEF Layered

(* act_tsk(). *)
LEMMA Activates ==
  ASSUME NEW k, KOK(k), Layered(k), Topmost(k), NEW t \in Task,
         TSTAT_DORMANT(k.tcb[t].tstat)
  PROVE  LET k2 == make_active(k, t)
         IN  Layered(k2) /\ Topmost(k2)
<1> DEFINE k2 == make_active(k, t)
<1>1. /\ ~TSTAT_RUNNABLE(k.tcb[t].tstat) /\ ~TSTAT_WAITING(k.tcb[t].tstat)
      /\ Tidy(k, {})
  <2>1. k.tcb[t].tstat \in TStat /\ Tidy(k, {})
    BY TcbType DEF KOK, Tidy, QueuesOK
  <2> QED BY <2>1, Flags
<1>2. KOK(k2) /\ Follows(k, k2)
  BY <1>1, Activated DEF Result
<1>3. /\ OthersSame(k, k2, t) /\ SameObjects(k, k2)
      /\ k2.tcb[t].p_lastmtx = k.tcb[t].p_lastmtx
      /\ OrderKept(k.ready_queue, k2.ready_queue, t)
      /\ BehindAll(k2, t)
  BY <1>1, Arrives DEF Runs, make_active
<1> HIDE DEF k2
<1>4. ~HasMutex(k2, t)
  BY <1>1, <1>3 DEF HasMutex, Layered, Runs
<1>5. Quiet1(k, k2, t)
  BY <1>2, <1>3, OwnedCeilings DEF Quiet1, SameObjects
<1>6. k2.dspflg \/ k.p_schedtsk # t
  <2>1. SUFFICES ASSUME k.p_schedtsk = t PROVE FALSE
    OBVIOUS
  <2>2. Runs(k, t)
    BY <2>1, Leader
  <2> QED BY <1>1, <2>2 DEF Runs
<1>7. Layered(k2) /\ Topmost(k2)
  BY <1>2, <1>3, <1>4, <1>5, <1>6, OtherActs
<1> QED BY <1>7 DEF k2

(* wait_tmout(): the end of a delay.                                       *)
LEMMA Wakes ==
  ASSUME NEW k, KOK(k), Layered(k), Topmost(k), NEW t \in Task,
         TSTAT_WAITING(k.tcb[t].tstat)
  PROVE  LET k2 == make_non_wait(set_wercd(
                     wait_dequeue_wobj(wait_dequeue_tmevtb(k, t), t), t), t)
         IN  Layered(k2) /\ Topmost(k2)
<1> DEFINE ka == wait_dequeue_tmevtb(k, t)
           kb == wait_dequeue_wobj(ka, t)
           k2 == make_non_wait(set_wercd(kb, t), t)
           s  == k.tcb[t].tstat
           N  == {}
<1>1. s \in TStat /\ ~Runs(k, t) /\ Tidy(k, N)
  <2>1. s \in TStat /\ Tidy(k, N)
    BY TcbType DEF KOK, Tidy, QueuesOK
  <2> QED BY <2>1, Flags DEF Runs
<1>2. KOK(k2) /\ Follows(k, k2)
  BY TimedOut DEF Result
<1>3. /\ Tidy(ka, N) /\ Follows(k, ka)
      /\ ka.tcb = k.tcb /\ SameObjects(k, ka) /\ ka.tmevtb = k.tmevtb \ {t}
  <2> HIDE DEF N
  <2> QED BY <1>1, DequeueTmevtb
<1>4. ka.ready_queue = k.ready_queue
  <2>1. k \in MSet
    BY <1>1 DEF Tidy, QueuesOK
  <2> QED BY <2>1 DEF wait_dequeue_tmevtb, MSet
<1> HIDE DEF ka
<1>5. kb = ka
  <2>1. ~TSTAT_WAIT_WOBJ(ka.tcb[t].tstat)
    BY <1>3, NobodyWaits
  <2> QED BY <2>1 DEF wait_dequeue_wobj
<1> HIDE DEF kb
<1>6. set_wercd(kb, t) = ka
  <2> HIDE DEF N
  <2>1. t \notin ka.tmevtb
    BY <1>3
  <2> QED BY <1>3, <1>5, <2>1, CodeStored
<1>7. k2 = IF TSTAT_SUSPENDED(s) THEN set_tstat(ka, t, TS_SUSPENDED)
           ELSE make_runnable(set_tstat(ka, t, TS_RUNNABLE), t)
  <2> DEFINE k1 == [ka EXCEPT !.asserted = @ /\ TSTAT_WAITING(ka.tcb[t].tstat)]
  <2>1. ka \in MSet /\ ka.asserted = TRUE
    BY <1>3 DEF Tidy, QueuesOK
  <2>2. (ka.asserted /\ TSTAT_WAITING(ka.tcb[t].tstat)) = ka.asserted
    BY <1>3, <2>1
  <2>3. k1 = ka
    BY <2>1, <2>2 DEF MSet
  <2>4. make_non_wait(ka, t) = IF TSTAT_SUSPENDED(ka.tcb[t].tstat)
                               THEN set_tstat(k1, t, TS_SUSPENDED)
                               ELSE make_runnable(set_tstat(k1, t, TS_RUNNABLE), t)
    BY DEF make_non_wait
  <2> HIDE DEF k1
  <2> QED BY <1>3, <1>6, <2>3, <2>4
<1> HIDE DEF k2
<1>8. /\ OthersSame(k, k2, t) /\ SameObjects(k, k2)
      /\ k2.tcb[t].p_lastmtx = k.tcb[t].p_lastmtx
      /\ OrderKept(k.ready_queue, k2.ready_queue, t)
      /\ Runs(k2, t) => BehindAll(k2, t)
  <2>1. CASE TSTAT_SUSPENDED(s)
    <3> DEFINE r == [ka.tcb[t] EXCEPT !.tstat = TS_SUSPENDED]
    <3>1. ka \in MSet /\ k2 = set_tstat(ka, t, TS_SUSPENDED)
      BY <1>3, <1>7, <2>1 DEF Tidy, QueuesOK
    <3>2. /\ k2 = Put(ka, t, r) /\ r \in TCB
          /\ r.tstat = TS_SUSPENDED /\ r.p_lastmtx = ka.tcb[t].p_lastmtx
      BY <3>1, SetTstat, Flags
    <3> HIDE DEF r
    <3>3. /\ SameSched(ka, k2) /\ SameObjects(ka, k2)
          /\ k2.tcb[t] = r /\ OthersSame(ka, k2, t)
      BY <3>1, <3>2, PutOK DEF OthersSame
    <3>4. ~Runs(k2, t)
      BY <3>2, <3>3, Flags DEF Runs
    <3> QED BY <1>3, <1>4, <3>2, <3>3, <3>4
            DEF OthersSame, SameObjects, SameSched, OrderKept
  <2>2. CASE ~TSTAT_SUSPENDED(s)
    <3>1. k2 = make_runnable(set_tstat(ka, t, TS_RUNNABLE), t)
      BY <1>7, <2>2
    <3>2. ~Runs(ka, t)
      BY <1>1, <1>3 DEF Runs
    <3>3. /\ OthersSame(ka, k2, t) /\ SameObjects(ka, k2)
          /\ k2.tcb[t].p_lastmtx = ka.tcb[t].p_lastmtx
          /\ OrderKept(ka.ready_queue, k2.ready_queue, t)
          /\ BehindAll(k2, t)
      BY <1>3, <3>1, <3>2, Arrives
    <3> QED BY <1>3, <1>4, <3>3 DEF OthersSame, SameObjects
  <2> QED BY <2>1, <2>2
<1>9. ~HasMutex(k2, t)
  BY <1>1, <1>8 DEF HasMutex, Layered
<1>10. Quiet1(k, k2, t)
  BY <1>2, <1>8, OwnedCeilings DEF Quiet1, SameObjects
<1>11. k.p_schedtsk # t
  BY <1>1, Leader
<1>12. Layered(k2) /\ Topmost(k2)
  BY <1>2, <1>8, <1>9, <1>10, <1>11, OtherActs
<1> QED BY <1>12 DEF k2, kb, ka

(* dly_tsk(), by a task without mutexes.                                   *)
LEMMA Delays ==
  ASSUME NEW k, KOK(k), Layered(k), Topmost(k), NEW t \in Task, k.p_schedtsk = t,
         k.dspflg, ~HasMutex(k, t)
  PROVE  LET k2 == make_wait_tmout(k, t, TS_WAITING_DLY, TRUE)
         IN  Layered(k2) /\ Topmost(k2)
<1> DEFINE r  == [k.tcb[t] EXCEPT !.tstat = TS_WAITING_DLY]
           k1 == set_tstat(k, t, TS_WAITING_DLY)
           k2 == make_non_runnable(k1, t)
           k3 == make_wait_tmout(k, t, TS_WAITING_DLY, TRUE)
           N  == {}
           R  == Queued(k, N)
<1>1. Runs(k, t)
  BY Leader
<1>2. KOK(k3) /\ Follows(k, k3)
  BY <1>1, Delayed DEF Result, Runs
<1>3. k \in MSet /\ KInv(k, R) /\ t \in R
  BY <1>1 DEF KOK, Tidy, QueuesOK, Queued, Runs
<1> HIDE DEF R
<1>4. /\ k1 = Put(k, t, r) /\ r \in TCB
      /\ r.priority = k.tcb[t].priority /\ r.p_lastmtx = k.tcb[t].p_lastmtx
      /\ r.tstat = TS_WAITING_DLY
  BY <1>3, SetTstat, Flags
<1> HIDE DEF r, k1
<1>5. /\ k1 \in MSet /\ SameSched(k, k1) /\ SameObjects(k, k1)
      /\ k1.tcb[t] = r /\ OthersSame(k, k1, t)
  BY <1>3, <1>4, PutOK DEF OthersSame
<1>6. KInv(k1, R)
  <2>1. \A u \in R : k1.tcb[u].priority = k.tcb[u].priority
    <3>1. R \subseteq Task
      BY <1>3 DEF KInv, ReadyOK
    <3> QED BY <1>4, <1>5, <3>1 DEF OthersSame
  <2> QED BY <1>3, <1>5, <2>1, SameReady
<1>7. /\ k2.tcb = k1.tcb /\ SameObjects(k1, k2)
      /\ OrderKept(k1.ready_queue, k2.ready_queue, t)
  BY <1>3, <1>5, <1>6, NonRunnableOrder
<1>8. k2 \in MSet
  <2>1. TSTAT_RUNNABLE(k.tcb[t].tstat) /\ Tidy(k, {})
    BY <1>1 DEF KOK, Runs
  <2>2. Tidy(make_non_runnable(set_tstat(k, t, TS_WAITING_DLY), t), {t})
    BY <2>1, StopsRunning, Flags
  <2> HIDE DEF k2
  <2> QED BY <2>2 DEF Tidy, QueuesOK, k2, k1
<1>9. k3.tcb = k2.tcb /\ SameObjects(k2, k3) /\ k3.ready_queue = k2.ready_queue
  <2>1. k3 = [k2 EXCEPT !.tmevtb = @ \cup {t}]
    BY DEF make_wait_tmout, k1
  <2> HIDE DEF k2, k3
  <2> QED BY <1>8, <2>1 DEF MSet, SameObjects
<1> HIDE DEF k2, k3
<1>10. /\ OthersSame(k, k3, t) /\ SameObjects(k, k3)
       /\ k3.tcb[t] = r
       /\ OrderKept(k.ready_queue, k3.ready_queue, t)
  BY <1>5, <1>7, <1>9 DEF OthersSame, SameObjects, SameSched
<1>11. ~HasMutex(k3, t) /\ ~Runs(k3, t)
  BY <1>4, <1>10, Flags DEF HasMutex, Runs
<1>12. Quiet1(k, k3, t)
  BY <1>2, <1>10, OwnedCeilings DEF Quiet1, SameObjects
<1>13. k3.dspflg
  BY <1>2 DEF Follows
<1>14. Layered(k3) /\ Topmost(k3)
  BY <1>2, <1>11, <1>12, <1>13, OtherActs
<1> QED BY <1>14 DEF k3

(* ext_tsk() and ter_tsk().                                                *)
LEMMA Terminates ==
  ASSUME NEW k, KOK(k), Layered(k), Topmost(k), NEW t \in Task,
         ~TSTAT_DORMANT(k.tcb[t].tstat),
         k.dspflg \/ k.p_schedtsk # t
  PROVE  LET k2 == task_terminate(k, t)
         IN  Layered(k2) /\ Topmost(k2)
<1> DEFINE s  == k.tcb[t].tstat
           k1 == IF TSTAT_RUNNABLE(s) THEN make_non_runnable(k, t)
                 ELSE IF TSTAT_WAITING(s)
                      THEN wait_dequeue_tmevtb(wait_dequeue_wobj(k, t), t)
                 ELSE k
           k2 == mutex_release_all(k1, t)
           r  == DormantTCB(t)
           k3 == task_terminate(k, t)
           N  == {}
           T  == {t}
           R  == Queued(k, N)
<1>1. /\ k \in MSet /\ Tidy(k, N) /\ OwnersOK(k, N, N) /\ PrioritiesOK(k, N)
      /\ KInv(k, R) /\ (Runs(k, t) => t \in R)
  BY DEF KOK, Tidy, QueuesOK, Queued, Runs
<1>2. KOK(k3) /\ Follows(k, k3)
  BY Terminated DEF Result
<1>3. /\ Tidy(k1, T) /\ Follows(k, k1)
      /\ k1.tcb = k.tcb /\ k1.p_loctsk = k.p_loctsk
      /\ t \notin k1.tmevtb
  <2> HIDE DEF R
  <2> QED BY <1>1, SetAside
<1>4. k1.wait_queue = k.wait_queue /\ OrderKept(k.ready_queue, k1.ready_queue, t)
  <2>1. CASE Runs(k, t)
    <3>1. k1 = make_non_runnable(k, t)
      BY <2>1 DEF Runs
    <3> HIDE DEF k1, R
    <3> QED BY <1>1, <2>1, <3>1, NonRunnableOrder DEF SameObjects
  <2>2. CASE ~Runs(k, t)
    <3>1. k1 = k \/ k1 = wait_dequeue_tmevtb(k, t)
      BY <2>2, NobodyWaits DEF Runs
    <3> HIDE DEF k1
    <3>2. k1.wait_queue = k.wait_queue /\ k1.ready_queue = k.ready_queue
      BY <1>1, <3>1 DEF wait_dequeue_tmevtb, MSet
    <3> QED BY <3>2 DEF OrderKept
  <2> QED BY <2>1, <2>2
<1> HIDE DEF R
<1>5. k3 = [k2 EXCEPT !.tcb[t] = r]
  BY DEF task_terminate
<1> HIDE DEF k1, k2, k3
<1>6. OwnersOK(k1, N, T) /\ PrioritiesOK(k1, T)
  <2>1. \A u \in Task : Owned(k1, N, u) = Owned(k, N, u)
    BY <1>3 DEF Owned
  <2>2. T \ {t} = N /\ t \in T
    OBVIOUS
  <2> HIDE DEF N
  <2> QED BY <1>1, <1>3, <2>1, <2>2 DEF OwnersOK, PrioritiesOK
<1>7. Released0(k1, k2) /\ OthersSame(k1, k2, t)
  <2>1. \A m \in Mutex : k1.wait_queue[m] = << >>
    BY <1>4 DEF Layered
  <2> QED BY <1>3, <1>6, <2>1, ReleasesQuietly DEF k2
<1>8. k2 \in MSet
  BY <1>3, <1>6, AllReleased DEF k2, ReleasedTo, Tidy, QueuesOK
<1>9. /\ r \in TCB /\ r.p_lastmtx = << >> /\ ~TSTAT_RUNNABLE(r.tstat)
  BY DormantOK
<1> HIDE DEF r
<1>10. /\ SameSched(k2, k3) /\ SameObjects(k2, k3) /\ OthersSame(k2, k3, t)
       /\ k3.tcb[t] = r
  <2>1. k3 = Put(k2, t, r)
    BY <1>5 DEF Put
  <2> QED BY <1>8, <1>9, <2>1, PutOK DEF OthersSame
<1>11. /\ OthersSame(k, k3, t) /\ k3.wait_queue = k.wait_queue
       /\ OrderKept(k.ready_queue, k3.ready_queue, t)
       /\ \A m \in Mutex : k3.p_loctsk[m] \in {k.p_loctsk[m], NULL}
  BY <1>3, <1>4, <1>7, <1>10 DEF OthersSame, Released0, SameSched, SameObjects
<1>12. Quiet1(k, k3, t)
  BY <1>2, <1>11, OwnedCeilings DEF Quiet1
<1>13. ~HasMutex(k3, t) /\ ~Runs(k3, t)
  BY <1>9, <1>10 DEF HasMutex, Runs
<1>14. k3.dspflg \/ k.p_schedtsk # t
  BY <1>2 DEF Follows
<1>15. Layered(k3) /\ Topmost(k3)
  BY <1>2, <1>12, <1>13, <1>14, OtherActs
<1> QED BY <1>15 DEF k3

(* chg_pri(), while no mutex is locked and dispatching is enabled.  The    *)
(* wait queues stay empty because nobody waits.                            *)
LEMMA ChangesBase ==
  ASSUME NEW k, KOK(k), k.dspflg, \A u \in Task : ~HasMutex(k, u), Layered(k),
         NEW t \in Task,
         NEW k2, KOK(k2), k2.dspflg = k.dspflg,
         OthersSame(k, k2, t), k2.tcb[t].p_lastmtx = k.tcb[t].p_lastmtx,
         k2.tcb[t].tstat = k.tcb[t].tstat,
         k2.p_loctsk = k.p_loctsk
  PROVE  Layered(k2) /\ Topmost(k2)
<1>1. \A u \in Task : ~HasMutex(k2, u)
  BY DEF HasMutex, OthersSame
<1>2. \A u \in Task : ~TSTAT_WAIT_MTX(k2.tcb[u].tstat)
  <2>1. \A u \in Task : ~TSTAT_WAIT_WOBJ(k.tcb[u].tstat) /\ k.tcb[u].tstat \in TStat
    BY NobodyWaits, TcbType DEF KOK, Tidy, QueuesOK
  <2>2. \A u \in Task : ~TSTAT_WAIT_MTX(k.tcb[u].tstat)
    BY <2>1, Flags
  <2> QED BY <2>2 DEF OthersSame
<1>3. ASSUME NEW m \in Mutex PROVE k2.wait_queue[m] = << >>
  <2> DEFINE N == {}
             S == Waiters(k2, N, m)
             q == k2.wait_queue[m]
  <2>1. QueueOf(q, S)
    BY <1>3 DEF KOK, Tidy, QueuesOK, WaitQueueOK
  <2>2. S = {}
    BY <1>2 DEF Waiters, Waits
  <2> HIDE DEF S, q
  <2>3. q = << >>
    BY <2>1, <2>2, QueueHead
  <2> QED BY <2>3 DEF q
<1>4. Layered(k2)
  BY <1>1, <1>3 DEF Layered
<1> QED BY <1>4, FirstTopmost

(* A change of the flag alone, and what set_dspflg() does.                 *)
LEMMA SameLayers ==
  ASSUME NEW k, Layered(k), NEW k2, k2.tcb = k.tcb, SameObjects(k, k2),
         k2.ready_queue = k.ready_queue
  PROVE  Layered(k2) /\ (Topmost(k) /\ k2.p_schedtsk = k.p_schedtsk => Topmost(k2))
BY DEF Layered, Topmost, Leads, Above, Apart, HasMutex, Runs, SameObjects

--------------------------------------------------------------------------
(* Each disciplined action keeps the layers.                               *)
Layers(k) == Layered(k) /\ Topmost(k)

LEMMA LayersPloc ==
  ASSUME IInv, Layers(kernel), NEW m \in CEILING, ploc_mtx(m)
  PROVE  Layers(kernel')
<1> DEFINE t  == p_runtsk
           k  == mutex_acquire(kernel, t, m)
           k2 == [k EXCEPT !.asserted = @ /\ t = k.p_schedtsk]
<1>0. /\ TaskContext /\ m \in existing /\ existing' = existing
      /\ kernel.p_loctsk[m] = NULL
      /\ CeilingRespected(m) /\ Return(k2) /\ m \in Mutex
  BY KernelFields, MutexAssumption, WaitQueueAssumption
     DEF ploc_mtx, UsesMutex, Mutex
<1>1. /\ t \in Task /\ t = kernel.p_schedtsk /\ TSTAT_RUNNABLE(kernel.tcb[t].tstat)
      /\ KOK(kernel)
  BY <1>0, Running, KernelFields DEF IInv
<1>2. ceilpri[m] <= kernel.tcb[t].bpriority
  <2> DEFINE p == kernel.tcb[t].bpriority
  <2>1. p >= ceilpri[m]
    BY <1>0, KernelFields DEF CeilingRespected
  <2>2. p \in TPri /\ ceilpri[m] \in TPri
    BY <1>1, TcbType, MutexAssumption DEF KOK, Tidy, QueuesOK
  <2> HIDE DEF p
  <2>3. \A a, b \in TPri : a >= b => b <= a
    BY TNUM_TPRIAssumption DEF TPri
  <2> QED BY <2>1, <2>2, <2>3 DEF p
<1>3. KOK(k) /\ k.p_schedtsk = t
  <2> HIDE DEF t
  <2> QED BY <1>0, <1>1, <1>2, Acquired
<1>4. Layered(k) /\ Topmost(k)
  <2> HIDE DEF t
  <2> QED BY <1>0, <1>1, <1>2, Locks DEF Layers
<1> HIDE DEF k
<1>5. k2 = k
  <2>1. k \in MSet /\ k.asserted = TRUE
    BY <1>3 DEF KOK, Tidy, QueuesOK
  <2>2. (k.asserted /\ t = k.p_schedtsk) = TRUE
    BY <1>3, <2>1
  <2>3. k2 = [k EXCEPT !.asserted = (k.asserted /\ t = k.p_schedtsk)]
    BY <2>1 DEF MSet
  <2> HIDE DEF k2, t
  <2> QED BY <2>1, <2>2, <2>3 DEF MSet
<1> HIDE DEF k2
<1>6. kernel' = k
  BY <1>0, <1>3, <1>5, Committed DEF Return
<1> QED BY <1>4, <1>6 DEF Layers

LEMMA LayersUnl ==
  ASSUME IInv, Layers(kernel), NEW m \in CEILING, unl_mtx(m)
  PROVE  Layers(kernel')
<1> DEFINE t  == p_runtsk
           k1 == [kernel EXCEPT !.tcb[t].p_lastmtx = Tail(@)]
           k2 == IF m \in CEILING THEN mutex_drop_priority(k1, t, ceilpri[m]) ELSE k1
           k  == mutex_release(k2, m)
<1>0. /\ TaskContext /\ m \in Mutex
      /\ kernel.tcb[t].p_lastmtx # << >> /\ m = Head(kernel.tcb[t].p_lastmtx)
      /\ Dispatch(k)
  BY KernelFields, MutexAssumption, WaitQueueAssumption DEF unl_mtx, UsesMutex, Mutex
<1>1. t \in Task /\ KOK(kernel) /\ kernel.p_schedtsk = t
  BY <1>0, Running, KernelFields DEF IInv
<1>2. Result(kernel, k)
  <2> HIDE DEF t
  <2> QED BY <1>0, <1>1, Unlocked
<1>3. k = mutex_release(mutex_drop_priority(k1, t, ceilpri[m]), m)
  OBVIOUS
<1>4. Layers(k)
  <2>1. /\ Layered(mutex_release(mutex_drop_priority(k1, t, ceilpri[m]), m))
        /\ Topmost(mutex_release(mutex_drop_priority(k1, t, ceilpri[m]), m))
    <3> HIDE DEF t
    <3> QED BY <1>0, <1>1, Unlocks DEF Layers
  <2> HIDE DEF k, k1
  <2> QED BY <1>3, <2>1 DEF Layers
<1> HIDE DEF k
<1>5. kernel' = k
  BY <1>0, <1>2, Committed DEF Dispatch, Result
<1> QED BY <1>4, <1>5

LEMMA LayersAct ==
  ASSUME IInv, Layers(kernel), NEW t \in Task, act_tsk(t)
  PROVE  Layers(kernel')
<1> DEFINE k == make_active(kernel, t)
<1>0. TSTAT_DORMANT(kernel.tcb[t].tstat) /\ Dispatch(k) /\ KOK(kernel)
  BY KernelFields DEF act_tsk, Dormant, IInv
<1>1. ~TSTAT_RUNNABLE(kernel.tcb[t].tstat) /\ ~TSTAT_WAITING(kernel.tcb[t].tstat)
  <2>1. kernel.tcb[t].tstat \in TStat
    BY TcbType DEF IInv, KOK, Tidy, QueuesOK
  <2> QED BY <1>0, <2>1, Flags
<1>2. Result(kernel, k)
  BY <1>1, Activated DEF IInv
<1>3. Layered(k) /\ Topmost(k)
  BY <1>0, Activates DEF Layers
<1> HIDE DEF k
<1> QED BY <1>0, <1>2, <1>3, Committed DEF Dispatch, Result, Layers

LEMMA LayersTer ==
  ASSUME IInv, Layers(kernel), NEW t \in Task, ter_tsk(t)
  PROVE  Layers(kernel')
<1> DEFINE k == task_terminate(kernel, t)
<1>0. /\ TaskContext /\ t # p_runtsk /\ ~TSTAT_DORMANT(kernel.tcb[t].tstat)
      /\ Dispatch(k) /\ KOK(kernel)
  BY KernelFields DEF ter_tsk, Dormant, IInv
<1>1. kernel.p_schedtsk # t
  BY <1>0, Running, KernelFields
<1>2. Result(kernel, k)
  BY <1>0, <1>1, Terminated DEF IInv
<1>3. Layered(k) /\ Topmost(k)
  BY <1>0, <1>1, Terminates DEF Layers
<1> HIDE DEF k
<1> QED BY <1>0, <1>2, <1>3, Committed DEF Dispatch, Result, Layers

LEMMA LayersTmout ==
  ASSUME IInv, Layers(kernel), NEW t \in Task, wait_tmout(t)
  PROVE  Layers(kernel')
<1> DEFINE k == make_non_wait(set_wercd(
                  wait_dequeue_wobj(wait_dequeue_tmevtb(kernel, t), t), t), t)
<1>0. t \in kernel.tmevtb /\ Dispatch(k)
  BY KernelFields DEF wait_tmout
<1>1. TSTAT_WAITING(kernel.tcb[t].tstat) /\ KOK(kernel)
  BY <1>0 DEF IInv, KOK, Tidy, QueuesOK
<1>2. Result(kernel, k)
  BY <1>1, TimedOut
<1>3. Layered(k) /\ Topmost(k)
  BY <1>1, Wakes DEF Layers
<1> HIDE DEF k
<1> QED BY <1>0, <1>2, <1>3, Committed DEF Dispatch, Result, Layers

LEMMA LayersDly ==
  ASSUME IInv, Layers(kernel), p_runtsk # NULL, ~Holds(p_runtsk), dly_tsk
  PROVE  Layers(kernel')
<1> DEFINE t == p_runtsk
           k == make_wait_tmout(kernel, t, TS_WAITING_DLY, TRUE)
<1>0. TaskContext /\ kernel.dspflg /\ Dispatch(k) /\ ~HasMutex(kernel, t)
  BY KernelFields DEF dly_tsk, Holds, HasMutex
<1>1. /\ t \in Task /\ TSTAT_RUNNABLE(kernel.tcb[t].tstat)
      /\ KOK(kernel) /\ kernel.p_schedtsk = t
  BY <1>0, Running, KernelFields DEF IInv
<1>2. Result(kernel, k)
  <2> HIDE DEF t
  <2> QED BY <1>0, <1>1, Delayed
<1>3. Layered(k) /\ Topmost(k)
  <2> HIDE DEF t
  <2> QED BY <1>0, <1>1, Delays DEF Layers
<1> HIDE DEF k
<1> QED BY <1>0, <1>2, <1>3, Committed DEF Dispatch, Result, Layers

(* set_dspflg() changes no queue.                                          *)
LEMMA EnabledLayers ==
  ASSUME NEW k, KOK(k), Queued(k, {}) # {}, Layered(k)
  PROVE  LET k2 == set_dspflg(k)
         IN  KOK(k2) /\ k2.dspflg /\ k2.tcb = k.tcb /\ Layered(k2) /\ Topmost(k2)
<1> DEFINE k2 == set_dspflg(k)
<1>1. KOK(k2) /\ k2.tcb = k.tcb /\ k2.dspflg
  BY Enabled
<1>2. SameObjects(k, k2) /\ k2.ready_queue = k.ready_queue
  <2>1. k \in MSet
    BY DEF KOK, Tidy, QueuesOK
  <2> QED BY <2>1 DEF set_dspflg, MSet, SameObjects
<1> HIDE DEF k2
<1>3. Layered(k2)
  BY <1>1, <1>2, SameLayers
<1>4. Topmost(k2)
  BY <1>1, <1>3, FirstTopmost
<1> QED BY <1>1, <1>3, <1>4 DEF k2

LEMMA LayersExt ==
  ASSUME IInv, Layers(kernel), ext_tsk
  PROVE  Layers(kernel')
<1> DEFINE t  == p_runtsk
           k1 == IF dspflg THEN kernel ELSE set_dspflg(kernel)
           k  == task_terminate(k1, t)
<1>0. TaskContext /\ Dispatch(k)
  BY DEF ext_tsk
<1>1. /\ t \in Task /\ TSTAT_RUNNABLE(kernel.tcb[t].tstat)
      /\ KOK(kernel) /\ Queued(kernel, {}) # {}
  BY <1>0, Running DEF IInv
<1>2. /\ KOK(k1) /\ k1.tcb = kernel.tcb /\ k1.dspflg
      /\ Layered(k1) /\ Topmost(k1)
  BY <1>1, EnabledLayers, KernelFields DEF Layers
<1> HIDE DEF k1
<1>3. ~TSTAT_DORMANT(k1.tcb[t].tstat)
  <2>1. kernel.tcb[t].tstat \in TStat
    BY <1>1, TcbType DEF KOK, Tidy, QueuesOK
  <2> QED BY <1>1, <1>2, <2>1, Flags
<1>4. Result(k1, k)
  <2> HIDE DEF t
  <2> QED BY <1>1, <1>2, <1>3, Terminated
<1>5. Layered(k) /\ Topmost(k)
  <2> HIDE DEF t
  <2> QED BY <1>1, <1>2, <1>3, Terminates
<1> HIDE DEF k
<1> QED BY <1>0, <1>4, <1>5, Committed DEF Dispatch, Result, Layers

LEMMA LayersDis ==
  ASSUME IInv, Layers(kernel), dis_dsp
  PROVE  Layers(kernel')
<1> DEFINE k == [kernel EXCEPT !.dspflg = FALSE]
<1>0. TaskContext /\ Return(k)
  BY DEF dis_dsp
<1>1. kernel.p_schedtsk \in Queued(kernel, {}) /\ KOK(kernel)
  BY <1>0, Running, KernelFields DEF IInv
<1>2. k = [kernel EXCEPT !.dspflg = FALSE]
  OBVIOUS
<1>3. /\ SameObjects(kernel, k) /\ k.ready_queue = kernel.ready_queue
  BY <1>1 DEF SameObjects, kernel
<1> HIDE DEF k
<1>4. KOK(k) /\ k.p_schedtsk = kernel.p_schedtsk /\ k.tcb = kernel.tcb
  BY <1>1, <1>2, Disabled
<1>5. Layered(k) /\ Topmost(k)
  BY <1>3, <1>4, SameLayers DEF Layers
<1> QED BY <1>0, <1>4, <1>5, Committed DEF Return, Layers

LEMMA LayersEna ==
  ASSUME IInv, Layers(kernel), ena_dsp
  PROVE  Layers(kernel')
<1> DEFINE k == set_dspflg(kernel)
<1>0. TaskContext /\ Dispatch(k)
  BY DEF ena_dsp
<1>1. Queued(kernel, {}) # {} /\ KOK(kernel)
  BY <1>0, Running DEF IInv
<1>2. KOK(k) /\ Layered(k) /\ Topmost(k)
  BY <1>1, EnabledLayers DEF Layers
<1> HIDE DEF k
<1> QED BY <1>0, <1>2, Committed DEF Dispatch, Layers

LEMMA LayersChg ==
  ASSUME IInv, Layers(kernel), Settled, NEW t \in Task, NEW p \in TPri, chg_pri(t, p)
  PROVE  Layers(kernel')
<1> DEFINE k == SetBase(kernel, t, p)
           x == kernel.tcb[t]
           r == [x EXCEPT !.bpriority = p]
           N == {}
<1>0. /\ x.boosted \/ TSTAT_WAIT_MTX(x.tstat) => mutex_check_ceilpri(kernel, t, p)
      /\ IF x.boosted THEN Return(k) ELSE Dispatch(change_priority(k, t, p, FALSE))
  BY KernelFields DEF chg_pri, SetBase
<1>1. /\ KOK(kernel) /\ kernel.dspflg /\ Layered(kernel)
      /\ \A u \in Task : ~HasMutex(kernel, u)
  BY KernelFields DEF IInv, Layers, Settled, Holds, HasMutex
<1>2. kernel \in MSet
  BY <1>1 DEF KOK, Tidy, QueuesOK
<1>3. ~x.boosted
  <2>1. PriOK(x)
    BY <1>1 DEF KOK, PrioritiesOK
  <2>2. x.p_lastmtx = << >>
    BY <1>1 DEF HasMutex
  <2>3. Ceil(x) = {}
    BY <2>2 DEF Ceil, ToSet
  <2> QED BY <2>1, <2>3 DEF PriOK
<1> HIDE DEF k
<1> DEFINE b  == FALSE
           k2 == change_priority(k, t, p, b)
<1>4. Result(kernel, k2)
  BY <1>0, <1>1, <1>3, BaseChanged DEF k
<1>5. /\ Tidy(k, N) /\ k.p_loctsk = kernel.p_loctsk
      /\ OthersSame(kernel, k, t) /\ k.tcb[t] = r
  BY <1>1, BaseStored DEF k
<1>6. /\ r.p_lastmtx = x.p_lastmtx /\ r.tstat = x.tstat /\ r \in TCB
  BY <1>2, BasePut
<1>7. PriorityChanged(k, k2, t, p)
  <2> HIDE DEF r, x
  <2>1. t \notin N /\ b \in BOOLEAN
    OBVIOUS
  <2> HIDE DEF N, b
  <2> QED BY <1>5, <2>1, ChangesPriority
<1>8. Dispatch(k2)
  BY <1>0, <1>3
<1> HIDE DEF k2, r
<1>9. /\ OthersSame(kernel, k2, t) /\ k2.tcb[t] = [r EXCEPT !.priority = p]
      /\ k2.p_loctsk = kernel.p_loctsk
  BY <1>5, <1>7 DEF PriorityChanged, OthersSame
<1>10. k2.tcb[t].p_lastmtx = x.p_lastmtx /\ k2.tcb[t].tstat = x.tstat
  BY <1>6, <1>9 DEF TCB
<1>11. KOK(k2) /\ k2.dspflg = kernel.dspflg
  BY <1>4 DEF Result, Follows
<1>12. Layered(k2) /\ Topmost(k2)
  BY <1>1, <1>9, <1>10, <1>11, ChangesBase
<1> QED BY <1>8, <1>11, <1>12, Committed DEF Dispatch, Layers

LEMMA LayersSame ==
  ASSUME Layers(kernel), UNCHANGED kernelVars
  PROVE  Layers(kernel')
<1>1. kernel' = kernel
  BY DEF kernelVars, kernel
<1> QED BY <1>1

LEMMA LayersNext ==
  ASSUME IInv, Layers(kernel), DisciplinedNext
  PROVE  Layers(kernel')
<1>1. ASSUME NEW m \in CEILING, ploc_mtx(m) \/ unl_mtx(m) PROVE Layers(kernel')
  BY <1>1, LayersPloc, LayersUnl
<1>2. ASSUME NEW m \in Mutex, acre_mtx(m) PROVE Layers(kernel')
  BY <1>2, LayersSame DEF acre_mtx
<1>3. ASSUME NEW t \in Task, act_tsk(t) \/ ter_tsk(t) \/ wait_tmout(t)
      PROVE  Layers(kernel')
  BY <1>3, LayersAct, LayersTer, LayersTmout
<1>4. ASSUME Settled, NEW t \in Task, NEW pri \in TPri, chg_pri(t, pri)
      PROVE  Layers(kernel')
  BY <1>4, LayersChg
<1>5. ASSUME p_runtsk # NULL /\ ~Holds(p_runtsk) /\ dly_tsk PROVE Layers(kernel')
  BY <1>5, LayersDly
<1>6. ASSUME ext_tsk \/ dis_dsp \/ ena_dsp PROVE Layers(kernel')
  BY <1>6, LayersExt, LayersDis, LayersEna
<1>7. ASSUME irq_handler \/ irq_return PROVE Layers(kernel')
  BY <1>7, LayersSame DEF irq_handler, irq_return
<1> QED BY <1>1, <1>2, <1>3, <1>4, <1>5, <1>6, <1>7 DEF DisciplinedNext

LEMMA LayersInit ==
  ASSUME Init
  PROVE  Layers(kernel)
<1>1. /\ tcb = [t \in Task |-> DormantTCB(t)]
      /\ p_schedtsk = NULL
      /\ wait_queue = [m \in Mutex |-> << >>]
      /\ p_loctsk = [m \in Mutex |-> NULL]
  BY DEF Init, Boot
<1>2. \A t \in Task : ~HasMutex(kernel, t)
  <2>1. \A t \in Task : tcb[t] = DormantTCB(t)
    BY <1>1
  <2> QED BY <2>1, DormantOK, KernelFields DEF HasMutex
<1>3. Layered(kernel)
  BY <1>1, <1>2, KernelFields DEF Layered
<1>4. Topmost(kernel)
  BY <1>1, KernelFields DEF Topmost
<1> QED BY <1>3, <1>4 DEF Layers

--------------------------------------------------------------------------
(* The result. *)
CInv == IInv /\ (disciplined => Layers(kernel))

LEMMA CInductive == CeilingSpec => []CInv
<1>1. CeilingInit => CInv
  BY InitIInv, LayersInit DEF CeilingInit, CInv
<1>2. CInv /\ [CeilingNext]_ceilingVars => CInv'
  <2>1. ASSUME CInv, DisciplinedNext, UNCHANGED disciplined PROVE CInv'
    <3>1. IInv'
      BY <2>1, NextGood DEF CInv, Next, Good
    <3>2. disciplined' => Layers(kernel')
      BY <2>1, LayersNext DEF CInv
    <3> QED BY <3>1, <3>2 DEF CInv
  <2>2. ASSUME CInv, UndisciplinedNext, disciplined' = FALSE PROVE CInv'
    BY <2>2, NextGood DEF CInv, Next, Good
  <2>3. ASSUME CInv, UNCHANGED ceilingVars PROVE CInv'
    <3>1. UNCHANGED vars /\ disciplined' = disciplined
      BY <2>3 DEF ceilingVars
    <3>2. kernel' = kernel
      BY <3>1 DEF vars, kernelVars, kernel
    <3> QED BY <2>3, <3>1, <3>2, Stutter DEF CInv, Good
  <2> QED BY <2>1, <2>2, <2>3 DEF CeilingNext
<1> QED BY <1>1, <1>2, PTL DEF CeilingSpec

(* A task whose application has used priority ceilings as they are meant   *)
(* never finds a ceiling mutex locked by another task when it locks one it *)
(* may lock: mutexes with ceilings need no waiting, and loc_mtx() on them  *)
(* returns at once.                                                        *)
THEOREM CeilingsCorrect == CeilingSpec => []CeilingNeverBlocks
<1>1. ASSUME CInv PROVE CeilingNeverBlocks
  <2> SUFFICES ASSUME disciplined, NEW m \in CEILING, TaskContext, CeilingRespected(m),
                      p_loctsk[m] \notin {NULL, p_runtsk}
               PROVE  FALSE
    BY DEF CeilingNeverBlocks
  <2> DEFINE s == p_runtsk
             o == p_loctsk[m]
             S == {n \in Mutex : p_loctsk[n] = o}
  <2>1. IInv /\ Layered(kernel) /\ Topmost(kernel) /\ KOK(kernel) /\ m \in Mutex
    BY <1>1, MutexAssumption, WaitQueueAssumption DEF CInv, Layers, IInv, Mutex
  <2>2. s \in Task /\ kernel.p_schedtsk = s
    BY <2>1, Running, KernelFields
  <2>3. o \in Task /\ o # s
    BY <2>1, KernelFields DEF KOK, Tidy, QueuesOK, MSet
  <2>4. QueueOf(tcb[o].p_lastmtx, S) /\ PriOK(tcb[o])
    BY <2>1, <2>3, Facts
  <2>5. m \in S /\ m \in ToSet(tcb[o].p_lastmtx)
    BY <2>1, <2>4 DEF QueueOf
  <2> HIDE DEF S
  <2>6. HasMutex(kernel, o)
    BY <2>4, <2>5, QueueHead, KernelFields DEF HasMutex, ToSet
  <2>7. Above(kernel, s)
    BY <2>1, <2>2, NULLAssumption DEF Topmost
  <2> DEFINE b == kernel.tcb[s].bpriority
             p == kernel.tcb[o].priority
             c == ceilpri[m]
  <2>8. b < p
    BY <2>3, <2>6, <2>7 DEF Above
  <2>9. p <= c
    BY <2>4, <2>5, KernelFields DEF PriOK, Ceil
  <2>10. b >= c
    BY KernelFields DEF CeilingRespected
  <2>11. b \in Int /\ p \in Int /\ c \in Int
    BY <2>1, <2>2, <2>3, Pris, MutexAssumption DEF TPri
  <2> HIDE DEF b, p, c
  <2> QED BY <2>8, <2>9, <2>10, <2>11
<1> QED BY <1>1, CInductive, PTL
==========================================================================
