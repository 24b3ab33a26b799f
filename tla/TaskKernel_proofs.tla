------------------------- MODULE TaskKernel_proofs -----------------------
(***************************************************************************)
(* Proofs about TaskKernel: the types, and the invariant that makes        *)
(* scheduling correct for any number of tasks and priorities; and of each  *)
(* step, that it keeps the order of the ready queues and suspensions.      *)
(*                                                                         *)
(* Every action is a composition of helpers applied to the scheduler state *)
(* `kernel', so the invariant is stated for such a state, KernelOK(k), and *)
(* first shown to be kept by each composition; then an action only has to  *)
(* commit its result.                                                      *)
(***************************************************************************)
EXTENDS TaskKernel, SchedLemmas

Queued(k) == {t \in Task : TSTAT_RUNNABLE(k.tcb[t].tstat)}

TimeOK(k) ==
  \A t \in Task :
    /\ t \in k.tmevtb => TSTAT_WAITING(k.tcb[t].tstat)
    /\ "WAITING_DLY" \in k.tcb[t].tstat => t \in k.tmevtb

KernelOK(k) ==
  /\ k \in KSet(TCB)
  /\ KInv(k, Queued(k))
  /\ TimeOK(k)
  /\ k.asserted = TRUE

ModesOK ==
  /\ p_runtsk \in Task \cup {NULL}
  /\ enadsp \in BOOLEAN
  /\ ipmall \in BOOLEAN
  /\ lock \in BOOLEAN
  /\ excpt_nest_count \in 0..MaxNest

RunOK ==
  /\ excpt_nest_count = 0 => p_runtsk = p_schedtsk
  /\ ~dspflg => p_runtsk = p_schedtsk

(* The scheduler's part of the inductive invariant.  Beyond the properties *)
(* it says that what an interrupt handler finds is consistent too, and     *)
(* that no assertion failed so far.                                        *)
SInv == KernelOK(kernel) /\ ModesOK /\ RunOK /\ DspflgOK

(* What TCBs say of requests; fixed is whether the task runs with          *)
(* dispatching disabled.                                                   *)
TaskOK(r, fixed) ==
  /\ r.actque => ~TSTAT_DORMANT(r.tstat)
  /\ r.wupque => ~TSTAT_DORMANT(r.tstat) /\ ~TSTAT_WAIT_SLP(r.tstat)
  /\ ~TSTAT_DORMANT(r.tstat) => r.exists
  /\ r.raster => TSTAT_RUNNABLE(r.tstat) /\ (r.enater => fixed)

Fixed(t) == t = p_runtsk /\ ~dspflg

TasksOK == \A t \in Task : TaskOK(tcb[t], Fixed(t))

(* The inductive invariant. *)
IInv == SInv /\ TasksOK

(* Of a step that does not take the processor from a task that has         *)
(* disabled dispatching.                                                   *)
Keeps == ~dspflg => dspflg' = FALSE /\ p_runtsk' = p_runtsk

(* A scheduler state that follows k in one critical section keeps the      *)
(* running task if dispatching is impossible.                              *)
Follows(k, k2) ==
  /\ KernelOK(k2)
  /\ k2.dspflg = k.dspflg
  /\ ~k.dspflg => k2.p_schedtsk = k.p_schedtsk

--------------------------------------------------------------------------
(* What the flag words mean. *)
LEMMA Flags ==
  /\ TS_DORMANT \in TStat /\ TS_RUNNABLE \in TStat /\ TS_SUSPENDED \in TStat
  /\ TS_WAITING_SLP \in TStat /\ TS_WAITING_DLY \in TStat
  /\ TSTAT_RUNNABLE(TS_RUNNABLE)
  /\ ~TSTAT_RUNNABLE(TS_DORMANT) /\ ~TSTAT_RUNNABLE(TS_SUSPENDED)
  /\ ~TSTAT_RUNNABLE(TS_WAITING_SLP) /\ ~TSTAT_RUNNABLE(TS_WAITING_DLY)
  /\ TSTAT_WAITING(TS_WAITING_SLP) /\ TSTAT_WAITING(TS_WAITING_DLY)
  /\ "WAITING_DLY" \notin TS_WAITING_SLP
  /\ \A x \in TStat :
       /\ TSTAT_SUSPENDED(x) => ~TSTAT_RUNNABLE(x)
       /\ TSTAT_WAIT_SLP(x) => TSTAT_WAITING(x)
       /\ TSTAT_RUNNABLE(x) => ~TSTAT_WAITING(x) /\ ~TSTAT_DORMANT(x)
       /\ TSTAT_WAITING(x) => ~TSTAT_DORMANT(x)
       /\ "WAITING_DLY" \in x => TSTAT_WAITING(x)
       /\ ~TSTAT_DORMANT(x) /\ ~TSTAT_RUNNABLE(x) /\ ~TSTAT_SUSPENDED(x)
            => TSTAT_WAITING(x)
<1>1. \A f \in WaitFactor : f # "RUNNABLE" /\ f # "SUSPENDED"
  BY DEF WaitFactor, WobjFactor, WobjcbFactor
<1>2. "WAITING_SLP" \in WaitFactor /\ "WAITING_DLY" \in WaitFactor
  BY DEF WaitFactor, WobjFactor, WobjcbFactor
<1>3. ASSUME NEW x \in TStat
      PROVE  \/ x = {} \/ x = {"RUNNABLE"} \/ x = {"SUSPENDED"}
             \/ \E f \in WaitFactor : x = {f} \/ x = {f, "SUSPENDED"}
  BY DEF TStat, TS_DORMANT, TS_RUNNABLE, TS_SUSPENDED
<1>4. ASSUME NEW x \in TStat
      PROVE  /\ TSTAT_SUSPENDED(x) => ~TSTAT_RUNNABLE(x)
             /\ TSTAT_WAIT_SLP(x) => TSTAT_WAITING(x)
             /\ TSTAT_RUNNABLE(x) => ~TSTAT_WAITING(x) /\ ~TSTAT_DORMANT(x)
             /\ TSTAT_WAITING(x) => ~TSTAT_DORMANT(x)
             /\ "WAITING_DLY" \in x => TSTAT_WAITING(x)
             /\ ~TSTAT_DORMANT(x) /\ ~TSTAT_RUNNABLE(x) /\ ~TSTAT_SUSPENDED(x)
                  => TSTAT_WAITING(x)
  BY <1>1, <1>2, <1>3 DEF TSTAT_RUNNABLE, TSTAT_WAITING, TSTAT_DORMANT,
       TSTAT_SUSPENDED, TSTAT_WAIT_SLP, TS_DORMANT
<1>5. /\ TS_DORMANT \in TStat /\ TS_RUNNABLE \in TStat /\ TS_SUSPENDED \in TStat
      /\ TS_WAITING_SLP \in TStat /\ TS_WAITING_DLY \in TStat
  BY <1>2 DEF TStat, TS_WAITING_SLP, TS_WAITING_DLY
<1>6. /\ TSTAT_RUNNABLE(TS_RUNNABLE)
      /\ ~TSTAT_RUNNABLE(TS_DORMANT) /\ ~TSTAT_RUNNABLE(TS_SUSPENDED)
      /\ ~TSTAT_RUNNABLE(TS_WAITING_SLP) /\ ~TSTAT_RUNNABLE(TS_WAITING_DLY)
      /\ TSTAT_WAITING(TS_WAITING_SLP) /\ TSTAT_WAITING(TS_WAITING_DLY)
      /\ "WAITING_DLY" \notin TS_WAITING_SLP
  BY <1>2 DEF TSTAT_RUNNABLE, TSTAT_WAITING, TS_RUNNABLE, TS_DORMANT,
       TS_SUSPENDED, TS_WAITING_SLP, TS_WAITING_DLY
<1> QED BY <1>4, <1>5, <1>6

(* A waiting task stays so when it is suspended and resumed.               *)
LEMMA DoubleWait ==
  ASSUME NEW x \in TStat, TSTAT_WAITING(x),
         NEW y, y = x \cup TS_SUSPENDED \/ y = x \ TS_SUSPENDED
  PROVE  /\ y \in TStat
         /\ ~TSTAT_RUNNABLE(x) /\ ~TSTAT_RUNNABLE(y) /\ TSTAT_WAITING(y)
         /\ "WAITING_DLY" \in y <=> "WAITING_DLY" \in x
<1>1. \A f \in WaitFactor : f # "RUNNABLE" /\ f # "SUSPENDED"
  BY DEF WaitFactor, WobjFactor, WobjcbFactor
<1>2. PICK f \in WaitFactor : x = {f} \/ x = {f, "SUSPENDED"}
  BY <1>1 DEF TStat, TSTAT_WAITING, TS_DORMANT, TS_RUNNABLE, TS_SUSPENDED
<1>3. y = {f} \/ y = {f, "SUSPENDED"}
  BY <1>1, <1>2 DEF TS_SUSPENDED
<1>4. y \in TStat
  BY <1>3 DEF TStat
<1> QED BY <1>1, <1>2, <1>3, <1>4 DEF TSTAT_RUNNABLE, TSTAT_WAITING

--------------------------------------------------------------------------
(* The invariant of the queues depends on the priorities of the queued     *)
(* tasks alone.                                                            *)
LEMMA SameQueues ==
  ASSUME NEW k \in KSet(TCB), NEW R, KInv(k, R), NEW k2 \in KSet(TCB),
         k2.ready_queue = k.ready_queue, k2.ready_primap = k.ready_primap,
         k2.p_schedtsk = k.p_schedtsk, k2.dspflg = k.dspflg,
         \A t \in R : k2.tcb[t].priority = k.tcb[t].priority
  PROVE  KInv(k2, R)
<1>1. R \subseteq Task
  BY DEF KInv, ReadyOK
<1>2. \A p \in TPri : AtPri(k2, R, p) = AtPri(k, R, p)
  BY <1>1 DEF AtPri
<1>3. \A t \in Task : k2.tcb[t].priority \in TPri
  BY DEF KSet, TCB
<1>4. ReadyOK(k2, R)
  BY <1>1, <1>2, <1>3 DEF KInv, ReadyOK
<1>5. SchedOK(k2, R)
  BY <1>1 DEF KInv, SchedOK, IsFirst
<1> QED BY <1>4, <1>5 DEF KInv

(* A change of the fields of the task control blocks that the queues and   *)
(* the time events do not depend on.                                       *)
Quiet(k, k2) ==
  /\ k2 \in KSet(TCB)
  /\ k2.ready_queue = k.ready_queue /\ k2.ready_primap = k.ready_primap
  /\ k2.p_schedtsk = k.p_schedtsk /\ k2.dspflg = k.dspflg
  /\ k2.tmevtb = k.tmevtb /\ k2.asserted = k.asserted
  /\ \A t \in Task :
       /\ TSTAT_RUNNABLE(k.tcb[t].tstat) => k2.tcb[t].priority = k.tcb[t].priority
       /\ TSTAT_RUNNABLE(k2.tcb[t].tstat) <=> TSTAT_RUNNABLE(k.tcb[t].tstat)
       /\ TSTAT_WAITING(k2.tcb[t].tstat) <=> TSTAT_WAITING(k.tcb[t].tstat)
       /\ "WAITING_DLY" \in k2.tcb[t].tstat <=> "WAITING_DLY" \in k.tcb[t].tstat

LEMMA QuietChange ==
  ASSUME NEW k, KernelOK(k), NEW k2, Quiet(k, k2)
  PROVE  Follows(k, k2)
<1>1. Queued(k2) = Queued(k) /\ Queued(k) \subseteq Task
  BY DEF Queued, Quiet
<1>2. \A t \in Queued(k) : k2.tcb[t].priority = k.tcb[t].priority
  BY DEF Queued, Quiet
<1>3. KInv(k2, Queued(k))
  BY <1>2, SameQueues DEF KernelOK, Quiet
<1>4. TimeOK(k2)
  BY DEF KernelOK, TimeOK, Quiet
<1> QED BY <1>1, <1>3, <1>4 DEF KernelOK, Follows, Quiet

(* One field of a task control block changes.                              *)
LEMMA TCBFields ==
  ASSUME NEW x \in TCB
  PROVE  /\ \A b \in BOOLEAN : /\ [x EXCEPT !.actque = b] \in TCB
                              /\ [x EXCEPT !.wupque = b] \in TCB
                              /\ [x EXCEPT !.raster = b] \in TCB
                              /\ [x EXCEPT !.enater = b] \in TCB
         /\ \A n \in TPri \cup {NoPri} : [x EXCEPT !.rotpri = n] \in TCB
         /\ \A b \in BOOLEAN : [x EXCEPT !.exists = b] \in TCB
         /\ \A p \in TPri : /\ [x EXCEPT !.bpriority = p] \in TCB
                           /\ [x EXCEPT !.priority = p] \in TCB
                           /\ [x EXCEPT !.ipriority = p] \in TCB
         /\ DormantTCB(x) \in TCB
         /\ \A s \in TStat : [x EXCEPT !.tstat = s] \in TCB
<1>1. ASSUME NEW b \in BOOLEAN
      PROVE  /\ [x EXCEPT !.actque = b] \in TCB
             /\ [x EXCEPT !.wupque = b] \in TCB
             /\ [x EXCEPT !.raster = b] \in TCB
             /\ [x EXCEPT !.enater = b] \in TCB
             /\ [x EXCEPT !.exists = b] \in TCB
  BY DEF TCB
<1>2. ASSUME NEW n \in TPri \cup {NoPri} PROVE [x EXCEPT !.rotpri = n] \in TCB
  BY DEF TCB
<1>3. ASSUME NEW p \in TPri
      PROVE  /\ [x EXCEPT !.bpriority = p] \in TCB
             /\ [x EXCEPT !.priority = p] \in TCB
             /\ [x EXCEPT !.ipriority = p] \in TCB
  BY DEF TCB
<1>4. ASSUME NEW s \in TStat PROVE [x EXCEPT !.tstat = s] \in TCB
  BY DEF TCB
<1>5. DormantTCB(x) \in TCB
  BY Flags DEF DormantTCB, TCB
<1> QED BY <1>1, <1>2, <1>3, <1>4, <1>5

(* A task that is created.                                                 *)
LEMMA Created ==
  /\ NoTCB \in TCB
  /\ \A p \in TPri :
       /\ CreatedTCB(p) \in TCB
       /\ CreatedTCB(p).priority = p /\ CreatedTCB(p).tstat = TS_DORMANT
<1>1. NoTCB \in TCB
  BY Flags, TNUM_TPRIAssumption DEF NoTCB, TCB, TPri
<1>2. ASSUME NEW p \in TPri
      PROVE  /\ CreatedTCB(p) \in TCB
             /\ CreatedTCB(p).priority = p /\ CreatedTCB(p).tstat = TS_DORMANT
  <2> DEFINE r == [NoTCB EXCEPT !.exists = TRUE, !.ipriority = p]
  <2>1. r \in TCB /\ r.ipriority = p
    BY <1>1 DEF TCB
  <2> HIDE DEF r
  <2>2. DormantTCB(r) \in TCB
    BY <2>1, TCBFields
  <2>3. DormantTCB(r).priority = p /\ DormantTCB(r).tstat = TS_DORMANT
    BY <2>1 DEF DormantTCB, TCB
  <2> QED BY <2>2, <2>3 DEF CreatedTCB, r
<1> QED BY <1>1, <1>2

(* One task control block is replaced.                                     *)
LEMMA PutTCB ==
  ASSUME NEW k \in KSet(TCB), NEW t \in Task, NEW r \in TCB
  PROVE  LET k2 == [k EXCEPT !.tcb = [k.tcb EXCEPT ![t] = r]] IN
         /\ k2 \in KSet(TCB)
         /\ k2.ready_queue = k.ready_queue /\ k2.ready_primap = k.ready_primap
         /\ k2.p_schedtsk = k.p_schedtsk /\ k2.dspflg = k.dspflg
         /\ k2.tmevtb = k.tmevtb /\ k2.asserted = k.asserted
         /\ \A u \in Task : k2.tcb[u] = IF u = t THEN r ELSE k.tcb[u]
<1> DEFINE c == [k.tcb EXCEPT ![t] = r]
<1>1. c \in [Task -> TCB] /\ \A u \in Task : c[u] = IF u = t THEN r ELSE k.tcb[u]
  BY DEF KSet
<1> HIDE DEF c
<1>2. LET k2 == [k EXCEPT !.tcb = c] IN
      /\ k2 \in KSet(TCB) /\ k2.tcb = c
      /\ k2.ready_queue = k.ready_queue /\ k2.ready_primap = k.ready_primap
      /\ k2.p_schedtsk = k.p_schedtsk /\ k2.dspflg = k.dspflg
      /\ k2.tmevtb = k.tmevtb /\ k2.asserted = k.asserted
  BY <1>1 DEF KSet
<1> QED BY <1>1, <1>2 DEF c

LEMMA QuietPut ==
  ASSUME NEW k \in KSet(TCB), NEW t \in Task, NEW r \in TCB,
         r.tstat = k.tcb[t].tstat, r.priority = k.tcb[t].priority
  PROVE  Quiet(k, [k EXCEPT !.tcb = [k.tcb EXCEPT ![t] = r]])
<1> QED BY PutTCB DEF Quiet

(* The requests, the termination mode, the place in rot_rdq() and the      *)
(* existence of the task are such fields.                                  *)
LEMMA FlagChange ==
  ASSUME NEW k \in KSet(TCB), NEW t \in Task, NEW b \in BOOLEAN,
         NEW n \in TPri \cup {NoPri}
  PROVE  /\ Quiet(k, [k EXCEPT !.tcb[t].actque = b])
         /\ Quiet(k, [k EXCEPT !.tcb[t].wupque = b])
         /\ Quiet(k, [k EXCEPT !.tcb[t].raster = b])
         /\ Quiet(k, [k EXCEPT !.tcb[t].enater = b])
         /\ Quiet(k, [k EXCEPT !.tcb[t].rotpri = n])
         /\ Quiet(k, [k EXCEPT !.tcb[t].exists = b])
<1> DEFINE x == k.tcb[t]
<1>1. x \in TCB
  BY DEF KSet
<1> HIDE DEF x
<1>2. Quiet(k, [k EXCEPT !.tcb[t].actque = b])
  <2> DEFINE r == [x EXCEPT !.actque = b]
  <2>1. r \in TCB
    BY <1>1, TCBFields
  <2>2. r.tstat = x.tstat /\ r.priority = x.priority
    BY <1>1 DEF TCB
  <2>3. [k EXCEPT !.tcb[t].actque = b] = [k EXCEPT !.tcb = [k.tcb EXCEPT ![t] = r]]
    BY DEF x
  <2> HIDE DEF r
  <2>4. Quiet(k, [k EXCEPT !.tcb = [k.tcb EXCEPT ![t] = r]])
    BY <2>1, <2>2, QuietPut DEF x
  <2> QED BY <2>3, <2>4
<1>3. Quiet(k, [k EXCEPT !.tcb[t].wupque = b])
  <2> DEFINE r == [x EXCEPT !.wupque = b]
  <2>1. r \in TCB
    BY <1>1, TCBFields
  <2>2. r.tstat = x.tstat /\ r.priority = x.priority
    BY <1>1 DEF TCB
  <2>3. [k EXCEPT !.tcb[t].wupque = b] = [k EXCEPT !.tcb = [k.tcb EXCEPT ![t] = r]]
    BY DEF x
  <2> HIDE DEF r
  <2>4. Quiet(k, [k EXCEPT !.tcb = [k.tcb EXCEPT ![t] = r]])
    BY <2>1, <2>2, QuietPut DEF x
  <2> QED BY <2>3, <2>4
<1>4. Quiet(k, [k EXCEPT !.tcb[t].raster = b])
  <2> DEFINE r == [x EXCEPT !.raster = b]
  <2>1. r \in TCB
    BY <1>1, TCBFields
  <2>2. r.tstat = x.tstat /\ r.priority = x.priority
    BY <1>1 DEF TCB
  <2>3. [k EXCEPT !.tcb[t].raster = b] = [k EXCEPT !.tcb = [k.tcb EXCEPT ![t] = r]]
    BY DEF x
  <2> HIDE DEF r
  <2>4. Quiet(k, [k EXCEPT !.tcb = [k.tcb EXCEPT ![t] = r]])
    BY <2>1, <2>2, QuietPut DEF x
  <2> QED BY <2>3, <2>4
<1>5. Quiet(k, [k EXCEPT !.tcb[t].enater = b])
  <2> DEFINE r == [x EXCEPT !.enater = b]
  <2>1. r \in TCB
    BY <1>1, TCBFields
  <2>2. r.tstat = x.tstat /\ r.priority = x.priority
    BY <1>1 DEF TCB
  <2>3. [k EXCEPT !.tcb[t].enater = b] = [k EXCEPT !.tcb = [k.tcb EXCEPT ![t] = r]]
    BY DEF x
  <2> HIDE DEF r
  <2>4. Quiet(k, [k EXCEPT !.tcb = [k.tcb EXCEPT ![t] = r]])
    BY <2>1, <2>2, QuietPut DEF x
  <2> QED BY <2>3, <2>4
<1>6. Quiet(k, [k EXCEPT !.tcb[t].rotpri = n])
  <2> DEFINE r == [x EXCEPT !.rotpri = n]
  <2>1. r \in TCB
    BY <1>1, TCBFields
  <2>2. r.tstat = x.tstat /\ r.priority = x.priority
    BY <1>1 DEF TCB
  <2>3. [k EXCEPT !.tcb[t].rotpri = n] = [k EXCEPT !.tcb = [k.tcb EXCEPT ![t] = r]]
    BY DEF x
  <2> HIDE DEF r
  <2>4. Quiet(k, [k EXCEPT !.tcb = [k.tcb EXCEPT ![t] = r]])
    BY <2>1, <2>2, QuietPut DEF x
  <2> QED BY <2>3, <2>4
<1>7. Quiet(k, [k EXCEPT !.tcb[t].exists = b])
  <2> DEFINE r == [x EXCEPT !.exists = b]
  <2>1. r \in TCB
    BY <1>1, TCBFields
  <2>2. r.tstat = x.tstat /\ r.priority = x.priority
    BY <1>1 DEF TCB
  <2>3. [k EXCEPT !.tcb[t].exists = b] = [k EXCEPT !.tcb = [k.tcb EXCEPT ![t] = r]]
    BY DEF x
  <2> HIDE DEF r
  <2>4. Quiet(k, [k EXCEPT !.tcb = [k.tcb EXCEPT ![t] = r]])
    BY <2>1, <2>2, QuietPut DEF x
  <2> QED BY <2>3, <2>4
<1> QED BY <1>2, <1>3, <1>4, <1>5, <1>6, <1>7

(* set_tstat() before a helper of the ready queues: the queues still hold  *)
(* the tasks they held.                                                    *)
LEMMA SetTstat ==
  ASSUME NEW k \in KSet(TCB), NEW R, KInv(k, R), NEW t \in Task, NEW x \in TStat
  PROVE  /\ set_tstat(k, t, x) \in KSet(TCB)
         /\ KInv(set_tstat(k, t, x), R)
         /\ \A u \in Task : set_tstat(k, t, x).tcb[u].tstat
                              = IF u = t THEN x ELSE k.tcb[u].tstat
         /\ set_tstat(k, t, x).p_schedtsk = k.p_schedtsk
         /\ set_tstat(k, t, x).dspflg = k.dspflg
         /\ set_tstat(k, t, x).tmevtb = k.tmevtb
         /\ set_tstat(k, t, x).asserted = k.asserted
<1> DEFINE k2 == set_tstat(k, t, x)
           r == [k.tcb[t] EXCEPT !.tstat = x]
<1>1. k2 = [k EXCEPT !.tcb = [k.tcb EXCEPT ![t] = r]]
  BY DEF set_tstat
<1>2. r \in TCB /\ r.tstat = x /\ r.priority = k.tcb[t].priority
  <2>1. k.tcb[t] \in TCB
    BY DEF KSet
  <2> QED BY <2>1, TCBFields DEF TCB
<1> HIDE DEF r, k2
<1>3. /\ k2 \in KSet(TCB)
      /\ k2.ready_queue = k.ready_queue /\ k2.ready_primap = k.ready_primap
      /\ k2.p_schedtsk = k.p_schedtsk /\ k2.dspflg = k.dspflg
      /\ k2.tmevtb = k.tmevtb /\ k2.asserted = k.asserted
      /\ \A u \in Task : k2.tcb[u] = IF u = t THEN r ELSE k.tcb[u]
  BY <1>1, <1>2, PutTCB
<1>4. /\ \A u \in Task : k2.tcb[u].priority = k.tcb[u].priority
      /\ \A u \in Task : k2.tcb[u].tstat = IF u = t THEN x ELSE k.tcb[u].tstat
  BY <1>2, <1>3
<1>5. KInv(k2, R)
  <2>1. \A u \in R : k2.tcb[u].priority = k.tcb[u].priority
    BY <1>4 DEF KInv, ReadyOK
  <2> QED BY <1>3, <2>1, SameQueues
<1> QED BY <1>3, <1>4, <1>5 DEF k2

(* A task that is neither queued nor has a time event becomes runnable:    *)
(* activation, resumption, the end of a wait.                              *)
LEMMA BecomeRunnable ==
  ASSUME NEW k, k \in KSet(TCB), KInv(k, Queued(k)), k.asserted = TRUE,
         NEW t \in Task, ~TSTAT_RUNNABLE(k.tcb[t].tstat), t \notin k.tmevtb,
         \A u \in Task \ {t} :
           /\ u \in k.tmevtb => TSTAT_WAITING(k.tcb[u].tstat)
           /\ "WAITING_DLY" \in k.tcb[u].tstat => u \in k.tmevtb
  PROVE  Follows(k, make_runnable(set_tstat(k, t, TS_RUNNABLE), t))
<1> DEFINE k1 == set_tstat(k, t, TS_RUNNABLE)
           k2 == make_runnable(k1, t)
<1>1. /\ k1 \in KSet(TCB)
      /\ KInv(k1, Queued(k))
      /\ \A u \in Task : k1.tcb[u].tstat = IF u = t THEN TS_RUNNABLE ELSE k.tcb[u].tstat
      /\ k1.p_schedtsk = k.p_schedtsk /\ k1.dspflg = k.dspflg
      /\ k1.tmevtb = k.tmevtb /\ k1.asserted = k.asserted
  <2>1. TS_RUNNABLE \in TStat
    BY Flags
  <2> HIDE DEF k2
  <2> QED BY <2>1, SetTstat
<1>2. t \notin Queued(k)
  BY DEF Queued
<1> HIDE DEF k1
<1>3. /\ k2 \in KSet(TCB)
      /\ KInv(k2, Queued(k) \cup {t})
      /\ Same(k1, k2)
      /\ ~k1.dspflg => k2.p_schedtsk = k1.p_schedtsk
  BY <1>1, <1>2, MakeRunnable
<1> HIDE DEF k2
<1>4. \A u \in Task : k2.tcb[u].tstat = IF u = t THEN TS_RUNNABLE ELSE k.tcb[u].tstat
  BY <1>1, <1>3 DEF Same
<1>5. Queued(k2) = Queued(k) \cup {t}
  BY <1>4, Flags DEF Queued
<1>6. TimeOK(k2)
  <2>1. "WAITING_DLY" \notin TS_RUNNABLE
    BY DEF TS_RUNNABLE
  <2> QED BY <1>1, <1>3, <1>4, <2>1 DEF TimeOK, Same
<1> QED BY <1>1, <1>3, <1>5, <1>6 DEF Follows, KernelOK, Same, k1, k2

(* A code stored after the time event is cancelled is no error.            *)
LEMMA CodeStored ==
  ASSUME NEW k \in KSet(TCB), NEW t \in Task
  PROVE  set_wercd(wait_dequeue_tmevtb(k, t), t) = wait_dequeue_tmevtb(k, t)
<1> DEFINE k1 == wait_dequeue_tmevtb(k, t)
<1>1. k1 \in KSet(TCB) /\ t \notin k1.tmevtb
  BY DEF wait_dequeue_tmevtb, KSet
<1> HIDE DEF k1
<1>2. k1.asserted \in BOOLEAN
  BY <1>1 DEF KSet
<1>3. (k1.asserted /\ t \notin k1.tmevtb) = k1.asserted
  BY <1>1, <1>2
<1>4. set_wercd(k1, t) = [k1 EXCEPT !.asserted = k1.asserted]
  BY <1>3 DEF set_wercd
<1> QED BY <1>1, <1>4 DEF KSet, k1

(* wait_complete(), and the end of a wait by rel_wai() or a timeout.       *)
LEMMA EndOfWait ==
  ASSUME NEW k, KernelOK(k), NEW t \in Task, TSTAT_WAITING(k.tcb[t].tstat)
  PROVE  Follows(k, make_non_wait(set_wercd(wait_dequeue_tmevtb(k, t), t), t))
<1>0. SUFFICES Follows(k, make_non_wait(wait_dequeue_tmevtb(k, t), t))
  BY CodeStored DEF KernelOK
<1> DEFINE k1 == wait_dequeue_tmevtb(k, t)
           k2 == [k1 EXCEPT !.asserted = @ /\ TSTAT_WAITING(k1.tcb[t].tstat)]
           x  == k.tcb[t].tstat
<1> HIDE DEF k2
<1>1. x \in TStat
  BY DEF KernelOK, KSet, TCB
<1>2. /\ k1 \in KSet(TCB)
      /\ k1.tcb = k.tcb
      /\ k1.ready_queue = k.ready_queue /\ k1.ready_primap = k.ready_primap
      /\ k1.p_schedtsk = k.p_schedtsk /\ k1.dspflg = k.dspflg
      /\ k1.tmevtb = k.tmevtb \ {t} /\ k1.asserted = TRUE
  BY DEF wait_dequeue_tmevtb, KernelOK, KSet
<1> HIDE DEF k1
<1>3. k2 = k1
  <2>1. (k1.asserted /\ TSTAT_WAITING(k1.tcb[t].tstat)) = k1.asserted
    BY <1>2
  <2> QED BY <1>2, <2>1 DEF KSet, k2
<1>4. /\ KInv(k1, Queued(k))
      /\ Queued(k1) = Queued(k)
  BY <1>2, SameQueues DEF KernelOK, Queued
<1>5. \A u \in Task \ {t} :
           /\ u \in k1.tmevtb => TSTAT_WAITING(k1.tcb[u].tstat)
           /\ "WAITING_DLY" \in k1.tcb[u].tstat => u \in k1.tmevtb
  BY <1>2 DEF KernelOK, TimeOK
<1>6. ~TSTAT_RUNNABLE(k1.tcb[t].tstat) /\ t \notin k1.tmevtb
  BY <1>1, <1>2, Flags
<1>7. CASE TSTAT_SUSPENDED(x)
  <2> DEFINE k3 == set_tstat(k1, t, TS_SUSPENDED)
  <2>1. /\ k3 \in KSet(TCB)
        /\ KInv(k3, Queued(k))
        /\ \A u \in Task : k3.tcb[u].tstat = IF u = t THEN TS_SUSPENDED ELSE k.tcb[u].tstat
        /\ k3.p_schedtsk = k.p_schedtsk /\ k3.dspflg = k.dspflg
        /\ k3.tmevtb = k.tmevtb \ {t} /\ k3.asserted = TRUE
    <3>1. TS_SUSPENDED \in TStat
      BY Flags
    <3>2. k1 \in KSet(TCB) /\ KInv(k1, Queued(k))
      BY <1>2, <1>4
    <3>3. /\ k3 \in KSet(TCB)
          /\ KInv(k3, Queued(k))
          /\ \A u \in Task : k3.tcb[u].tstat
                               = IF u = t THEN TS_SUSPENDED ELSE k1.tcb[u].tstat
          /\ k3.p_schedtsk = k1.p_schedtsk /\ k3.dspflg = k1.dspflg
          /\ k3.tmevtb = k1.tmevtb /\ k3.asserted = k1.asserted
      BY <3>1, <3>2, SetTstat
    <3> QED BY <1>2, <3>3
  <2>2. make_non_wait(k1, t) = k3
    BY <1>2, <1>3, <1>7 DEF make_non_wait, k2
  <2> HIDE DEF k3
  <2>3. Queued(k3) = Queued(k)
    BY <1>1, <2>1, Flags DEF Queued
  <2>4. TimeOK(k3)
    <3>1. "WAITING_DLY" \notin TS_SUSPENDED
      BY DEF TS_SUSPENDED
    <3> QED BY <1>2, <1>5, <2>1, <3>1 DEF TimeOK
  <2> QED BY <2>1, <2>2, <2>3, <2>4 DEF Follows, KernelOK, k1
<1>8. CASE ~TSTAT_SUSPENDED(x)
  <2>1. make_non_wait(k1, t) = make_runnable(set_tstat(k1, t, TS_RUNNABLE), t)
    BY <1>2, <1>3, <1>8 DEF make_non_wait, k2
  <2>2. k1 \in KSet(TCB) /\ KInv(k1, Queued(k1)) /\ k1.asserted = TRUE
    BY <1>2, <1>4
  <2>3. Follows(k1, make_non_wait(k1, t))
    BY <1>5, <1>6, <2>1, <2>2, BecomeRunnable
  <2> QED BY <1>2, <2>3 DEF Follows, k1
<1> QED BY <1>7, <1>8

(* A task that can run is taken out of the ready queue and waits, or is    *)
(* suspended.  `timed' registers a time event with the wait.               *)
LEMMA BecomeBlocked ==
  ASSUME NEW k, KernelOK(k), NEW t \in Task, TSTAT_RUNNABLE(k.tcb[t].tstat),
         k.p_schedtsk = t => k.dspflg,
         NEW x \in TStat, ~TSTAT_RUNNABLE(x), NEW timed \in BOOLEAN,
         timed => TSTAT_WAITING(x), "WAITING_DLY" \in x => timed
  PROVE  /\ Follows(k, make_wait_tmout(k, t, x, timed))
         /\ ~timed => make_wait_tmout(k, t, x, timed)
                        = make_non_runnable(set_tstat(k, t, x), t)
<1> DEFINE k1 == set_tstat(k, t, x)
           k2 == make_non_runnable(k1, t)
           k3 == make_wait_tmout(k, t, x, timed)
<1>1. /\ k1 \in KSet(TCB)
      /\ KInv(k1, Queued(k))
      /\ \A u \in Task : k1.tcb[u].tstat = IF u = t THEN x ELSE k.tcb[u].tstat
      /\ k1.p_schedtsk = k.p_schedtsk /\ k1.dspflg = k.dspflg
      /\ k1.tmevtb = k.tmevtb /\ k1.asserted = TRUE
  <2>1. k \in KSet(TCB) /\ KInv(k, Queued(k)) /\ k.asserted = TRUE
    BY DEF KernelOK
  <2> HIDE DEF k2, k3
  <2> QED BY <2>1, SetTstat
<1>2. t \in Queued(k)
  BY DEF Queued
<1>3. t \notin k.tmevtb
  BY Flags DEF KernelOK, TimeOK, KSet, TCB
<1>4. k3 = IF timed THEN [k2 EXCEPT !.tmevtb = @ \cup {t}] ELSE k2
  BY DEF make_wait_tmout
<1> HIDE DEF k1, k3
<1>5. /\ k2 \in KSet(TCB)
      /\ KInv(k2, Queued(k) \ {t})
      /\ Same(k1, k2)
      /\ k1.p_schedtsk # t => k2.p_schedtsk = k1.p_schedtsk
  BY <1>1, <1>2, MakeNonRunnable
<1> HIDE DEF k2
<1>6. /\ k3 \in KSet(TCB)
      /\ k3.tcb = k2.tcb
      /\ k3.ready_queue = k2.ready_queue /\ k3.ready_primap = k2.ready_primap
      /\ k3.p_schedtsk = k2.p_schedtsk /\ k3.dspflg = k2.dspflg
      /\ k3.tmevtb = IF timed THEN k.tmevtb \cup {t} ELSE k.tmevtb
      /\ k3.asserted = TRUE
  BY <1>1, <1>4, <1>5 DEF KSet, Same
<1>7. KInv(k3, Queued(k) \ {t})
  BY <1>5, <1>6, SameQueues
<1>8. \A u \in Task : k3.tcb[u].tstat = IF u = t THEN x ELSE k.tcb[u].tstat
  BY <1>1, <1>5, <1>6 DEF Same
<1>9. Queued(k3) = Queued(k) \ {t}
  BY <1>8 DEF Queued
<1>10. TimeOK(k3)
  BY <1>3, <1>6, <1>8 DEF TimeOK, KernelOK
<1>11. ~k.dspflg => k3.p_schedtsk = k.p_schedtsk
  BY <1>1, <1>5, <1>6
<1>12. k3.dspflg = k.dspflg
  BY <1>1, <1>5, <1>6 DEF Same
<1> QED BY <1>4, <1>6, <1>7, <1>9, <1>10, <1>11, <1>12
        DEF Follows, KernelOK, k1, k2, k3

(* chg_pri(): the priority follows the base priority.                      *)
LEMMA ChangePriority ==
  ASSUME NEW k, KernelOK(k), NEW t \in Task, NEW newpri \in TPri
  PROVE  Follows(k, change_priority([k EXCEPT !.tcb[t].bpriority = newpri],
                                    t, newpri, FALSE))
<1> DEFINE k0 == [k EXCEPT !.tcb[t].bpriority = newpri]
           k1 == [k0 EXCEPT !.tcb[t].priority = newpri]
           k2 == change_priority(k0, t, newpri, FALSE)
<1>1. k \in KSet(TCB) /\ KInv(k, Queued(k)) /\ Queued(k) \subseteq Task
  BY DEF KernelOK, Queued
<1>2. /\ k0 \in KSet(TCB)
      /\ k0.ready_queue = k.ready_queue /\ k0.ready_primap = k.ready_primap
      /\ k0.p_schedtsk = k.p_schedtsk /\ k0.dspflg = k.dspflg
      /\ k0.tmevtb = k.tmevtb /\ k0.asserted = k.asserted
      /\ \A u \in Task : /\ k0.tcb[u].tstat = k.tcb[u].tstat
                         /\ k0.tcb[u].priority = k.tcb[u].priority
  <2> DEFINE r == [k.tcb[t] EXCEPT !.bpriority = newpri]
  <2>1. k0 = [k EXCEPT !.tcb = [k.tcb EXCEPT ![t] = r]]
    OBVIOUS
  <2>2. /\ r \in TCB /\ r.tstat = k.tcb[t].tstat /\ r.priority = k.tcb[t].priority
    <3>1. k.tcb[t] \in TCB
      BY <1>1 DEF KSet
    <3> HIDE DEF k0, k1, k2
    <3> QED BY <3>1, TCBFields DEF TCB
  <2> HIDE DEF r, k0, k1, k2
  <2>3. /\ k0 \in KSet(TCB)
        /\ k0.ready_queue = k.ready_queue /\ k0.ready_primap = k.ready_primap
        /\ k0.p_schedtsk = k.p_schedtsk /\ k0.dspflg = k.dspflg
        /\ k0.tmevtb = k.tmevtb /\ k0.asserted = k.asserted
        /\ \A u \in Task : k0.tcb[u] = IF u = t THEN r ELSE k.tcb[u]
    BY <1>1, <2>1, <2>2, PutTCB
  <2> QED BY <2>2, <2>3
<1> HIDE DEF k0
<1>3. /\ k1 \in KSet(TCB)
      /\ k1.ready_queue = k.ready_queue /\ k1.ready_primap = k.ready_primap
      /\ k1.p_schedtsk = k.p_schedtsk /\ k1.dspflg = k.dspflg
      /\ k1.tmevtb = k.tmevtb /\ k1.asserted = k.asserted
      /\ \A u \in Task :
           /\ k1.tcb[u].tstat = k.tcb[u].tstat
           /\ k1.tcb[u].priority = IF u = t THEN newpri ELSE k.tcb[u].priority
  <2> DEFINE r == [k0.tcb[t] EXCEPT !.priority = newpri]
  <2>1. k1 = [k0 EXCEPT !.tcb = [k0.tcb EXCEPT ![t] = r]]
    OBVIOUS
  <2>2. /\ r \in TCB /\ r.tstat = k0.tcb[t].tstat /\ r.priority = newpri
    <3>1. k0.tcb[t] \in TCB
      BY <1>2 DEF KSet
    <3> HIDE DEF k1, k2
    <3> QED BY <3>1, TCBFields DEF TCB
  <2> HIDE DEF r, k1, k2
  <2>3. /\ k1 \in KSet(TCB)
        /\ k1.ready_queue = k0.ready_queue /\ k1.ready_primap = k0.ready_primap
        /\ k1.p_schedtsk = k0.p_schedtsk /\ k1.dspflg = k0.dspflg
        /\ k1.tmevtb = k0.tmevtb /\ k1.asserted = k0.asserted
        /\ \A u \in Task : k1.tcb[u] = IF u = t THEN r ELSE k0.tcb[u]
    BY <1>2, <2>1, <2>2, PutTCB
  <2> QED BY <1>2, <2>2, <2>3
<1>4. k2 = IF TSTAT_RUNNABLE(k.tcb[t].tstat)
           THEN requeue(k1, t, k.tcb[t].priority, newpri, FALSE) ELSE k1
  BY <1>2 DEF change_priority
<1> HIDE DEF k1, k2
<1>5. /\ k2 \in KSet(TCB)
      /\ KInv(k2, Queued(k))
      /\ Same(k1, k2)
      /\ ~k.dspflg => k2.p_schedtsk = k.p_schedtsk
  <2>1. CASE TSTAT_RUNNABLE(k.tcb[t].tstat)
    <3>1. t \in Queued(k)
      BY <2>1 DEF Queued
    <3>2. \A u \in Task : k1.tcb[u].priority = IF u = t THEN newpri ELSE k.tcb[u].priority
      BY <1>3
    <3>3. k2 = requeue(k1, t, k.tcb[t].priority, newpri, FALSE)
      BY <1>4, <2>1
    <3>4. /\ k1 \in KSet(TCB)
          /\ k1.ready_queue = k.ready_queue /\ k1.ready_primap = k.ready_primap
          /\ k1.p_schedtsk = k.p_schedtsk /\ k1.dspflg = k.dspflg
      BY <1>3
    <3>5. \A mtxmode \in BOOLEAN :
            LET k3 == requeue(k1, t, k.tcb[t].priority, newpri, mtxmode)
            IN  /\ k3 \in KSet(TCB)
                /\ KInv(k3, Queued(k))
                /\ Same(k1, k3)
                /\ ~k.dspflg => k3.p_schedtsk = k.p_schedtsk
      BY <1>1, <3>1, <3>2, <3>4, Requeue
    <3> QED BY <3>3, <3>5
  <2>2. CASE ~TSTAT_RUNNABLE(k.tcb[t].tstat)
    <3>1. \A u \in Queued(k) : k1.tcb[u].priority = k.tcb[u].priority
      BY <1>3, <2>2 DEF Queued
    <3>2. KInv(k1, Queued(k))
      BY <1>1, <1>3, <3>1, SameQueues
    <3> QED BY <1>3, <1>4, <2>2, <3>2 DEF Same
  <2> QED BY <2>1, <2>2
<1>6. \A u \in Task : k2.tcb[u].tstat = k.tcb[u].tstat
  BY <1>3, <1>5 DEF Same
<1>7. Queued(k2) = Queued(k)
  BY <1>6 DEF Queued
<1>8. TimeOK(k2)
  BY <1>3, <1>5, <1>6 DEF TimeOK, KernelOK, Same
<1>9. Follows(k, k2)
  BY <1>3, <1>5, <1>7, <1>8 DEF Follows, KernelOK, Same
<1> QED BY <1>9 DEF k2, k0

(* rot_rdq().                                                              *)
LEMMA Rotate ==
  ASSUME NEW k, KernelOK(k), NEW pri \in TPri
  PROVE  Follows(k, rotate_ready_queue(k, pri))
<1> DEFINE k2 == rotate_ready_queue(k, pri)
<1>1. k \in KSet(TCB) /\ KInv(k, Queued(k))
  BY DEF KernelOK
<1>2. /\ k2 \in KSet(TCB) /\ KInv(k2, Queued(k)) /\ Same(k, k2)
      /\ ~k.dspflg => k2.p_schedtsk = k.p_schedtsk
  BY <1>1, RotateReadyQueue
<1> HIDE DEF k2
<1>3. Queued(k2) = Queued(k) /\ TimeOK(k2)
  BY <1>2 DEF Queued, TimeOK, KernelOK, Same
<1>4. Follows(k, k2)
  BY <1>2, <1>3 DEF Follows, KernelOK, Same
<1> QED BY <1>4 DEF k2

(* task_terminate(): the task becomes dormant, and with a queued           *)
(* activation ready again.                                                 *)
LEMMA Terminate ==
  ASSUME NEW k, KernelOK(k), NEW t \in Task, ~TSTAT_DORMANT(k.tcb[t].tstat),
         k.p_schedtsk = t => k.dspflg
  PROVE  Follows(k, task_terminate(k, t))
<1> DEFINE x  == k.tcb[t].tstat
           k1 == IF TSTAT_RUNNABLE(x) THEN make_non_runnable(k, t)
                 ELSE IF TSTAT_WAITING(x) THEN wait_dequeue_tmevtb(k, t)
                 ELSE k
           k2 == make_dormant(k1, t)
           k3 == [k2 EXCEPT !.tcb[t].actque = FALSE]
           k4 == make_active(k3, t)
<1>1. /\ k \in KSet(TCB) /\ KInv(k, Queued(k)) /\ k.asserted = TRUE
      /\ Queued(k) \subseteq Task
  BY DEF KernelOK, Queued
<1>2. task_terminate(k, t) = IF k2.tcb[t].actque THEN k4 ELSE k2
  BY DEF task_terminate
<1> HIDE DEF k2, k3, k4
<1>3. /\ k1 \in KSet(TCB)
      /\ KInv(k1, Queued(k) \ {t})
      /\ k1.tcb = k.tcb /\ k1.dspflg = k.dspflg /\ k1.asserted = TRUE
      /\ k1.tmevtb = k.tmevtb \ {t}
      /\ ~k.dspflg => k1.p_schedtsk = k.p_schedtsk
  <2>1. x \in TStat
    BY <1>1 DEF KSet, TCB
  <2>2. ~TSTAT_WAITING(x) => k.tmevtb \ {t} = k.tmevtb
    BY DEF KernelOK, TimeOK
  <2>3. CASE TSTAT_RUNNABLE(x)
    <3>1. t \in Queued(k) /\ ~TSTAT_WAITING(x)
      BY <2>1, <2>3, Flags DEF Queued
    <3>2. k1 = make_non_runnable(k, t)
      BY <2>3
    <3> HIDE DEF k1
    <3>3. /\ k1 \in KSet(TCB) /\ KInv(k1, Queued(k) \ {t}) /\ Same(k, k1)
          /\ k.p_schedtsk # t => k1.p_schedtsk = k.p_schedtsk
      BY <1>1, <3>1, <3>2, MakeNonRunnable
    <3> QED BY <1>1, <2>2, <3>1, <3>3 DEF Same
  <2>4. CASE ~TSTAT_RUNNABLE(x)
    <3>1. Queued(k) \ {t} = Queued(k)
      BY <2>4 DEF Queued
    <3>2. /\ k1 \in KSet(TCB)
          /\ k1.ready_queue = k.ready_queue /\ k1.ready_primap = k.ready_primap
          /\ k1.p_schedtsk = k.p_schedtsk /\ k1.dspflg = k.dspflg
          /\ k1.tcb = k.tcb /\ k1.asserted = TRUE
          /\ k1.tmevtb = k.tmevtb \ {t}
      BY <1>1, <2>2, <2>4 DEF wait_dequeue_tmevtb, KSet
    <3> HIDE DEF k1
    <3>3. KInv(k1, Queued(k))
      BY <1>1, <3>2, SameQueues
    <3> QED BY <3>1, <3>2, <3>3
  <2> QED BY <2>3, <2>4
<1> HIDE DEF k1
<1>4. /\ k2 \in KSet(TCB)
      /\ k2.ready_queue = k1.ready_queue /\ k2.ready_primap = k1.ready_primap
      /\ k2.p_schedtsk = k1.p_schedtsk /\ k2.dspflg = k1.dspflg
      /\ k2.tmevtb = k1.tmevtb /\ k2.asserted = k1.asserted
      /\ \A u \in Task \ {t} : k2.tcb[u] = k1.tcb[u]
      /\ k2.tcb[t].tstat = TS_DORMANT
  <2> DEFINE d == DormantTCB(k1.tcb[t])
  <2>1. d \in TCB /\ d.tstat = TS_DORMANT
    <3>1. k1.tcb[t] \in TCB
      BY <1>3 DEF KSet
    <3>2. d \in TCB
      BY <3>1, TCBFields
    <3>3. d.tstat = TS_DORMANT
      BY <3>1 DEF DormantTCB, TCB
    <3> QED BY <3>2, <3>3
  <2>2. k2 = [k1 EXCEPT !.tcb[t] = d]
    BY DEF k2, make_dormant
  <2> HIDE DEF d
  <2> QED BY <1>3, <2>1, <2>2 DEF KSet
<1>5. KernelOK(k2)
  <2>1. Queued(k2) = Queued(k) \ {t}
    BY <1>3, <1>4, Flags DEF Queued
  <2>2. \A u \in Queued(k) \ {t} : k2.tcb[u].priority = k1.tcb[u].priority
    BY <1>1, <1>4
  <2>3. KInv(k2, Queued(k) \ {t})
    BY <1>3, <1>4, <2>2, SameQueues
  <2>4. TimeOK(k2)
    <3>1. "WAITING_DLY" \notin TS_DORMANT
      BY DEF TS_DORMANT
    <3> QED BY <1>3, <1>4, <3>1 DEF TimeOK, KernelOK
  <2> QED BY <1>3, <1>4, <2>1, <2>3, <2>4 DEF KernelOK
<1>6. Follows(k, k2)
  BY <1>3, <1>4, <1>5 DEF Follows
<1>7. Follows(k, k4)
  <2>1. Quiet(k2, k3)
    BY <1>4, FlagChange DEF k3
  <2>2. Follows(k2, k3)
    BY <1>5, <2>1, QuietChange
  <2>3. /\ k3 \in KSet(TCB) /\ KInv(k3, Queued(k3)) /\ k3.asserted = TRUE
        /\ TimeOK(k3)
    BY <2>2 DEF Follows, KernelOK
  <2>4. ~TSTAT_RUNNABLE(k3.tcb[t].tstat) /\ t \notin k3.tmevtb
    BY <1>3, <1>4, <2>1, Flags DEF Quiet
  <2>5. Follows(k3, make_runnable(set_tstat(k3, t, TS_RUNNABLE), t))
    BY <2>3, <2>4, BecomeRunnable DEF TimeOK
  <2> QED BY <1>6, <2>2, <2>5 DEF Follows, k4, make_active
<1> QED BY <1>2, <1>6, <1>7

(* acre_tsk(): a dormant TCB is set anew.                                  *)
LEMMA Create ==
  ASSUME NEW k, KernelOK(k), NEW t \in Task, TSTAT_DORMANT(k.tcb[t].tstat),
         NEW p \in TPri
  PROVE  LET k1 == [k EXCEPT !.tcb[t] = CreatedTCB(p)] IN
         Quiet(k, k1) /\ k1.tcb[t].tstat = TS_DORMANT
<1> DEFINE d == CreatedTCB(p)
           k1 == [k EXCEPT !.tcb = [k.tcb EXCEPT ![t] = d]]
<1>1. d \in TCB /\ d.tstat = TS_DORMANT
  BY Created
<1>2. k \in KSet(TCB) /\ k.tcb[t].tstat = TS_DORMANT /\ k.tcb[t].tstat \in TStat
  BY DEF KernelOK, KSet, TCB, TSTAT_DORMANT
<1> HIDE DEF d
<1>3. /\ k1 \in KSet(TCB)
      /\ k1.ready_queue = k.ready_queue /\ k1.ready_primap = k.ready_primap
      /\ k1.p_schedtsk = k.p_schedtsk /\ k1.dspflg = k.dspflg
      /\ k1.tmevtb = k.tmevtb /\ k1.asserted = k.asserted
      /\ \A u \in Task : k1.tcb[u] = IF u = t THEN d ELSE k.tcb[u]
  BY <1>1, <1>2, PutTCB
<1> HIDE DEF k1
<1>4. \A u \in Task : k1.tcb[u].tstat = k.tcb[u].tstat
  BY <1>1, <1>2, <1>3
<1>5. ~TSTAT_RUNNABLE(k.tcb[t].tstat)
  BY <1>2, Flags
<1>6. Quiet(k, k1)
  BY <1>3, <1>4, <1>5 DEF Quiet
<1>7. k1.tcb[t].tstat = TS_DORMANT
  BY <1>2, <1>4
<1> QED BY <1>6, <1>7 DEF k1, d

--------------------------------------------------------------------------
(* Dispatching is disabled while a task runs, and enabled again.           *)
LEMMA DisableDispatch ==
  ASSUME NEW k, KernelOK(k), k.p_schedtsk \in Queued(k)
  PROVE  KernelOK([k EXCEPT !.dspflg = FALSE])
<1> DEFINE k2 == [k EXCEPT !.dspflg = FALSE]
<1>1. /\ k2 \in KSet(TCB) /\ k2.tcb = k.tcb
      /\ k2.ready_queue = k.ready_queue /\ k2.ready_primap = k.ready_primap
      /\ k2.p_schedtsk = k.p_schedtsk /\ k2.dspflg = FALSE
      /\ k2.tmevtb = k.tmevtb /\ k2.asserted = k.asserted
  BY DEF KernelOK, KSet
<1> HIDE DEF k2
<1>2. Queued(k2) = Queued(k) /\ TimeOK(k2)
  BY <1>1 DEF Queued, TimeOK, KernelOK
<1>3. ReadyOK(k2, Queued(k))
  BY <1>1 DEF KernelOK, KInv, ReadyOK, AtPri
<1>4. KInv(k2, Queued(k))
  BY <1>1, <1>3 DEF KInv, SchedOK
<1>5. KernelOK(k2)
  BY <1>1, <1>2, <1>4 DEF KernelOK
<1> QED BY <1>5 DEF k2

LEMMA DispatchEnabled ==
  ASSUME NEW k, KernelOK(k), Queued(k) # {}
  PROVE  /\ KernelOK(set_dspflg(k))
         /\ set_dspflg(k).dspflg = TRUE
         /\ set_dspflg(k).tcb = k.tcb
<1> DEFINE k2 == set_dspflg(k)
<1>1. k \in KSet(TCB) /\ ReadyOK(k, Queued(k))
  BY DEF KernelOK, KInv
<1>2. /\ k2 \in KSet(TCB) /\ KInv(k2, Queued(k)) /\ k2.dspflg = TRUE
      /\ k2.tcb = k.tcb /\ k2.tmevtb = k.tmevtb /\ k2.asserted = k.asserted
  BY <1>1, SetDspflg
<1> HIDE DEF k2
<1>3. Queued(k2) = Queued(k) /\ TimeOK(k2)
  BY <1>2 DEF Queued, TimeOK, KernelOK
<1>4. KernelOK(k2)
  BY <1>2, <1>3 DEF KernelOK
<1> QED BY <1>2, <1>4 DEF k2

--------------------------------------------------------------------------
(* The end of a critical section: its result becomes the state.            *)
LEMMA Commit ==
  ASSUME NEW k, KernelOK(k), Update(k), ModesOK', RunOK', DspflgOK'
  PROVE  SInv'
<1>1. kernel' = k
  BY DEF KernelOK, KSet, Update, kernel
<1>2. KernelOK(kernel')
  BY <1>1
<1> QED BY <1>2 DEF SInv

LEMMA DispatchOK ==
  ASSUME SInv, NEW k, Follows(kernel, k), Dispatch(k), UnchangedModes
  PROVE  SInv' /\ Keeps
<1>1. KernelOK(k) /\ k.p_schedtsk \in Task \cup {NULL}
  BY DEF Follows, KernelOK, KSet
<1>2. k.dspflg = dspflg /\ (~dspflg => k.p_schedtsk = p_schedtsk)
  BY DEF Follows, kernel
<1>3. Update(k) /\ p_schedtsk' = k.p_schedtsk /\ dspflg' = dspflg
  BY <1>2 DEF Dispatch, Update
<1>4. ModesOK'
  BY <1>1 DEF SInv, ModesOK, Dispatch, UnchangedModes
<1>5. RunOK'
  BY <1>2, <1>3 DEF SInv, ModesOK, RunOK, Dispatch, UnchangedModes, sense_context
<1>6. DspflgOK'
  BY <1>3 DEF SInv, DspflgOK, UnchangedModes
<1>7. Keeps
  <2>1. ~dspflg => p_runtsk = p_schedtsk
    BY DEF SInv, RunOK
  <2>2. dspflg \in BOOLEAN
    BY DEF SInv, KernelOK, KSet, kernel
  <2> QED BY <1>2, <1>3, <2>1, <2>2 DEF Keeps, Dispatch
<1> QED BY <1>1, <1>3, <1>4, <1>5, <1>6, <1>7, Commit

LEMMA ReturnOK ==
  ASSUME SInv, NEW k, Quiet(kernel, k), Return(k), UnchangedModes
  PROVE  SInv' /\ Keeps
<1>1. KernelOK(k)
  BY QuietChange DEF SInv, Follows
<1>2. Update(k) /\ p_schedtsk' = p_schedtsk /\ dspflg' = dspflg /\ p_runtsk' = p_runtsk
  BY DEF Return, Update, Quiet, kernel
<1>3. ModesOK' /\ RunOK' /\ DspflgOK'
  BY <1>2 DEF SInv, ModesOK, RunOK, DspflgOK, UnchangedModes
<1>4. Keeps
  <2>1. dspflg \in BOOLEAN
    BY DEF SInv, KernelOK, KSet, kernel
  <2> QED BY <1>2, <2>1 DEF Keeps
<1> QED BY <1>1, <1>2, <1>3, <1>4, Commit

(* The task that should run is made the running one.                       *)
LEMMA SwitchOK ==
  ASSUME SInv, NEW k, KernelOK(k), Update(k), p_runtsk' = k.p_schedtsk,
         enadsp' \in BOOLEAN, ipmall' \in BOOLEAN, lock' \in BOOLEAN,
         excpt_nest_count' = excpt_nest_count,
         k.dspflg <=> enadsp' /\ ipmall'
  PROVE  SInv'
<1>1. k.p_schedtsk \in Task \cup {NULL}
  BY DEF KernelOK, KSet
<1>2. p_schedtsk' = k.p_schedtsk /\ dspflg' = k.dspflg
  BY DEF Update
<1>3. ModesOK' /\ RunOK' /\ DspflgOK'
  BY <1>1, <1>2 DEF SInv, ModesOK, RunOK, DspflgOK
<1> QED BY <1>3, Commit

(* A task that executes outside of interrupt handlers can run, and is the  *)
(* one that should.                                                        *)
LEMMA Running ==
  ASSUME SInv, ~sense_context, p_runtsk # NULL
  PROVE  /\ p_runtsk \in Task
         /\ kernel.p_schedtsk = p_runtsk
         /\ p_runtsk \in Queued(kernel)
         /\ kernel.dspflg = dspflg
         /\ ~TSTAT_DORMANT(kernel.tcb[p_runtsk].tstat)
         /\ tcb[p_runtsk] \in TCB
<1>1. excpt_nest_count = 0
  BY DEF SInv, ModesOK, sense_context
<1>2. kernel.p_schedtsk = p_runtsk /\ kernel.dspflg = dspflg /\ kernel.tcb = tcb
  BY <1>1 DEF SInv, RunOK, kernel
<1>3. p_runtsk \in Queued(kernel)
  BY <1>2 DEF SInv, KernelOK, KInv, SchedOK, IsFirst
<1>4. tcb \in [Task -> TCB]
  BY <1>2 DEF SInv, KernelOK, KSet
<1>5. p_runtsk \in Task /\ TSTAT_RUNNABLE(tcb[p_runtsk].tstat)
  BY <1>2, <1>3 DEF Queued
<1>6. tcb[p_runtsk].tstat \in TStat
  BY <1>4, <1>5 DEF TCB
<1> QED BY <1>2, <1>3, <1>4, <1>5, <1>6, Flags

--------------------------------------------------------------------------
(* initialize_task() establishes the invariant.                            *)
LEMMA InitSInv == Init => SInv
<1> SUFFICES ASSUME Init PROVE SInv
  OBVIOUS
<1>1. /\ kernel.tcb = tcb /\ kernel.ready_queue = ready_queue
      /\ kernel.ready_primap = ready_primap /\ kernel.p_schedtsk = p_schedtsk
      /\ kernel.dspflg = TRUE /\ kernel.tmevtb = {} /\ kernel.asserted = TRUE
  BY DEF Init, kernel
<1>2. \A t \in Task : /\ tcb[t].tstat = IF t \in ACT THEN TS_RUNNABLE ELSE TS_DORMANT
                      /\ t \in Static => tcb[t].priority = itskpri[t]
                      /\ tcb[t] \in TCB
  <2>1. TS_RUNNABLE \in TStat /\ TS_DORMANT \in TStat
    BY Flags
  <2> DEFINE c(t) == IF t \in Static THEN CreatedTCB(itskpri[t]) ELSE NoTCB
             s(t) == IF t \in ACT THEN TS_RUNNABLE ELSE TS_DORMANT
  <2>4. ASSUME NEW t \in Task
        PROVE  c(t) \in TCB /\ (t \in Static => c(t).priority = itskpri[t])
    BY Created, itskpriAssumption
  <2>5. ASSUME NEW t \in Task
        PROVE  tcb[t] = [c(t) EXCEPT !.tstat = s(t)] /\ s(t) \in TStat
    BY <2>1 DEF Init
  <2> HIDE DEF c, s
  <2>6. ASSUME NEW t \in Task
        PROVE  /\ tcb[t] \in TCB
               /\ tcb[t].tstat = s(t)
               /\ tcb[t].priority = c(t).priority
    <3> DEFINE x == c(t)
               y == s(t)
    <3>1. x \in TCB /\ y \in TStat /\ tcb[t] = [x EXCEPT !.tstat = y]
      BY <2>4, <2>5
    <3> HIDE DEF x, y
    <3>2. tcb[t] \in TCB
      BY <3>1, TCBFields
    <3>3. tcb[t].tstat = y /\ tcb[t].priority = x.priority
      BY <3>1 DEF TCB
    <3> QED BY <3>2, <3>3 DEF x, y
  <2> QED BY <2>4, <2>6 DEF s
<1>3. tcb \in [Task -> TCB]
  BY <1>2 DEF Init
<1>4. Queued(kernel) = ACT
  BY <1>1, <1>2, Flags, ACTAssumption DEF Queued
<1>5. ready_queue \in [TPri -> Seq(Task)]
  <2>1. Orders \subseteq Seq(Task)
    BY DEF Orders
  <2>2. ready_queue \in [TPri -> Orders]
    BY DEF Init
  <2> QED BY <2>1, <2>2
<1>6. \A p \in TPri : AtPri(kernel, ACT, p) = {t \in ACT : itskpri[t] = p}
  BY <1>1, <1>2, ACTAssumption DEF AtPri
<1>7. \A p \in TPri : QueueOf(ready_queue[p], AtPri(kernel, ACT, p))
  <2>1. \A p \in TPri : /\ IsInjective(ready_queue[p])
                         /\ ToSet(ready_queue[p]) = AtPri(kernel, ACT, p)
    BY <1>6 DEF Init, BootQueue
  <2> QED BY <1>5, <2>1, QueueFrom
<1>8. \A p \in TPri : p \in ready_primap <=> AtPri(kernel, ACT, p) # {}
  <2>1. ready_primap = {p \in TPri : ready_queue[p] # << >>}
    BY DEF Init
  <2>2. \A p \in TPri : ready_queue[p] = << >> <=> AtPri(kernel, ACT, p) = {}
    BY <1>7, QueueHead
  <2> QED BY <2>1, <2>2
<1>9. ReadyOK(kernel, ACT)
  <2>1. \A t \in Task : tcb[t].priority \in TPri
    BY <1>2 DEF TCB
  <2> QED BY <1>1, <1>7, <1>8, <2>1, ACTAssumption DEF ReadyOK
<1>10. ready_primap = {} <=> ACT = {}
  <2>1. ready_primap \subseteq TPri
    BY DEF Init
  <2>2. \A t \in ACT : itskpri[t] \in TPri /\ t \in AtPri(kernel, ACT, itskpri[t])
    BY <1>6, ACTAssumption, itskpriAssumption
  <2>3. \A p \in TPri : AtPri(kernel, ACT, p) \subseteq ACT
    BY <1>6
  <2> QED BY <1>8, <2>1, <2>2, <2>3
<1>11. p_schedtsk = IF ACT = {} THEN NULL ELSE search_schedtsk(kernel)
  BY <1>1, <1>10 DEF Init, search_schedtsk
<1> DEFINE k == [kernel EXCEPT !.p_schedtsk = NULL]
<1>12. kernel \in KSet(TCB)
  <2>1. CASE ACT = {}
    BY <1>1, <1>3, <1>5, <1>11, <2>1 DEF KSet, kernel, Init
  <2>2. CASE ACT # {}
    <3>1. /\ k \in KSet(TCB) /\ k.tcb = tcb /\ k.ready_queue = ready_queue
          /\ k.ready_primap = ready_primap
      BY <1>1, <1>3, <1>5 DEF KSet, kernel, Init
    <3> HIDE DEF k
    <3>2. ReadyOK(k, ACT)
      BY <1>1, <1>9, <3>1 DEF ReadyOK, AtPri
    <3>3. IsFirst(k, ACT, search_schedtsk(k))
      BY <2>2, <3>1, <3>2, SearchFirst
    <3>4. p_schedtsk \in Task
      BY <1>1, <1>11, <2>2, <3>1, <3>3, ACTAssumption DEF IsFirst, search_schedtsk
    <3> QED BY <1>1, <1>3, <1>5, <3>4 DEF KSet, kernel, Init
  <2> QED BY <2>1, <2>2
<1>13. SchedOK(kernel, ACT)
  BY <1>1, <1>9, <1>11, <1>12, SearchFirst DEF SchedOK
<1>14. TimeOK(kernel)
  <2>1. "WAITING_DLY" \notin TS_RUNNABLE /\ "WAITING_DLY" \notin TS_DORMANT
    BY DEF TS_RUNNABLE, TS_DORMANT
  <2> QED BY <1>1, <1>2, <2>1 DEF TimeOK
<1>15. KernelOK(kernel)
  BY <1>1, <1>4, <1>9, <1>12, <1>13, <1>14 DEF KernelOK, KInv
<1>16. ModesOK /\ RunOK /\ DspflgOK
  <2>1. p_schedtsk \in Task \cup {NULL}
    BY <1>1, <1>12 DEF KSet
  <2>2. /\ p_runtsk = p_schedtsk
        /\ dspflg = TRUE /\ enadsp = TRUE /\ ipmall = TRUE /\ lock = FALSE
        /\ excpt_nest_count = 0
    BY DEF Init
  <2>3. 0 \in 0..MaxNest
    BY MaxNestAssumption
  <2>4. ModesOK
    BY <2>1, <2>2, <2>3 DEF ModesOK
  <2>5. RunOK /\ DspflgOK
    BY <2>2 DEF RunOK, DspflgOK
  <2> QED BY <2>4, <2>5
<1> QED BY <1>15, <1>16 DEF SInv

--------------------------------------------------------------------------
(* What the invariant says of the variables. *)
LEMMA Fields ==
  ASSUME SInv
  PROVE  /\ kernel \in KSet(TCB) /\ KernelOK(kernel)
         /\ kernel.tcb = tcb /\ kernel.tmevtb = tmevtb
         /\ kernel.p_schedtsk = p_schedtsk /\ kernel.dspflg = dspflg
         /\ tcb \in [Task -> TCB]
         /\ \A t \in Task : /\ tcb[t].tstat \in TStat
                            /\ t \in tmevtb => Waiting(t)
<1>1. kernel \in KSet(TCB) /\ KernelOK(kernel)
  BY DEF SInv, KernelOK
<1>2. /\ kernel.tcb = tcb /\ kernel.tmevtb = tmevtb
      /\ kernel.p_schedtsk = p_schedtsk /\ kernel.dspflg = dspflg
  BY DEF kernel
<1>3. tcb \in [Task -> TCB]
  BY <1>1, <1>2 DEF KSet
<1>4. \A t \in Task : tcb[t].tstat \in TStat
  BY <1>3 DEF TCB
<1>5. \A t \in Task : t \in tmevtb => Waiting(t)
  BY <1>1, <1>2 DEF KernelOK, TimeOK, Waiting
<1> QED BY <1>1, <1>2, <1>3, <1>4, <1>5

LEMMA FollowsTwice ==
  ASSUME NEW k, NEW k1, NEW k2, Follows(k, k1), Follows(k1, k2)
  PROVE  Follows(k, k2)
BY DEF Follows

(* Suspending a waiting task, and resuming it.                             *)
LEMMA DoubleWaitQuiet ==
  ASSUME NEW k \in KSet(TCB), NEW t \in Task, TSTAT_WAITING(k.tcb[t].tstat),
         NEW y \in {k.tcb[t].tstat \cup TS_SUSPENDED, k.tcb[t].tstat \ TS_SUSPENDED}
  PROVE  Quiet(k, set_tstat(k, t, y))
<1> DEFINE x == k.tcb[t].tstat
           r == [k.tcb[t] EXCEPT !.tstat = y]
<1>1. x \in TStat
  BY DEF KSet, TCB
<1> HIDE DEF r
<1>2. /\ y \in TStat
      /\ ~TSTAT_RUNNABLE(x) /\ ~TSTAT_RUNNABLE(y) /\ TSTAT_WAITING(y)
      /\ "WAITING_DLY" \in y <=> "WAITING_DLY" \in x
  <2>1. y = x \cup TS_SUSPENDED \/ y = x \ TS_SUSPENDED
    OBVIOUS
  <2>2. TSTAT_WAITING(x)
    OBVIOUS
  <2> HIDE DEF x
  <2> QED BY <1>1, <2>1, <2>2, DoubleWait
<1>3. set_tstat(k, t, y) = [k EXCEPT !.tcb = [k.tcb EXCEPT ![t] = r]]
  BY DEF set_tstat, r
<1>4. r \in TCB /\ r.tstat = y /\ r.priority = k.tcb[t].priority
  <2>1. k.tcb[t] \in TCB /\ y \in TStat
    BY <1>2 DEF KSet
  <2> QED BY <2>1, TCBFields DEF TCB, r
<1> QED BY <1>2, <1>3, <1>4, PutTCB DEF Quiet

--------------------------------------------------------------------------
(* The services that name a task, and the timeout, keep the invariant.     *)
LEMMA TaskActionOK ==
  ASSUME IInv, NEW t \in Task, TaskAction(t)
  PROVE  SInv' /\ Keeps
<1>0. SInv
  BY DEF IInv
<1> USE <1>0, Fields
<1>1. CASE act_tsk(t)
  <2>1. CASE Dormant(t) /\ Dispatch(make_active(kernel, t))
    <3>1. ~TSTAT_RUNNABLE(kernel.tcb[t].tstat) /\ t \notin kernel.tmevtb
      BY <2>1, Flags DEF Dormant, Waiting
    <3>2. Follows(kernel, make_active(kernel, t))
      BY <3>1, BecomeRunnable DEF KernelOK, TimeOK, make_active
    <3> QED BY <1>1, <2>1, <3>2, DispatchOK DEF act_tsk
  <2>2. CASE Return([kernel EXCEPT !.tcb[t].actque = TRUE])
    <3>1. Quiet(kernel, [kernel EXCEPT !.tcb[t].actque = TRUE])
      BY FlagChange
    <3> QED BY <1>1, <2>2, <3>1, ReturnOK DEF act_tsk
  <2> QED BY <1>1, <2>1, <2>2 DEF act_tsk
<1>2. CASE can_act(t)
  <2>1. Quiet(kernel, [kernel EXCEPT !.tcb[t].actque = FALSE])
    BY FlagChange
  <2> QED BY <1>2, <2>1, ReturnOK DEF can_act
<1>3. CASE wup_tsk(t)
  <2>1. CASE TSTAT_WAIT_SLP(tcb[t].tstat) /\ Dispatch(wait_complete(kernel, t))
    <3>1. TSTAT_WAITING(kernel.tcb[t].tstat)
      BY <2>1, Flags
    <3>2. Follows(kernel, wait_complete(kernel, t))
      BY <3>1, EndOfWait DEF wait_complete
    <3> QED BY <1>3, <2>1, <3>2, DispatchOK DEF wup_tsk
  <2>2. CASE Return([kernel EXCEPT !.tcb[t].wupque = TRUE])
    <3>1. Quiet(kernel, [kernel EXCEPT !.tcb[t].wupque = TRUE])
      BY FlagChange
    <3> QED BY <1>3, <2>2, <3>1, ReturnOK DEF wup_tsk
  <2> QED BY <1>3, <2>1, <2>2 DEF wup_tsk
<1>4. CASE can_wup(t)
  <2>1. Quiet(kernel, [kernel EXCEPT !.tcb[t].wupque = FALSE])
    BY FlagChange
  <2> QED BY <1>4, <2>1, ReturnOK DEF can_wup
<1>5. CASE rel_wai(t)
  <2>1. Follows(kernel, make_non_wait(set_wercd(wait_dequeue_tmevtb(kernel, t), t), t))
    BY <1>5, EndOfWait DEF rel_wai, Waiting
  <2> QED BY <1>5, <2>1, DispatchOK DEF rel_wai
<1>6. CASE sus_tsk(t)
  <2>1. CASE /\ Runnable(t)
             /\ Dispatch(make_non_runnable(set_tstat(kernel, t, TS_SUSPENDED), t))
    <3>1. kernel.p_schedtsk = t => kernel.dspflg
      BY <1>6, Running DEF sus_tsk, TaskUnlocked
    <3>2. /\ TS_SUSPENDED \in TStat /\ ~TSTAT_RUNNABLE(TS_SUSPENDED)
          /\ "WAITING_DLY" \notin TS_SUSPENDED
      BY Flags DEF TS_SUSPENDED
    <3>3. TSTAT_RUNNABLE(kernel.tcb[t].tstat)
      BY <2>1 DEF Runnable
    <3>4. Follows(kernel, make_wait_tmout(kernel, t, TS_SUSPENDED, FALSE))
      BY <3>1, <3>2, <3>3, BecomeBlocked
    <3>5. make_wait_tmout(kernel, t, TS_SUSPENDED, FALSE)
            = make_non_runnable(set_tstat(kernel, t, TS_SUSPENDED), t)
      BY DEF make_wait_tmout
    <3> QED BY <1>6, <2>1, <3>4, <3>5, DispatchOK DEF sus_tsk
  <2>2. CASE /\ ~Runnable(t)
             /\ Return(set_tstat(kernel, t, tcb[t].tstat \cup TS_SUSPENDED))
    <3>1. TSTAT_WAITING(kernel.tcb[t].tstat)
      BY <1>6, <2>2, Flags DEF sus_tsk, Dormant, Suspended, Runnable
    <3>2. Quiet(kernel, set_tstat(kernel, t, tcb[t].tstat \cup TS_SUSPENDED))
      BY <3>1, DoubleWaitQuiet
    <3> QED BY <1>6, <2>2, <3>2, ReturnOK DEF sus_tsk
  <2> QED BY <1>6, <2>1, <2>2 DEF sus_tsk
<1>7. CASE rsm_tsk(t)
  <2>1. CASE /\ ~Waiting(t)
             /\ Dispatch(make_runnable(set_tstat(kernel, t, TS_RUNNABLE), t))
    <3>1. ~TSTAT_RUNNABLE(kernel.tcb[t].tstat) /\ t \notin kernel.tmevtb
      BY <1>7, <2>1, Flags DEF rsm_tsk, Suspended
    <3>2. Follows(kernel, make_runnable(set_tstat(kernel, t, TS_RUNNABLE), t))
      BY <3>1, BecomeRunnable DEF KernelOK, TimeOK
    <3> QED BY <1>7, <2>1, <3>2, DispatchOK DEF rsm_tsk
  <2>2. CASE /\ Waiting(t)
             /\ Return(set_tstat(kernel, t, tcb[t].tstat \ TS_SUSPENDED))
    <3>1. Quiet(kernel, set_tstat(kernel, t, tcb[t].tstat \ TS_SUSPENDED))
      BY <2>2, DoubleWaitQuiet DEF Waiting
    <3> QED BY <1>7, <2>2, <3>1, ReturnOK DEF rsm_tsk
  <2> QED BY <1>7, <2>1, <2>2 DEF rsm_tsk
<1>8. CASE ter_tsk(t)
  <2>1. kernel.p_schedtsk # t /\ ~TSTAT_DORMANT(kernel.tcb[t].tstat)
    BY <1>8, Running DEF ter_tsk, TaskUnlocked, Dormant
  <2>2. Follows(kernel, task_terminate(kernel, t))
    BY <2>1, Terminate
  <2> QED BY <1>8, <2>2, DispatchOK DEF ter_tsk
<1>9. CASE wait_tmout(t)
  <2>1. Follows(kernel, make_non_wait(set_wercd(wait_dequeue_tmevtb(kernel, t), t), t))
    BY <1>9, EndOfWait DEF wait_tmout, Waiting
  <2> QED BY <1>9, <2>1, DispatchOK DEF wait_tmout
<1>10. ASSUME NEW pri \in TPri, chg_pri(t, pri) PROVE SInv' /\ Keeps
  <2>1. Follows(kernel, change_priority([kernel EXCEPT !.tcb[t].bpriority = pri],
                                        t, pri, FALSE))
    BY ChangePriority
  <2> QED BY <1>10, <2>1, DispatchOK DEF chg_pri
<1>11. CASE ras_ter(t)
  <2> DEFINE k1 == [kernel EXCEPT !.tcb[t].raster = TRUE]
             k2 == IF Waiting(t) THEN set_wercd(wait_dequeue_tmevtb(k1, t), t)
                   ELSE k1
  <2>1. Quiet(kernel, k1)
    BY FlagChange
  <2>2. CASE tcb[t].enater /\ Dispatch(task_terminate(kernel, t))
    <3>1. kernel.p_schedtsk # t /\ ~TSTAT_DORMANT(kernel.tcb[t].tstat)
      BY <1>11, Running DEF ras_ter, TaskUnlocked, Dormant
    <3>2. Follows(kernel, task_terminate(kernel, t))
      BY <3>1, Terminate
    <3> QED BY <1>11, <2>2, <3>2, DispatchOK DEF ras_ter
  <2>3. CASE Return(k1)
    <3> HIDE DEF k1
    <3> QED BY <1>11, <2>1, <2>3, ReturnOK DEF ras_ter
  <2>4. CASE /\ ~Runnable(t)
             /\ Dispatch(make_runnable(set_tstat(k2, t, TS_RUNNABLE), t))
    <3> HIDE DEF k1
    <3>1. Follows(kernel, k1)
      BY <2>1, QuietChange
    <3>2. /\ k1 \in KSet(TCB) /\ KInv(k1, Queued(k1)) /\ TimeOK(k1) /\ k1.asserted = TRUE
          /\ k1.tmevtb = tmevtb
          /\ TSTAT_RUNNABLE(k1.tcb[t].tstat) <=> TSTAT_RUNNABLE(kernel.tcb[t].tstat)
      BY <2>1, <3>1 DEF Follows, KernelOK, Quiet
    <3>3. /\ k2 \in KSet(TCB)
          /\ k2.tcb = k1.tcb
          /\ k2.ready_queue = k1.ready_queue /\ k2.ready_primap = k1.ready_primap
          /\ k2.p_schedtsk = k1.p_schedtsk /\ k2.dspflg = k1.dspflg
          /\ k2.tmevtb = k1.tmevtb \ {t} /\ k2.asserted = TRUE
      <4>1. CASE Waiting(t)
        <5>1. k2 = [k1 EXCEPT !.tmevtb = @ \ {t}]
          BY <3>2, <4>1, CodeStored DEF wait_dequeue_tmevtb
        <5> HIDE DEF k2
        <5> QED BY <3>2, <5>1 DEF KSet
      <4>2. CASE ~Waiting(t)
        <5>1. k2 = k1 /\ k1.tmevtb \ {t} = k1.tmevtb
          BY <3>2, <4>2
        <5> HIDE DEF k2
        <5> QED BY <3>2, <5>1
      <4> QED BY <4>1, <4>2
    <3> HIDE DEF k2
    <3>4. Queued(k2) = Queued(k1) /\ KInv(k2, Queued(k1))
      BY <3>2, <3>3, SameQueues DEF Queued
    <3>5. ~TSTAT_RUNNABLE(k2.tcb[t].tstat) /\ t \notin k2.tmevtb
      BY <2>4, <3>2, <3>3 DEF Runnable
    <3>6. \A u \in Task \ {t} :
             /\ u \in k2.tmevtb => TSTAT_WAITING(k2.tcb[u].tstat)
             /\ "WAITING_DLY" \in k2.tcb[u].tstat => u \in k2.tmevtb
      BY <3>2, <3>3 DEF TimeOK
    <3>7. k2 \in KSet(TCB) /\ KInv(k2, Queued(k2)) /\ k2.asserted = TRUE
      BY <3>3, <3>4
    <3>8. Follows(k2, make_runnable(set_tstat(k2, t, TS_RUNNABLE), t))
      BY <3>5, <3>6, <3>7, BecomeRunnable
    <3>9. Follows(kernel, make_runnable(set_tstat(k2, t, TS_RUNNABLE), t))
      BY <3>1, <3>3, <3>8 DEF Follows
    <3> QED BY <1>11, <2>4, <3>9, DispatchOK DEF ras_ter
  <2> QED BY <1>11, <2>2, <2>3, <2>4 DEF ras_ter
<1>12. ASSUME NEW pri \in TPri, NEW tskatr \in SUBSET {"ACT"}, acre_tsk(t, pri, tskatr)
       PROVE  SInv' /\ Keeps
  <2> DEFINE k1 == [kernel EXCEPT !.tcb[t] = CreatedTCB(pri)]
             k2 == make_active(k1, t)
  <2>1. TSTAT_DORMANT(kernel.tcb[t].tstat)
    BY <1>12 DEF acre_tsk, Exists, IInv, TasksOK, TaskOK
  <2>2. Quiet(kernel, k1) /\ k1.tcb[t].tstat = TS_DORMANT
    BY <2>1, Create
  <2>3. Dispatch(k2) \/ Return(k1)
    BY <1>12 DEF acre_tsk
  <2>4. UnchangedModes
    BY <1>12 DEF acre_tsk
  <2> HIDE DEF k1
  <2>5. Follows(kernel, k2)
    <3>1. k1 \in KSet(TCB) /\ KInv(k1, Queued(k1)) /\ k1.asserted = TRUE /\ TimeOK(k1)
      BY <2>2, QuietChange DEF Follows, KernelOK
    <3>2. ~TSTAT_RUNNABLE(k1.tcb[t].tstat) /\ ~TSTAT_WAITING(k1.tcb[t].tstat)
      BY <2>2, Flags DEF TS_DORMANT, TSTAT_WAITING
    <3>3. Follows(k1, k2)
      BY <3>1, <3>2, BecomeRunnable DEF TimeOK, make_active
    <3> QED BY <2>2, <3>3, QuietChange, FollowsTwice
  <2> HIDE DEF k2
  <2>6. CASE Dispatch(k2)
    BY <2>4, <2>5, <2>6, DispatchOK
  <2>7. CASE Return(k1)
    BY <2>2, <2>4, <2>7, ReturnOK
  <2> QED BY <2>3, <2>6, <2>7
<1>13. CASE del_tsk(t)
  <2>1. Quiet(kernel, [kernel EXCEPT !.tcb[t].exists = FALSE])
    BY FlagChange
  <2> QED BY <1>13, <2>1, ReturnOK DEF del_tsk
<1> QED BY <1>1, <1>2, <1>3, <1>4, <1>5, <1>6, <1>7, <1>8, <1>9, <1>10, <1>11, <1>12, <1>13
        DEF TaskAction

(* A task that ends, from a state in which it may: exit_and_dispatch().    *)
LEMMA ExitOK ==
  ASSUME SInv, ~sense_context, p_runtsk # NULL,
         NEW k, KernelOK(k), k.tcb = tcb, k.dspflg = TRUE, ExitAndDispatch(k),
         enadsp' = TRUE, ipmall' = TRUE, lock' \in BOOLEAN,
         excpt_nest_count' = excpt_nest_count
  PROVE  SInv'
<1>1. p_runtsk \in Task /\ ~TSTAT_DORMANT(k.tcb[p_runtsk].tstat)
  BY Running, Fields
<1>2. Follows(k, task_terminate(k, p_runtsk))
  BY <1>1, Terminate
<1>3. KernelOK(task_terminate(k, p_runtsk)) /\ task_terminate(k, p_runtsk).dspflg = TRUE
  BY <1>2 DEF Follows
<1> QED BY <1>3, SwitchOK DEF ExitAndDispatch

(* The services that act on the calling task keep the invariant.           *)
LEMMA SelfActionOK ==
  ASSUME SInv, SelfAction
  PROVE  SInv' /\ (ext_tsk \/ Keeps)
<1> USE Fields
<1>1. ASSUME NEW timed \in BOOLEAN, slp_tsk(timed) PROVE SInv' /\ Keeps
  <2>1. /\ p_runtsk \in Task
        /\ TSTAT_RUNNABLE(kernel.tcb[p_runtsk].tstat) /\ kernel.dspflg
    BY <1>1, Running DEF slp_tsk, TaskUnlocked, Queued
  <2>2. CASE Return([kernel EXCEPT !.tcb[p_runtsk].wupque = FALSE])
    <3>1. Quiet(kernel, [kernel EXCEPT !.tcb[p_runtsk].wupque = FALSE])
      BY <2>1, FlagChange
    <3> QED BY <1>1, <2>2, <3>1, ReturnOK DEF slp_tsk
  <2>3. CASE Dispatch(make_wait_tmout(kernel, p_runtsk, TS_WAITING_SLP, timed))
    <3>1. /\ TS_WAITING_SLP \in TStat /\ ~TSTAT_RUNNABLE(TS_WAITING_SLP)
          /\ TSTAT_WAITING(TS_WAITING_SLP) /\ "WAITING_DLY" \notin TS_WAITING_SLP
      BY Flags
    <3>2. Follows(kernel, make_wait_tmout(kernel, p_runtsk, TS_WAITING_SLP, timed))
      BY <2>1, <3>1, BecomeBlocked
    <3> QED BY <1>1, <2>3, <3>2, DispatchOK DEF slp_tsk
  <2> QED BY <1>1, <2>2, <2>3 DEF slp_tsk
<1>2. CASE dly_tsk
  <2>1. /\ p_runtsk \in Task
        /\ TSTAT_RUNNABLE(kernel.tcb[p_runtsk].tstat) /\ kernel.dspflg
    BY <1>2, Running DEF dly_tsk, TaskUnlocked, Queued
  <2>2. /\ TS_WAITING_DLY \in TStat /\ ~TSTAT_RUNNABLE(TS_WAITING_DLY)
        /\ TSTAT_WAITING(TS_WAITING_DLY)
    BY Flags
  <2>3. Follows(kernel, make_wait_tmout(kernel, p_runtsk, TS_WAITING_DLY, TRUE))
    BY <2>1, <2>2, BecomeBlocked
  <2> QED BY <1>2, <2>3, DispatchOK DEF dly_tsk
<1>3. CASE ext_tsk
  <2> DEFINE k == IF dspflg THEN kernel ELSE set_dspflg(kernel)
  <2>1. ~sense_context /\ p_runtsk # NULL
    BY <1>3 DEF ext_tsk
  <2>2. KernelOK(k) /\ k.tcb = tcb /\ k.dspflg = TRUE
    <3>1. Queued(kernel) # {}
      BY <2>1, Running
    <3>2. dspflg \in BOOLEAN
      BY DEF KSet
    <3> QED BY <3>1, <3>2, DispatchEnabled
  <2>3. /\ ExitAndDispatch(k)
        /\ enadsp' = TRUE /\ ipmall' = TRUE /\ lock' \in BOOLEAN
        /\ excpt_nest_count' = excpt_nest_count
    BY <1>3 DEF ext_tsk
  <2> HIDE DEF k
  <2>4. SInv'
    BY <2>1, <2>2, <2>3, ExitOK
  <2> QED BY <1>3, <2>4
<1>4. CASE dis_ter
  <2>1. Quiet(kernel, [kernel EXCEPT !.tcb[p_runtsk].enater = FALSE])
    BY <1>4, Running, FlagChange DEF dis_ter, TaskUnlocked
  <2> QED BY <1>4, <2>1, ReturnOK DEF dis_ter
<1>5. CASE ena_ter
  <2>1. ~sense_context /\ p_runtsk # NULL /\ p_runtsk \in Task
    BY <1>5, Running DEF ena_ter, TaskUnlocked
  <2>2. CASE dspflg /\ ExitAndDispatch(kernel)
    <3>1. /\ enadsp' = TRUE /\ ipmall' = TRUE /\ lock' \in BOOLEAN
          /\ excpt_nest_count' = excpt_nest_count
      BY <1>5, <2>2 DEF ena_ter, UnchangedModes, SInv, ModesOK, DspflgOK
    <3>2. kernel.dspflg = TRUE
      BY <2>2 DEF KSet
    <3>3. SInv'
      BY <2>1, <2>2, <3>1, <3>2, ExitOK
    <3>4. Keeps
      BY <2>2 DEF Keeps
    <3> QED BY <3>3, <3>4
  <2>3. CASE Return([kernel EXCEPT !.tcb[p_runtsk].enater = TRUE])
    <3>1. Quiet(kernel, [kernel EXCEPT !.tcb[p_runtsk].enater = TRUE])
      BY <2>1, FlagChange
    <3> QED BY <1>5, <2>3, <3>1, ReturnOK DEF ena_ter
  <2> QED BY <1>5, <2>2, <2>3 DEF ena_ter
<1>6. CASE rot_rdq_self
  <2>1. p_runtsk \in Task /\ tcb[p_runtsk] \in TCB
    BY <1>6, Running DEF rot_rdq_self, TaskUnlocked
  <2>2. tcb[p_runtsk].bpriority \in TPri \cup {NoPri}
    BY <2>1 DEF TCB
  <2>3. Quiet(kernel, [kernel EXCEPT !.tcb[p_runtsk].rotpri = tcb[p_runtsk].bpriority])
    BY <2>1, <2>2, FlagChange
  <2> QED BY <1>6, <2>3, ReturnOK DEF rot_rdq_self
<1>7. CASE rot_rdq_locked
  <2> DEFINE k1 == [kernel EXCEPT !.tcb[p_runtsk].rotpri = NoPri]
  <2>1. p_runtsk \in Task /\ tcb[p_runtsk] \in TCB
    BY <1>7, Running DEF rot_rdq_locked
  <2>2. tcb[p_runtsk].rotpri \in TPri
    BY <1>7, <2>1 DEF rot_rdq_locked, TCB
  <2>3. Quiet(kernel, k1)
    BY <2>1, FlagChange
  <2>4. Dispatch(rotate_ready_queue(k1, tcb[p_runtsk].rotpri)) /\ UnchangedModes
    BY <1>7 DEF rot_rdq_locked
  <2> HIDE DEF k1
  <2>5. Follows(kernel, k1)
    BY <2>3, QuietChange
  <2>6. Follows(k1, rotate_ready_queue(k1, tcb[p_runtsk].rotpri))
    BY <2>2, <2>5, Rotate DEF Follows
  <2>7. Follows(kernel, rotate_ready_queue(k1, tcb[p_runtsk].rotpri))
    BY <2>5, <2>6, FollowsTwice
  <2> QED BY <2>4, <2>7, DispatchOK
<1> QED BY <1>1, <1>2, <1>3, <1>4, <1>5, <1>6, <1>7 DEF SelfAction

(* The end of ena_dsp() and chg_ipm().                                     *)
LEMMA EnableOK ==
  ASSUME SInv, TaskUnlocked, EnableDispatch, enadsp' = TRUE, ipmall' = TRUE,
         UNCHANGED <<lock, excpt_nest_count>>
  PROVE  SInv'
<1> DEFINE k == set_dspflg(kernel)
<1>1. ~sense_context /\ p_runtsk # NULL
  BY DEF TaskUnlocked
<1>2. KernelOK(k) /\ k.tcb = tcb /\ k.dspflg = TRUE
  BY <1>1, Running, Fields, DispatchEnabled
<1>3. lock' \in BOOLEAN
  BY DEF SInv, ModesOK
<1>4. ExitAndDispatch(k) \/ Dispatch(k)
  BY DEF EnableDispatch
<1> HIDE DEF k
<1>5. CASE ExitAndDispatch(k)
  BY <1>1, <1>2, <1>3, <1>5, ExitOK
<1>6. CASE Dispatch(k)
  <2>1. Update(k) /\ p_runtsk' = k.p_schedtsk
    BY <1>1, <1>6 DEF Dispatch
  <2> QED BY <1>2, <1>3, <2>1, SwitchOK
<1> QED BY <1>4, <1>5, <1>6

(* The modes of the processor, and interrupts, keep the invariant.         *)
LEMMA SystemActionOK ==
  ASSUME SInv, SystemAction
  PROVE  SInv'
<1> USE Fields
<1>1. ASSUME NEW pri \in TPri, rot_rdq(pri) PROVE SInv'
  <2>1. Follows(kernel, rotate_ready_queue(kernel, pri))
    BY Rotate
  <2> QED BY <1>1, <2>1, DispatchOK DEF rot_rdq
<1> DEFINE k == [kernel EXCEPT !.dspflg = FALSE]
<1>2. ASSUME TaskUnlocked, Return(k), enadsp' \in BOOLEAN, ipmall' \in BOOLEAN,
             ~(enadsp' /\ ipmall'), UNCHANGED <<lock, excpt_nest_count>>
      PROVE  SInv'
  <2>1. p_runtsk \in Queued(kernel) /\ kernel.p_schedtsk = p_runtsk
    BY <1>2, Running DEF TaskUnlocked
  <2>2. KernelOK(k)
    BY <2>1, DisableDispatch
  <2>3. k.p_schedtsk = p_runtsk /\ k.dspflg = FALSE
    BY <2>1 DEF KSet
  <2> HIDE DEF k
  <2>4. Update(k) /\ p_runtsk' = k.p_schedtsk /\ lock' \in BOOLEAN
    BY <1>2, <2>3 DEF Return, SInv, ModesOK
  <2> QED BY <1>2, <2>2, <2>3, <2>4, SwitchOK
<1>3. CASE dis_dsp
  <2>1. TaskUnlocked /\ Return(k) /\ UNCHANGED <<lock, excpt_nest_count>>
    BY <1>3 DEF dis_dsp
  <2>2. enadsp' = FALSE /\ ipmall' \in BOOLEAN
    BY <1>3 DEF dis_dsp, SInv, ModesOK
  <2> HIDE DEF k
  <2> QED BY <1>2, <2>1, <2>2
<1>4. CASE ena_dsp
  <2>1. CASE ipmall
    BY <1>4, <2>1, EnableOK DEF ena_dsp, SInv, ModesOK
  <2>2. CASE ~ipmall
    <3>1. Update(kernel) /\ p_runtsk' = kernel.p_schedtsk
      BY <1>4, <2>2, Running DEF ena_dsp, Return, TaskUnlocked
    <3>2. kernel.dspflg = FALSE
      BY <2>2 DEF SInv, DspflgOK, KSet
    <3>3. /\ enadsp' = TRUE /\ ipmall' = FALSE /\ lock' \in BOOLEAN
          /\ excpt_nest_count' = excpt_nest_count
      BY <1>4, <2>2 DEF ena_dsp, SInv, ModesOK
    <3> QED BY <3>1, <3>2, <3>3, SwitchOK
  <2> QED BY <2>1, <2>2
<1>5. ASSUME NEW all \in BOOLEAN, chg_ipm(all) PROVE SInv'
  <2>1. TaskUnlocked /\ ipmall' = all /\ enadsp' = enadsp /\ enadsp \in BOOLEAN
        /\ UNCHANGED <<lock, excpt_nest_count>>
    BY <1>5 DEF chg_ipm, SInv, ModesOK
  <2>2. CASE all /\ enadsp
    <3>1. EnableDispatch
      BY <1>5, <2>2 DEF chg_ipm
    <3> QED BY <2>1, <2>2, <3>1, EnableOK
  <2>3. CASE ~(all /\ enadsp)
    <3>1. Return(k)
      BY <1>5, <2>3 DEF chg_ipm
    <3> HIDE DEF k
    <3> QED BY <1>2, <2>1, <2>3, <3>1
  <2> QED BY <2>2, <2>3
<1>6. ASSUME UNCHANGED sched, ModesOK', RunOK', DspflgOK' PROVE SInv'
  <2>1. Update(kernel)
    BY <1>6 DEF sched, Update, kernel
  <2> QED BY <1>6, <2>1, Commit
<1>7. CASE loc_cpu \/ unl_cpu
  <2>1. /\ UNCHANGED <<sched, p_runtsk, enadsp, ipmall, excpt_nest_count>>
        /\ lock' \in BOOLEAN
    BY <1>7 DEF loc_cpu, unl_cpu
  <2>2. ModesOK' /\ RunOK' /\ DspflgOK'
    BY <2>1 DEF SInv, ModesOK, RunOK, DspflgOK, sched
  <2> QED BY <1>6, <2>1, <2>2
<1>8. CASE irq_handler
  <2>1. /\ UNCHANGED <<sched, p_runtsk, enadsp, ipmall, lock>>
        /\ excpt_nest_count' \in 1..MaxNest
    BY <1>8, MaxNestAssumption DEF irq_handler, SInv, ModesOK
  <2>2. ModesOK' /\ RunOK' /\ DspflgOK'
    BY <2>1, MaxNestAssumption DEF SInv, ModesOK, RunOK, DspflgOK, sched
  <2> QED BY <1>6, <2>1, <2>2
<1>9. CASE irq_return
  <2>1. /\ UNCHANGED <<sched, enadsp, ipmall>>
        /\ lock' = FALSE
        /\ p_runtsk' = IF excpt_nest_count = 1 THEN p_schedtsk ELSE p_runtsk
        /\ excpt_nest_count' = excpt_nest_count - 1
        /\ excpt_nest_count \in 1..MaxNest
    BY <1>9, MaxNestAssumption DEF irq_return, SInv, ModesOK, sense_context
  <2>2. p_schedtsk \in Task \cup {NULL}
    BY DEF KSet
  <2>3. ModesOK' /\ RunOK' /\ DspflgOK'
    <3>1. ModesOK'
      <4>1. excpt_nest_count' \in 0..MaxNest
        BY <2>1, MaxNestAssumption
      <4>2. p_runtsk' \in Task \cup {NULL}
        BY <2>1, <2>2 DEF SInv, ModesOK
      <4>3. enadsp' \in BOOLEAN /\ ipmall' \in BOOLEAN /\ lock' \in BOOLEAN
        BY <2>1 DEF SInv, ModesOK
      <4> QED BY <4>1, <4>2, <4>3 DEF ModesOK
    <3>2. excpt_nest_count = 1 \/ excpt_nest_count' # 0
      BY <2>1
    <3>3. RunOK'
      BY <2>1, <3>2 DEF SInv, RunOK, sched
    <3>4. DspflgOK'
      BY <2>1 DEF SInv, DspflgOK, sched
    <3> QED BY <3>1, <3>3, <3>4
  <2> QED BY <1>6, <2>1, <2>3
<1> QED BY <1>1, <1>3, <1>4, <1>5, <1>7, <1>8, <1>9 DEF SystemAction

LEMMA NextSInv == IInv /\ [Next]_vars => SInv'
<1> SUFFICES ASSUME IInv, [Next]_vars PROVE SInv'
  OBVIOUS
<1> SInv
  BY DEF IInv
<1>1. CASE Next
  BY <1>1, TaskActionOK, SelfActionOK, SystemActionOK DEF Next
<1>2. CASE UNCHANGED vars
  <2>1. Update(kernel) /\ ModesOK' /\ RunOK' /\ DspflgOK'
    BY <1>2 DEF SInv, vars, sched, Update, kernel, ModesOK, RunOK, DspflgOK
  <2> QED BY <2>1, Fields, Commit
<1> QED BY <1>1, <1>2

--------------------------------------------------------------------------
(* Requests.  What the helpers and their compositions leave in the TCBs.   *)
LEMMA TcbKept ==
  ASSUME NEW k \in KSet(TCB), NEW t \in Task
  PROVE  /\ make_runnable(k, t).tcb = k.tcb
         /\ make_non_runnable(k, t).tcb = k.tcb
         /\ set_dspflg(k).tcb = k.tcb
         /\ \A pri \in TPri : rotate_ready_queue(k, pri).tcb = k.tcb
<1> QED BY DEF make_runnable, make_non_runnable, set_dspflg, rotate_ready_queue, KSet

LEMMA TcbSet ==
  ASSUME NEW k \in KSet(TCB), NEW t \in Task, NEW x \in TStat
  PROVE  /\ set_tstat(k, t, x) \in KSet(TCB)
         /\ set_tstat(k, t, x).tcb = [k.tcb EXCEPT ![t].tstat = x]
<1>1. [k.tcb EXCEPT ![t].tstat = x] \in [Task -> TCB]
  BY TCBFields DEF KSet
<1> QED BY <1>1 DEF set_tstat, KSet

LEMMA TcbAfterSet ==
  ASSUME NEW k \in KSet(TCB), NEW t \in Task, NEW x \in TStat
  PROVE  /\ make_runnable(set_tstat(k, t, x), t).tcb = [k.tcb EXCEPT ![t].tstat = x]
         /\ make_non_runnable(set_tstat(k, t, x), t).tcb = [k.tcb EXCEPT ![t].tstat = x]
<1> QED BY TcbSet, TcbKept

LEMMA TcbAfterBlock ==
  ASSUME NEW k \in KSet(TCB), NEW t \in Task, NEW x \in TStat, NEW timed
  PROVE  make_wait_tmout(k, t, x, timed).tcb = [k.tcb EXCEPT ![t].tstat = x]
<1> DEFINE k0 == set_tstat(k, t, x)
           k1 == make_non_runnable(k0, t)
<1>1. k0 \in KSet(TCB) /\ k0.tcb = [k.tcb EXCEPT ![t].tstat = x]
  BY TcbSet
<1> HIDE DEF k0
<1>2. k1.tcb = k0.tcb
  BY <1>1, TcbKept
<1>3. [k1 EXCEPT !.tmevtb = @ \cup {t}].tcb = k1.tcb
  BY <1>1 DEF make_non_runnable, KSet
<1>4. make_wait_tmout(k, t, x, timed).tcb = k1.tcb
  BY <1>3 DEF make_wait_tmout, k0
<1> QED BY <1>1, <1>2, <1>4

LEMMA TcbAfterWait ==
  ASSUME NEW k \in KSet(TCB), NEW t \in Task
  PROVE  make_non_wait(set_wercd(wait_dequeue_tmevtb(k, t), t), t).tcb
           = [k.tcb EXCEPT ![t].tstat = IF TSTAT_SUSPENDED(k.tcb[t].tstat)
                                        THEN TS_SUSPENDED ELSE TS_RUNNABLE]
<1>0. SUFFICES make_non_wait(wait_dequeue_tmevtb(k, t), t).tcb
                 = [k.tcb EXCEPT ![t].tstat = IF TSTAT_SUSPENDED(k.tcb[t].tstat)
                                              THEN TS_SUSPENDED ELSE TS_RUNNABLE]
  BY CodeStored
<1> DEFINE k1 == wait_dequeue_tmevtb(k, t)
           k2 == [k1 EXCEPT !.asserted = @ /\ TSTAT_WAITING(k1.tcb[t].tstat)]
<1>1. k1 \in KSet(TCB) /\ k1.tcb = k.tcb
  BY DEF wait_dequeue_tmevtb, KSet
<1> HIDE DEF k1
<1>2. k2 \in KSet(TCB) /\ k2.tcb = k.tcb
  BY <1>1 DEF KSet
<1>3. make_non_wait(k1, t) = IF TSTAT_SUSPENDED(k.tcb[t].tstat)
                             THEN set_tstat(k2, t, TS_SUSPENDED)
                             ELSE make_runnable(set_tstat(k2, t, TS_RUNNABLE), t)
  BY <1>1 DEF make_non_wait
<1> HIDE DEF k2
<1>4. TS_SUSPENDED \in TStat /\ TS_RUNNABLE \in TStat
  BY Flags
<1>5. /\ set_tstat(k2, t, TS_SUSPENDED).tcb = [k2.tcb EXCEPT ![t].tstat = TS_SUSPENDED]
      /\ make_runnable(set_tstat(k2, t, TS_RUNNABLE), t).tcb
           = [k2.tcb EXCEPT ![t].tstat = TS_RUNNABLE]
  <2>1. k2 \in KSet(TCB)
    BY <1>2
  <2>2. set_tstat(k2, t, TS_SUSPENDED).tcb = [k2.tcb EXCEPT ![t].tstat = TS_SUSPENDED]
    BY <1>4, <2>1, TcbSet
  <2>3. make_runnable(set_tstat(k2, t, TS_RUNNABLE), t).tcb
          = [k2.tcb EXCEPT ![t].tstat = TS_RUNNABLE]
    BY <1>4, <2>1, TcbAfterSet
  <2> QED BY <2>2, <2>3
<1> QED BY <1>2, <1>3, <1>5 DEF k1

LEMMA TcbAfterPriority ==
  ASSUME NEW k \in KSet(TCB), NEW t \in Task, NEW pri \in TPri, NEW mtxmode
  PROVE  change_priority(k, t, pri, mtxmode).tcb = [k.tcb EXCEPT ![t].priority = pri]
<1> DEFINE k1 == [k EXCEPT !.tcb[t].priority = pri]
<1>1. k1.tcb = [k.tcb EXCEPT ![t].priority = pri]
  BY DEF KSet
<1>2. DOMAIN k1 = DOMAIN k /\ "tcb" \in DOMAIN k
  BY DEF KSet
<1> HIDE DEF k1
<1>3. \A old : requeue(k1, t, old, pri, mtxmode).tcb = k1.tcb
  BY <1>2 DEF requeue, KSet
<1> QED BY <1>1, <1>3 DEF change_priority, k1

LEMMA TcbAfterTerminate ==
  ASSUME NEW k \in KSet(TCB), NEW t \in Task
  PROVE  task_terminate(k, t).tcb
           = [k.tcb EXCEPT ![t] = IF @.actque
                THEN [DormantTCB(@) EXCEPT !.actque = FALSE, !.tstat = TS_RUNNABLE]
                ELSE DormantTCB(@)]
<1> DEFINE x  == k.tcb[t].tstat
           k1 == IF TSTAT_RUNNABLE(x) THEN make_non_runnable(k, t)
                 ELSE IF TSTAT_WAITING(x) THEN wait_dequeue_tmevtb(k, t)
                 ELSE k
           d  == DormantTCB(k.tcb[t])
           k2 == make_dormant(k1, t)
           k3 == [k2 EXCEPT !.tcb[t].actque = FALSE]
<1>1. k1.tcb = k.tcb /\ "tcb" \in DOMAIN k1
  BY DEF make_non_runnable, wait_dequeue_tmevtb, KSet
<1> HIDE DEF k1
<1>2. /\ k2.tcb = [k.tcb EXCEPT ![t] = d] /\ "tcb" \in DOMAIN k2
      /\ k2.tcb[t].actque = k.tcb[t].actque
  <2>1. k.tcb \in [Task -> TCB]
    BY DEF KSet
  <2>2. d.actque = k.tcb[t].actque
    BY <2>1 DEF DormantTCB, TCB
  <2> QED BY <1>1, <2>1, <2>2 DEF make_dormant
<1> HIDE DEF d
<1>3. task_terminate(k, t) = IF k2.tcb[t].actque THEN make_active(k3, t) ELSE k2
  BY DEF task_terminate, k1
<1> HIDE DEF k2
<1>4. CASE ~k.tcb[t].actque
  BY <1>2, <1>3, <1>4 DEF d, KSet
<1>5. CASE k.tcb[t].actque
  <2>1. k3.tcb = [k2.tcb EXCEPT ![t].actque = FALSE] /\ "tcb" \in DOMAIN k3
    BY <1>2
  <2> HIDE DEF k3
  <2>2. set_tstat(k3, t, TS_RUNNABLE).tcb = [k3.tcb EXCEPT ![t].tstat = TS_RUNNABLE]
        /\ "tcb" \in DOMAIN set_tstat(k3, t, TS_RUNNABLE)
    BY <2>1 DEF set_tstat
  <2>3. make_active(k3, t).tcb = [k3.tcb EXCEPT ![t].tstat = TS_RUNNABLE]
    BY <2>2 DEF make_active, make_runnable
  <2>4. [k3.tcb EXCEPT ![t].tstat = TS_RUNNABLE]
          = [k.tcb EXCEPT ![t] = [d EXCEPT !.actque = FALSE, !.tstat = TS_RUNNABLE]]
    BY <1>2, <2>1 DEF KSet
  <2> QED BY <1>2, <1>3, <1>5, <2>3, <2>4 DEF d, KSet
<1> QED BY <1>4, <1>5

(* TaskOK() of a TCB in which one field changes.                           *)
LEMMA RequestFields ==
  ASSUME NEW r \in TCB, NEW f \in BOOLEAN, TaskOK(r, f)
  PROVE  /\ TaskOK([r EXCEPT !.actque = FALSE], f)
         /\ ~TSTAT_DORMANT(r.tstat) => TaskOK([r EXCEPT !.actque = TRUE], f)
         /\ TaskOK([r EXCEPT !.wupque = FALSE], f)
         /\ ~TSTAT_DORMANT(r.tstat) /\ ~TSTAT_WAIT_SLP(r.tstat)
              => TaskOK([r EXCEPT !.wupque = TRUE], f)
         /\ TSTAT_DORMANT(r.tstat) => TaskOK([r EXCEPT !.exists = FALSE], f)
         /\ TSTAT_RUNNABLE(r.tstat) /\ ~r.enater => TaskOK([r EXCEPT !.raster = TRUE], f)
         /\ TaskOK([r EXCEPT !.enater = FALSE], f)
         /\ ~(r.raster /\ ~f) => TaskOK([r EXCEPT !.enater = TRUE], f)
         /\ \A n \in TPri \cup {NoPri} : TaskOK([r EXCEPT !.rotpri = n], f)
         /\ \A p \in TPri : TaskOK([r EXCEPT !.bpriority = p, !.priority = p], f)
         /\ \A x \in TStat :
              /\ x # TS_DORMANT /\ ~TSTAT_DORMANT(r.tstat)
              /\ r.wupque => ~TSTAT_WAIT_SLP(x)
              /\ r.raster => TSTAT_RUNNABLE(x)
              => TaskOK([r EXCEPT !.tstat = x], f)
<1> QED BY DEF TaskOK, TCB, TSTAT_DORMANT

(* A task that ends, and perhaps starts again, has no request left.        *)
LEMMA RequestsEnd ==
  ASSUME NEW r \in TCB, r.exists
  PROVE  /\ ~r.actque => TaskOK(DormantTCB(r), FALSE)
         /\ TaskOK([DormantTCB(r) EXCEPT !.actque = FALSE, !.tstat = TS_RUNNABLE], FALSE)
<1>1. ~TSTAT_WAIT_SLP(TS_DORMANT) /\ TSTAT_DORMANT(TS_DORMANT)
  BY DEF TSTAT_WAIT_SLP, TSTAT_DORMANT, TS_DORMANT
<1> QED BY <1>1 DEF TaskOK, TCB, DormantTCB

(* A task that is created, or made ready without having run, has none.     *)
LEMMA RequestsNone ==
  ASSUME NEW r \in TCB, ~r.actque, ~r.wupque, ~r.raster,
         NEW x \in TStat, r.exists \/ x = TS_DORMANT
  PROVE  TaskOK([r EXCEPT !.tstat = x], FALSE)
<1> QED BY DEF TaskOK, TCB, TSTAT_DORMANT

LEMMA CreatedNone ==
  ASSUME NEW p \in TPri
  PROVE  /\ CreatedTCB(p).actque = FALSE /\ CreatedTCB(p).wupque = FALSE
         /\ CreatedTCB(p).raster = FALSE /\ CreatedTCB(p).exists = TRUE
         /\ NoTCB.actque = FALSE /\ NoTCB.wupque = FALSE /\ NoTCB.raster = FALSE
<1> QED BY DEF CreatedTCB, DormantTCB, NoTCB

LEMMA InitIInv == Init => IInv
<1> SUFFICES ASSUME Init PROVE IInv
  OBVIOUS
<1>1. ASSUME NEW t \in Task PROVE TaskOK(tcb[t], Fixed(t))
  <2> DEFINE c == IF t \in Static THEN CreatedTCB(itskpri[t]) ELSE NoTCB
             x == IF t \in ACT THEN TS_RUNNABLE ELSE TS_DORMANT
  <2>1. tcb[t] = [c EXCEPT !.tstat = x]
    BY DEF Init
  <2>2. c \in TCB /\ ~c.actque /\ ~c.wupque /\ ~c.raster
    <3>1. CASE t \in Static
      <4> DEFINE p == itskpri[t]
      <4>1. p \in TPri /\ c = CreatedTCB(p)
        BY <3>1, itskpriAssumption
      <4> HIDE DEF p, c
      <4> QED BY <4>1, Created, CreatedNone
    <3>2. CASE t \notin Static
      <4>1. 0 \in TPri /\ c = NoTCB
        BY <3>2, TNUM_TPRIAssumption DEF TPri
      <4> HIDE DEF c
      <4> QED BY <4>1, Created, CreatedNone
    <3> QED BY <3>1, <3>2
  <2>3. x \in TStat
    BY Flags
  <2>4. c.exists \/ x = TS_DORMANT
    BY CreatedNone, itskpriAssumption, ACTAssumption
  <2> HIDE DEF c, x
  <2>5. TaskOK(tcb[t], FALSE)
    BY <2>1, <2>2, <2>3, <2>4, RequestsNone
  <2> QED BY <2>5 DEF TaskOK
<1> QED BY <1>1, InitSInv DEF IInv, TasksOK

(* A step replaces one TCB: of a task that may run with dispatching        *)
(* disabled, and stays so, or of one that has ended.                       *)
LEMMA PutOne ==
  ASSUME IInv, NEW t \in Task, NEW r, tcb' = [tcb EXCEPT ![t] = r],
         \/ TaskOK(r, Fixed(t)) /\ Keeps
         \/ TaskOK(r, FALSE) /\ (Keeps \/ t = p_runtsk)
  PROVE  TasksOK'
<1>1. ASSUME NEW u \in Task PROVE TaskOK(tcb[u], Fixed(u))'
  <2>1. tcb'[u] = IF u = t THEN r ELSE tcb[u]
    BY Fields DEF IInv
  <2>2. Fixed(u) /\ (Keeps \/ u # p_runtsk) => Fixed(u)'
    BY DEF Fixed, Keeps
  <2>3. TaskOK(tcb[u], Fixed(u))
    BY DEF IInv, TasksOK
  <2>4. Fixed(u) => u = p_runtsk
    BY DEF Fixed
  <2> QED BY <2>1, <2>2, <2>3, <2>4 DEF TaskOK
<1> QED BY <1>1 DEF TasksOK

(* The services that name a task keep the requests right.                  *)
LEMMA TaskRequestsOK ==
  ASSUME IInv, NEW t \in Task, TaskAction(t)
  PROVE  TasksOK'
<1> DEFINE r == tcb[t]
           x == r.tstat
<1>0. /\ SInv /\ Keeps
      /\ r \in TCB /\ x \in TStat /\ Fixed(t) \in BOOLEAN
      /\ TaskOK(r, Fixed(t))
      /\ kernel \in KSet(TCB) /\ kernel.tcb = tcb
  BY TaskActionOK, Fields DEF IInv, TasksOK, Fixed
<1>a. ASSUME NEW k, Dispatch(k) \/ Return(k), NEW d,
             k.tcb = [tcb EXCEPT ![t] = d], TaskOK(d, Fixed(t)) \/ TaskOK(d, FALSE)
      PROVE  TasksOK'
  <2>1. tcb' = [tcb EXCEPT ![t] = d]
    BY <1>a DEF Dispatch, Return, Update
  <2> QED BY <1>0, <1>a, <2>1, PutOne
<1>b. ASSUME NEW y \in TStat, NEW k, Dispatch(k) \/ Return(k),
             k.tcb = [tcb EXCEPT ![t].tstat = y],
             y # TS_DORMANT, ~TSTAT_DORMANT(x),
             r.wupque => ~TSTAT_WAIT_SLP(y), r.raster => TSTAT_RUNNABLE(y)
      PROVE  TasksOK'
  <2> DEFINE d == [r EXCEPT !.tstat = y]
  <2>1. TaskOK(d, Fixed(t))
    BY <1>0, <1>b, RequestFields
  <2>2. k.tcb = [tcb EXCEPT ![t] = d]
    BY <1>b
  <2> HIDE DEF d
  <2> QED BY <1>a, <1>b, <2>1, <2>2
<1>c. /\ TS_RUNNABLE \in TStat /\ TS_SUSPENDED \in TStat /\ TRUE \in BOOLEAN
      /\ TS_RUNNABLE # TS_DORMANT /\ TS_SUSPENDED # TS_DORMANT
      /\ ~TSTAT_WAIT_SLP(TS_RUNNABLE) /\ ~TSTAT_WAIT_SLP(TS_SUSPENDED)
      /\ TSTAT_RUNNABLE(TS_RUNNABLE)
  BY Flags DEF TS_RUNNABLE, TS_SUSPENDED, TS_DORMANT, TSTAT_WAIT_SLP, TSTAT_RUNNABLE
<1>d. r.raster => ~Waiting(t) /\ ~Suspended(t) /\ ~Dormant(t)
  BY <1>0, Flags DEF TaskOK, Waiting, Suspended, Dormant
<1>e. /\ Waiting(t) => ~Dormant(t)
      /\ Runnable(t) => ~Dormant(t)
      /\ TSTAT_WAIT_SLP(x) => Waiting(t)
  BY <1>0, Flags DEF Waiting, Dormant, Runnable
<1>f. ASSUME NEW k, Dispatch(k), k = task_terminate(kernel, t), ~Dormant(t)
      PROVE  TasksOK'
  <2> DEFINE d == [DormantTCB(r) EXCEPT !.actque = FALSE, !.tstat = TS_RUNNABLE]
  <2>1. k.tcb = [tcb EXCEPT ![t] = IF r.actque THEN d ELSE DormantTCB(r)]
    BY <1>0, <1>f, TcbAfterTerminate
  <2>2. TaskOK(IF r.actque THEN d ELSE DormantTCB(r), FALSE)
    BY <1>0, <1>f, RequestsEnd DEF TaskOK, Dormant
  <2> HIDE DEF d
  <2> QED BY <1>a, <1>f, <2>1, <2>2
<1>g. ASSUME NEW k, Dispatch(k), Waiting(t),
             k = make_non_wait(set_wercd(wait_dequeue_tmevtb(kernel, t), t), t)
      PROVE  TasksOK'
  <2> DEFINE y == IF TSTAT_SUSPENDED(x) THEN TS_SUSPENDED ELSE TS_RUNNABLE
  <2>1. k.tcb = [tcb EXCEPT ![t].tstat = y]
    BY <1>0, <1>g, TcbAfterWait
  <2>2. y \in TStat /\ y # TS_DORMANT /\ ~TSTAT_WAIT_SLP(y) /\ ~r.raster
        /\ ~TSTAT_DORMANT(x)
    BY <1>c, <1>d, <1>e, <1>g, Flags DEF Dormant
  <2> HIDE DEF y
  <2> QED BY <1>b, <1>g, <2>1, <2>2
<1>1. CASE act_tsk(t)
  <2>1. CASE Dormant(t) /\ Exists(t) /\ Dispatch(make_active(kernel, t))
    <3>1. make_active(kernel, t).tcb = [tcb EXCEPT ![t] = [r EXCEPT !.tstat = TS_RUNNABLE]]
      BY <1>0, <1>c, TcbAfterSet DEF make_active
    <3>2. ~r.actque /\ ~r.wupque /\ ~r.raster /\ r.exists
      BY <1>0, <1>d, <2>1 DEF TaskOK, Dormant, Exists
    <3>3. TaskOK([r EXCEPT !.tstat = TS_RUNNABLE], FALSE)
      BY <1>0, <3>2, Flags, RequestsNone
    <3> QED BY <1>a, <2>1, <3>1, <3>3
  <2>2. CASE ~Dormant(t) /\ Return([kernel EXCEPT !.tcb[t].actque = TRUE])
    <3>1. [kernel EXCEPT !.tcb[t].actque = TRUE].tcb
            = [tcb EXCEPT ![t] = [r EXCEPT !.actque = TRUE]]
      BY <1>0 DEF KSet
    <3>2. TaskOK([r EXCEPT !.actque = TRUE], Fixed(t))
      BY <1>0, <2>2, RequestFields DEF Dormant
    <3> QED BY <1>a, <2>2, <3>1, <3>2
  <2> QED BY <1>1, <2>1, <2>2 DEF act_tsk
<1>2. CASE can_act(t)
  <2>1. [kernel EXCEPT !.tcb[t].actque = FALSE].tcb
          = [tcb EXCEPT ![t] = [r EXCEPT !.actque = FALSE]]
    BY <1>0 DEF KSet
  <2>2. TaskOK([r EXCEPT !.actque = FALSE], Fixed(t))
    BY <1>0, RequestFields
  <2>3. Return([kernel EXCEPT !.tcb[t].actque = FALSE])
    BY <1>2 DEF can_act
  <2> QED BY <1>a, <2>1, <2>2, <2>3
<1>3. CASE wup_tsk(t)
  <2>1. CASE TSTAT_WAIT_SLP(x) /\ Dispatch(wait_complete(kernel, t))
    BY <1>e, <1>g, <2>1 DEF wait_complete
  <2>2. CASE /\ ~Dormant(t) /\ ~TSTAT_WAIT_SLP(x)
             /\ Return([kernel EXCEPT !.tcb[t].wupque = TRUE])
    <3>1. [kernel EXCEPT !.tcb[t].wupque = TRUE].tcb
            = [tcb EXCEPT ![t] = [r EXCEPT !.wupque = TRUE]]
      BY <1>0 DEF KSet
    <3>2. TaskOK([r EXCEPT !.wupque = TRUE], Fixed(t))
      BY <1>0, <2>2, RequestFields DEF Dormant
    <3> QED BY <1>a, <2>2, <3>1, <3>2
  <2> QED BY <1>3, <2>1, <2>2 DEF wup_tsk
<1>4. CASE can_wup(t)
  <2>1. [kernel EXCEPT !.tcb[t].wupque = FALSE].tcb
          = [tcb EXCEPT ![t] = [r EXCEPT !.wupque = FALSE]]
    BY <1>0 DEF KSet
  <2>2. TaskOK([r EXCEPT !.wupque = FALSE], Fixed(t))
    BY <1>0, RequestFields
  <2>3. Return([kernel EXCEPT !.tcb[t].wupque = FALSE])
    BY <1>4 DEF can_wup
  <2> QED BY <1>a, <2>1, <2>2, <2>3
<1>5. CASE rel_wai(t)
  BY <1>5, <1>g DEF rel_wai
<1>6. CASE sus_tsk(t)
  <2>1. CASE /\ Runnable(t)
             /\ Dispatch(make_non_runnable(set_tstat(kernel, t, TS_SUSPENDED), t))
    <3>1. make_non_runnable(set_tstat(kernel, t, TS_SUSPENDED), t).tcb
            = [tcb EXCEPT ![t].tstat = TS_SUSPENDED]
      BY <1>0, <1>c, TcbAfterSet
    <3>2. ~r.raster /\ ~TSTAT_DORMANT(x)
      BY <1>6 DEF sus_tsk, Dormant
    <3> QED BY <1>b, <1>c, <2>1, <3>1, <3>2, Flags
  <2>2. CASE /\ ~Runnable(t)
             /\ Return(set_tstat(kernel, t, x \cup TS_SUSPENDED))
    <3>1. ~r.raster /\ ~TSTAT_DORMANT(x) /\ TSTAT_WAITING(x)
      BY <1>0, <1>6, <2>2, Flags DEF sus_tsk, Dormant, Suspended, Runnable
    <3>2. x \cup TS_SUSPENDED \in TStat /\ TSTAT_WAITING(x \cup TS_SUSPENDED)
      BY <1>0, <3>1, DoubleWait
    <3>3. /\ x \cup TS_SUSPENDED # TS_DORMANT
          /\ TSTAT_WAIT_SLP(x \cup TS_SUSPENDED) => TSTAT_WAIT_SLP(x)
      BY DEF TS_SUSPENDED, TS_DORMANT, TSTAT_WAIT_SLP
    <3>4. set_tstat(kernel, t, x \cup TS_SUSPENDED).tcb
            = [tcb EXCEPT ![t].tstat = x \cup TS_SUSPENDED]
      BY <1>0 DEF set_tstat, KSet
    <3>5. r.wupque => ~TSTAT_WAIT_SLP(x)
      BY <1>0 DEF TaskOK
    <3> QED BY <1>b, <2>2, <3>1, <3>2, <3>3, <3>4, <3>5
  <2> QED BY <1>6, <2>1, <2>2 DEF sus_tsk
<1>7. CASE rsm_tsk(t)
  <2>0. ~r.raster /\ ~TSTAT_DORMANT(x)
    BY <1>d, <1>7 DEF rsm_tsk, Suspended, TSTAT_SUSPENDED, TSTAT_DORMANT, TS_DORMANT
  <2>1. CASE Dispatch(make_runnable(set_tstat(kernel, t, TS_RUNNABLE), t))
    <3>1. make_runnable(set_tstat(kernel, t, TS_RUNNABLE), t).tcb
            = [tcb EXCEPT ![t].tstat = TS_RUNNABLE]
      BY <1>0, <1>c, TcbAfterSet
    <3> QED BY <1>b, <1>c, <2>0, <2>1, <3>1, Flags
  <2>2. CASE Waiting(t) /\ Return(set_tstat(kernel, t, x \ TS_SUSPENDED))
    <3>1. TSTAT_WAITING(x)
      BY <2>2 DEF Waiting
    <3>2. x \ TS_SUSPENDED \in TStat /\ TSTAT_WAITING(x \ TS_SUSPENDED)
      BY <1>0, <3>1, DoubleWait
    <3>3. /\ x \ TS_SUSPENDED # TS_DORMANT
          /\ TSTAT_WAIT_SLP(x \ TS_SUSPENDED) => TSTAT_WAIT_SLP(x)
      BY <3>2, Flags DEF TSTAT_WAIT_SLP, TSTAT_DORMANT
    <3>4. set_tstat(kernel, t, x \ TS_SUSPENDED).tcb
            = [tcb EXCEPT ![t].tstat = x \ TS_SUSPENDED]
      BY <1>0 DEF set_tstat, KSet
    <3>5. r.wupque => ~TSTAT_WAIT_SLP(x)
      BY <1>0 DEF TaskOK
    <3> QED BY <1>b, <2>0, <2>2, <3>2, <3>3, <3>4, <3>5
  <2> QED BY <1>7, <2>1, <2>2 DEF rsm_tsk
<1>8. CASE ter_tsk(t)
  BY <1>8, <1>f DEF ter_tsk
<1>9. CASE wait_tmout(t)
  BY <1>0, <1>9, <1>g, Fields DEF wait_tmout
<1>10. ASSUME NEW pri \in TPri, chg_pri(t, pri) PROVE TasksOK'
  <2> DEFINE mtxmode == FALSE
             k0 == [kernel EXCEPT !.tcb[t].bpriority = pri]
             k == change_priority(k0, t, pri, mtxmode)
             d == [r EXCEPT !.bpriority = pri, !.priority = pri]
  <2>1. Dispatch(k)
    BY <1>10 DEF chg_pri
  <2> HIDE DEF mtxmode
  <2>2. k.tcb = [tcb EXCEPT ![t] = d]
    <3> DEFINE e == [r EXCEPT !.bpriority = pri]
    <3>1. e \in TCB
      BY <1>0, TCBFields
    <3>2. k0 = [kernel EXCEPT !.tcb = [tcb EXCEPT ![t] = e]]
      BY <1>0
    <3> HIDE DEF e, k0
    <3>3. k0 \in KSet(TCB) /\ k0.tcb = [tcb EXCEPT ![t] = e]
      BY <1>0, <3>1, <3>2 DEF KSet
    <3>4. k.tcb = [k0.tcb EXCEPT ![t].priority = pri]
      <4>1. pri \in TPri /\ k0 \in KSet(TCB) /\ t \in Task
        BY <1>10, <3>3
      <4> HIDE DEF r, x, d
      <4>2. \A m : change_priority(k0, t, pri, m).tcb = [k0.tcb EXCEPT ![t].priority = pri]
        BY <4>1, TcbAfterPriority
      <4> QED BY <4>2
    <3>5. [k0.tcb EXCEPT ![t].priority = pri] = [tcb EXCEPT ![t] = [e EXCEPT !.priority = pri]]
      BY <1>0, <3>3 DEF KSet
    <3> QED BY <3>4, <3>5 DEF e
  <2>3. TaskOK(d, Fixed(t))
    BY <1>0, RequestFields
  <2> HIDE DEF k, d
  <2> QED BY <1>a, <2>1, <2>2, <2>3
<1>11. CASE ras_ter(t)
  <2> DEFINE k1 == [kernel EXCEPT !.tcb[t].raster = TRUE]
             k2 == IF Waiting(t) THEN set_wercd(wait_dequeue_tmevtb(k1, t), t)
                   ELSE k1
             d  == [r EXCEPT !.raster = TRUE]
  <2>0. ~TSTAT_DORMANT(x) /\ r.exists
    BY <1>0, <1>11 DEF ras_ter, Dormant, Exists
  <2>1. CASE Dispatch(task_terminate(kernel, t))
    BY <1>f, <2>0, <2>1 DEF Dormant
  <2>2. k1.tcb = [tcb EXCEPT ![t] = d] /\ k1 \in KSet(TCB) /\ d \in TCB
    <3>1. d \in TCB
      BY <1>0, TCBFields
    <3>2. Quiet(kernel, k1)
      BY <1>0, FlagChange
    <3>3. k1.tcb = [tcb EXCEPT ![t] = d]
      BY <1>0 DEF KSet
    <3> QED BY <3>1, <3>2, <3>3 DEF Quiet
  <2>3. CASE ~r.enater /\ Runnable(t) /\ Return(k1)
    <3>1. TaskOK(d, Fixed(t))
      BY <1>0, <2>3, RequestFields DEF Runnable
    <3> HIDE DEF d, k1
    <3> QED BY <1>a, <2>2, <2>3, <3>1
  <2>4. CASE ~r.enater /\ Dispatch(make_runnable(set_tstat(k2, t, TS_RUNNABLE), t))
    <3> DEFINE e == [d EXCEPT !.tstat = TS_RUNNABLE]
    <3> HIDE DEF d, k1
    <3>1. k2.tcb = k1.tcb /\ k2 \in KSet(TCB)
      <4>1. k2 = IF Waiting(t) THEN wait_dequeue_tmevtb(k1, t) ELSE k1
        BY <2>2, CodeStored
      <4>2. /\ wait_dequeue_tmevtb(k1, t).tcb = k1.tcb
            /\ wait_dequeue_tmevtb(k1, t) \in KSet(TCB)
        BY <2>2 DEF wait_dequeue_tmevtb, KSet
      <4> QED BY <2>2, <4>1, <4>2
    <3> HIDE DEF k2
    <3>2. make_runnable(set_tstat(k2, t, TS_RUNNABLE), t).tcb
            = [k2.tcb EXCEPT ![t].tstat = TS_RUNNABLE]
      <4>1. k2 \in KSet(TCB) /\ TS_RUNNABLE \in TStat
        BY <1>c, <3>1
      <4> QED BY <4>1, TcbAfterSet
    <3>3. [k2.tcb EXCEPT ![t].tstat = TS_RUNNABLE] = [tcb EXCEPT ![t] = e]
      BY <1>0, <2>2, <3>1 DEF KSet
    <3>4. TaskOK(e, FALSE)
      <4>1. /\ e.tstat = TS_RUNNABLE /\ e.enater = FALSE /\ e.exists = TRUE
        BY <1>0, <2>0, <2>2, <2>4 DEF TCB, d
      <4> QED BY <1>c, <4>1 DEF TaskOK, TSTAT_DORMANT
    <3> HIDE DEF e
    <3> QED BY <1>a, <2>4, <3>2, <3>3, <3>4
  <2> HIDE DEF k1, k2
  <2> QED BY <1>11, <2>1, <2>3, <2>4 DEF ras_ter, k1, k2
<1>12. ASSUME NEW pri \in TPri, NEW tskatr \in SUBSET {"ACT"}, acre_tsk(t, pri, tskatr)
       PROVE  TasksOK'
  <2> DEFINE d  == CreatedTCB(pri)
             k1 == [kernel EXCEPT !.tcb[t] = d]
  <2>1. d \in TCB /\ ~d.actque /\ ~d.wupque /\ ~d.raster /\ d.exists
        /\ d.tstat = TS_DORMANT
    BY Created, CreatedNone
  <2>2. Dispatch(make_active(k1, t)) \/ Return(k1)
    BY <1>12 DEF acre_tsk
  <2> HIDE DEF d
  <2>3. k1.tcb = [tcb EXCEPT ![t] = d] /\ k1 \in KSet(TCB)
    BY <1>0, <2>1 DEF KSet
  <2> HIDE DEF k1
  <2>4. CASE Dispatch(make_active(k1, t))
    <3>1. make_active(k1, t).tcb = [k1.tcb EXCEPT ![t].tstat = TS_RUNNABLE]
      <4>1. k1 \in KSet(TCB) /\ TS_RUNNABLE \in TStat
        BY <1>c, <2>3
      <4> QED BY <4>1, TcbAfterSet DEF make_active
    <3>2. [k1.tcb EXCEPT ![t].tstat = TS_RUNNABLE]
            = [tcb EXCEPT ![t] = [d EXCEPT !.tstat = TS_RUNNABLE]]
      BY <1>0, <2>3 DEF KSet
    <3>3. TaskOK([d EXCEPT !.tstat = TS_RUNNABLE], FALSE)
      BY <2>1, Flags, RequestsNone
    <3> QED BY <1>a, <2>4, <3>1, <3>2, <3>3
  <2>5. CASE Return(k1)
    <3>1. TaskOK(d, FALSE)
      BY <2>1 DEF TaskOK, TSTAT_DORMANT
    <3> QED BY <1>a, <2>3, <2>5, <3>1
  <2> QED BY <2>2, <2>4, <2>5
<1>13. CASE del_tsk(t)
  <2>1. [kernel EXCEPT !.tcb[t].exists = FALSE].tcb
          = [tcb EXCEPT ![t] = [r EXCEPT !.exists = FALSE]]
    BY <1>0 DEF KSet
  <2>2. TaskOK([r EXCEPT !.exists = FALSE], Fixed(t))
    BY <1>0, <1>13, RequestFields DEF del_tsk, Dormant
  <2>3. Return([kernel EXCEPT !.tcb[t].exists = FALSE])
    BY <1>13 DEF del_tsk
  <2> QED BY <1>a, <2>1, <2>2, <2>3
<1> QED BY <1>1, <1>2, <1>3, <1>4, <1>5, <1>6, <1>7, <1>8, <1>9, <1>10, <1>11, <1>12, <1>13
        DEF TaskAction

(* The running task ends.                                                  *)
LEMMA ExitRequestsOK ==
  ASSUME IInv, p_runtsk \in Task, tcb[p_runtsk].exists,
         NEW k \in KSet(TCB), k.tcb = tcb, ExitAndDispatch(k)
  PROVE  TasksOK'
<1> DEFINE t == p_runtsk
           r == tcb[t]
           d == IF r.actque
                THEN [DormantTCB(r) EXCEPT !.actque = FALSE, !.tstat = TS_RUNNABLE]
                ELSE DormantTCB(r)
<1>1. t \in Task /\ r \in TCB
  BY Fields DEF IInv
<1>2. tcb' = task_terminate(k, t).tcb
  BY DEF ExitAndDispatch, Update
<1> HIDE DEF t
<1>3. tcb' = [tcb EXCEPT ![t] = d]
  BY <1>1, <1>2, TcbAfterTerminate
<1>4. TaskOK(d, FALSE)
  BY <1>1, RequestsEnd DEF t
<1> HIDE DEF d
<1> QED BY <1>1, <1>3, <1>4, PutOne DEF t

(* The services that act on the calling task keep them right.              *)
LEMMA SelfRequestsOK ==
  ASSUME IInv, SelfAction
  PROVE  TasksOK'
<1> DEFINE t == p_runtsk
           r == tcb[t]
<1>0. /\ SInv /\ (ext_tsk \/ Keeps)
      /\ kernel \in KSet(TCB) /\ kernel.tcb = tcb
  BY SelfActionOK, Fields DEF IInv
<1>1. /\ t \in Task /\ r \in TCB /\ Fixed(t) \in BOOLEAN
      /\ TaskOK(r, Fixed(t)) /\ TSTAT_RUNNABLE(r.tstat) /\ ~TSTAT_DORMANT(r.tstat)
      /\ r.exists
  <2>1. ~sense_context /\ p_runtsk # NULL
    BY DEF SelfAction, slp_tsk, dly_tsk, ext_tsk, dis_ter, ena_ter, rot_rdq_self,
           rot_rdq_locked, TaskUnlocked
  <2>2. /\ t \in Task /\ r \in TCB /\ TSTAT_RUNNABLE(r.tstat) /\ ~TSTAT_DORMANT(r.tstat)
    BY <1>0, <2>1, Running DEF Queued
  <2> QED BY <2>2 DEF IInv, TasksOK, TaskOK, Fixed
<1> HIDE DEF t
<1>a. ASSUME NEW k, Dispatch(k) \/ Return(k), Keeps, NEW d,
             k.tcb = [tcb EXCEPT ![t] = d], TaskOK(d, Fixed(t))
      PROVE  TasksOK'
  <2>1. tcb' = [tcb EXCEPT ![t] = d]
    BY <1>a DEF Dispatch, Return, Update
  <2> QED BY <1>1, <1>a, <2>1, PutOne
<1>b. ASSUME NEW k \in KSet(TCB), k.tcb = tcb, ExitAndDispatch(k) PROVE TasksOK'
  BY <1>1, <1>b, ExitRequestsOK DEF t
<1>2. ASSUME NEW timed \in BOOLEAN, slp_tsk(timed) PROVE TasksOK'
  <2>1. Keeps \/ ext_tsk
    BY <1>0
  <2>2. CASE Return([kernel EXCEPT !.tcb[t].wupque = FALSE])
    <3>1. [kernel EXCEPT !.tcb[t].wupque = FALSE].tcb
            = [tcb EXCEPT ![t] = [r EXCEPT !.wupque = FALSE]]
      BY <1>0 DEF KSet
    <3>2. TaskOK([r EXCEPT !.wupque = FALSE], Fixed(t))
      BY <1>1, RequestFields
    <3>3. Keeps
      BY <1>2 DEF Keeps, slp_tsk
    <3> QED BY <1>a, <2>2, <3>1, <3>2, <3>3
  <2>3. CASE ~r.wupque /\ Dispatch(make_wait_tmout(kernel, t, TS_WAITING_SLP, timed))
    <3>1. TS_WAITING_SLP \in TStat /\ TS_WAITING_SLP # TS_DORMANT
      BY Flags DEF TS_WAITING_SLP, TS_DORMANT
    <3>2. make_wait_tmout(kernel, t, TS_WAITING_SLP, timed).tcb
            = [tcb EXCEPT ![t] = [r EXCEPT !.tstat = TS_WAITING_SLP]]
      BY <1>0, <1>1, <3>1, TcbAfterBlock
    <3>3. ~r.raster
      BY <1>2 DEF slp_tsk, t
    <3>4. TaskOK([r EXCEPT !.tstat = TS_WAITING_SLP], Fixed(t))
      BY <1>1, <2>3, <3>1, <3>3, RequestFields
    <3>5. Keeps
      BY <1>2 DEF Keeps, slp_tsk
    <3> QED BY <1>a, <2>3, <3>2, <3>4, <3>5
  <2> QED BY <1>2, <2>2, <2>3 DEF slp_tsk, t
<1>3. CASE dly_tsk
  <2>1. TS_WAITING_DLY \in TStat /\ TS_WAITING_DLY # TS_DORMANT
        /\ ~TSTAT_WAIT_SLP(TS_WAITING_DLY) /\ TRUE \in BOOLEAN
    BY Flags DEF TS_WAITING_DLY, TS_DORMANT, TSTAT_WAIT_SLP
  <2>2. make_wait_tmout(kernel, t, TS_WAITING_DLY, TRUE).tcb
          = [tcb EXCEPT ![t] = [r EXCEPT !.tstat = TS_WAITING_DLY]]
    <3>1. kernel \in KSet(TCB) /\ t \in Task /\ TS_WAITING_DLY \in TStat
      BY <1>0, <1>1, <2>1
    <3> DEFINE timed == TRUE
    <3> HIDE DEF timed
    <3>2. make_wait_tmout(kernel, t, TS_WAITING_DLY, timed).tcb
            = [kernel.tcb EXCEPT ![t].tstat = TS_WAITING_DLY]
      BY <3>1, TcbAfterBlock
    <3> QED BY <1>0, <3>2 DEF timed
  <2>3. ~r.raster /\ Keeps /\ Dispatch(make_wait_tmout(kernel, t, TS_WAITING_DLY, TRUE))
    BY <1>3 DEF dly_tsk, Keeps, t
  <2>4. TaskOK([r EXCEPT !.tstat = TS_WAITING_DLY], Fixed(t))
    BY <1>1, <2>1, <2>3, RequestFields
  <2> QED BY <1>a, <2>2, <2>3, <2>4
<1>4. CASE ext_tsk
  <2> DEFINE k == IF dspflg THEN kernel ELSE set_dspflg(kernel)
  <2>1. k.tcb = tcb
    BY <1>0, <1>1, TcbKept
  <2>2. k \in KSet(TCB)
    <3>1. Queued(kernel) # {}
      BY <1>0, <1>1 DEF Queued
    <3> QED BY <1>0, <3>1, DispatchEnabled, Fields DEF KernelOK
  <2>3. ExitAndDispatch(k)
    BY <1>4 DEF ext_tsk
  <2> HIDE DEF k
  <2> QED BY <1>b, <2>1, <2>2, <2>3
<1>5. CASE dis_ter
  <2>1. [kernel EXCEPT !.tcb[t].enater = FALSE].tcb
          = [tcb EXCEPT ![t] = [r EXCEPT !.enater = FALSE]]
    BY <1>0 DEF KSet
  <2>2. TaskOK([r EXCEPT !.enater = FALSE], Fixed(t))
    BY <1>1, RequestFields
  <2>3. Return([kernel EXCEPT !.tcb[t].enater = FALSE])
    BY <1>5 DEF dis_ter, t
  <2>4. Keeps
    BY <1>0, <1>5, <2>3, FlagChange, ReturnOK, <1>1 DEF dis_ter
  <2> QED BY <1>a, <2>1, <2>2, <2>3, <2>4
<1>6. CASE ena_ter
  <2>1. CASE ExitAndDispatch(kernel)
    BY <1>0, <1>b, <2>1
  <2>2. CASE ~(r.raster /\ dspflg) /\ Return([kernel EXCEPT !.tcb[t].enater = TRUE])
    <3>1. [kernel EXCEPT !.tcb[t].enater = TRUE].tcb
            = [tcb EXCEPT ![t] = [r EXCEPT !.enater = TRUE]]
      BY <1>0 DEF KSet
    <3>2. ~(r.raster /\ ~Fixed(t))
      BY <2>2 DEF Fixed, t
    <3>3. TaskOK([r EXCEPT !.enater = TRUE], Fixed(t))
      BY <1>1, <3>2, RequestFields
    <3>4. Keeps
      BY <1>0, <1>1, <1>6, <2>2, FlagChange, ReturnOK DEF ena_ter
    <3> QED BY <1>a, <2>2, <3>1, <3>3, <3>4
  <2> QED BY <1>6, <2>1, <2>2 DEF ena_ter, t
<1>7. CASE rot_rdq_self
  <2>0. r.bpriority \in TPri \cup {NoPri}
    BY <1>1 DEF TCB
  <2>1. [kernel EXCEPT !.tcb[t].rotpri = r.bpriority].tcb
          = [tcb EXCEPT ![t] = [r EXCEPT !.rotpri = r.bpriority]]
    BY <1>0 DEF KSet
  <2>2. TaskOK([r EXCEPT !.rotpri = r.bpriority], Fixed(t))
    BY <1>1, <2>0, RequestFields
  <2>3. Return([kernel EXCEPT !.tcb[t].rotpri = r.bpriority])
    BY <1>7 DEF rot_rdq_self, t
  <2>4. Keeps
    BY <1>0, <1>1, <1>7, <2>0, <2>3, FlagChange, ReturnOK DEF rot_rdq_self
  <2> QED BY <1>a, <2>1, <2>2, <2>3, <2>4
<1>8. CASE rot_rdq_locked
  <2> DEFINE k1 == [kernel EXCEPT !.tcb[t].rotpri = NoPri]
             d  == [r EXCEPT !.rotpri = NoPri]
  <2>1. k1.tcb = [tcb EXCEPT ![t] = d] /\ k1 \in KSet(TCB)
    <3>1. Quiet(kernel, k1)
      BY <1>0, <1>1, FlagChange
    <3>2. k1.tcb = [tcb EXCEPT ![t] = d]
      BY <1>0 DEF KSet
    <3> QED BY <3>1, <3>2 DEF Quiet
  <2>2. TaskOK(d, Fixed(t))
    BY <1>1, RequestFields
  <2>3. Dispatch(rotate_ready_queue(k1, r.rotpri)) /\ r.rotpri \in TPri
    BY <1>1, <1>8 DEF rot_rdq_locked, TCB, t
  <2>4. Keeps
    BY <1>0, <1>8 DEF ext_tsk, rot_rdq_locked
  <2> HIDE DEF k1, d
  <2>5. rotate_ready_queue(k1, r.rotpri).tcb = [tcb EXCEPT ![t] = d]
    BY <1>1, <2>1, <2>3, TcbKept
  <2> QED BY <1>a, <2>2, <2>3, <2>4, <2>5
<1> QED BY <1>2, <1>3, <1>4, <1>5, <1>6, <1>7, <1>8 DEF SelfAction

(* A step that leaves the TCBs alone.                                      *)
LEMMA SameTcb ==
  ASSUME IInv, tcb' = tcb,
         Keeps \/ ~(tcb[p_runtsk].raster /\ tcb[p_runtsk].enater)
  PROVE  TasksOK'
<1>1. ASSUME NEW t \in Task PROVE TaskOK(tcb[t], Fixed(t))'
  <2>1. TaskOK(tcb[t], Fixed(t))
    BY DEF IInv, TasksOK
  <2>2. Fixed(t) => t = p_runtsk /\ (Keeps => Fixed(t)')
    BY DEF Fixed, Keeps
  <2> QED BY <2>1, <2>2 DEF TaskOK
<1> QED BY <1>1 DEF TasksOK

(* Enabled dispatching: the running task ends, or has no request.          *)
LEMMA EnableRequestsOK ==
  ASSUME IInv, TaskUnlocked, EnableDispatch
  PROVE  TasksOK'
<1> DEFINE r == tcb[p_runtsk]
           k == set_dspflg(kernel)
<1>1. p_runtsk \in Task /\ r.exists /\ Queued(kernel) # {}
  BY Running, Fields DEF TaskUnlocked, IInv, TasksOK, TaskOK
<1>2. k.tcb = tcb /\ k \in KSet(TCB)
  BY <1>1, Fields, DispatchEnabled DEF KernelOK, IInv
<1>3. CASE r.raster /\ r.enater
  <2>1. ExitAndDispatch(k)
    BY <1>3 DEF EnableDispatch
  <2> HIDE DEF k
  <2> QED BY <1>1, <1>2, <2>1, ExitRequestsOK
<1>4. CASE ~(r.raster /\ r.enater)
  <2>1. tcb' = tcb
    BY <1>2, <1>4 DEF EnableDispatch, Dispatch, Update
  <2> QED BY <1>4, <2>1, SameTcb
<1> QED BY <1>3, <1>4

(* The modes of the processor, and interrupts, keep them right.            *)
LEMMA SystemRequestsOK ==
  ASSUME IInv, SystemAction
  PROVE  TasksOK'
<1>0. /\ SInv /\ kernel \in KSet(TCB) /\ kernel.tcb = tcb /\ kernel.dspflg = dspflg
      /\ dspflg \in BOOLEAN
  BY Fields DEF IInv, KSet
<1>1. ASSUME NEW pri \in TPri, rot_rdq(pri) PROVE TasksOK'
  <2>1. Follows(kernel, rotate_ready_queue(kernel, pri))
    BY <1>0, Rotate, Fields
  <2>2. Keeps
    BY <1>0, <1>1, <2>1, DispatchOK DEF rot_rdq
  <2>3. rotate_ready_queue(kernel, pri).tcb = kernel.tcb
    BY <1>0 DEF rotate_ready_queue, KSet
  <2>4. tcb' = tcb
    BY <1>0, <1>1, <2>3 DEF rot_rdq, Dispatch, Update
  <2> QED BY <2>2, <2>4, SameTcb
<1>2. ASSUME Return([kernel EXCEPT !.dspflg = FALSE]) PROVE TasksOK'
  <2>1. tcb' = tcb /\ dspflg' = FALSE /\ p_runtsk' = p_runtsk
    BY <1>0, <1>2 DEF Return, Update, KSet
  <2> QED BY <2>1, SameTcb DEF Keeps
<1>3. CASE dis_dsp
  BY <1>2, <1>3 DEF dis_dsp
<1>4. CASE ena_dsp
  <2>1. CASE ipmall
    BY <1>4, <2>1, EnableRequestsOK DEF ena_dsp
  <2>2. CASE ~ipmall
    <3>1. tcb' = tcb /\ dspflg' = dspflg /\ p_runtsk' = p_runtsk
      BY <1>0, <1>4, <2>2 DEF ena_dsp, Return, Update
    <3> QED BY <1>0, <3>1, SameTcb DEF Keeps
  <2> QED BY <2>1, <2>2
<1>5. ASSUME NEW all \in BOOLEAN, chg_ipm(all) PROVE TasksOK'
  BY <1>2, <1>5, EnableRequestsOK DEF chg_ipm
<1>6. ASSUME UNCHANGED sched, dspflg \/ p_runtsk' = p_runtsk PROVE TasksOK'
  <2>1. tcb' = tcb /\ dspflg' = dspflg
    BY <1>6 DEF sched
  <2> QED BY <1>0, <1>6, <2>1, SameTcb DEF Keeps
<1>7. CASE loc_cpu \/ unl_cpu \/ irq_handler
  BY <1>6, <1>7 DEF loc_cpu, unl_cpu, irq_handler
<1>8. CASE irq_return
  <2>1. ~dspflg => p_runtsk = p_schedtsk
    BY <1>0 DEF SInv, RunOK
  <2> QED BY <1>6, <1>8, <2>1 DEF irq_return
<1> QED BY <1>1, <1>3, <1>4, <1>5, <1>7, <1>8 DEF SystemAction

LEMMA NextIInv == IInv /\ [Next]_vars => IInv'
<1> SUFFICES ASSUME IInv, [Next]_vars PROVE IInv'
  OBVIOUS
<1>1. CASE Next
  BY <1>1, TaskRequestsOK, SelfRequestsOK, SystemRequestsOK, NextSInv DEF Next, IInv
<1>2. CASE UNCHANGED vars
  <2>1. tcb' = tcb /\ Keeps
    BY <1>2, Fields DEF vars, sched, Keeps, IInv, KSet
  <2> QED BY <2>1, SameTcb, NextSInv DEF IInv
<1> QED BY <1>1, <1>2

LEMMA Inductive == Spec => []IInv
<1> QED BY InitIInv, NextIInv, PTL DEF Spec

--------------------------------------------------------------------------
(* What the invariant implies. *)

(* The variables keep their types.                                         *)
THEOREM TypeCorrect == Spec => []TypeOK
<1>1. IInv => TypeOK
  BY DEF IInv, SInv, KernelOK, KSet, kernel, ModesOK, TypeOK
<1> QED BY <1>1, Inductive, PTL

(* The ready queues hold the runnable tasks, each once and at its current  *)
(* priority, and the bitmap marks the queues that are not empty: whatever  *)
(* the number of tasks and priorities and the order of the calls.          *)
THEOREM ReadyQueuesCorrect == Spec => []ReadyQueuesOK
<1>1. ASSUME IInv PROVE ReadyQueuesOK
  <2> DEFINE Q == Queued(kernel)
  <2>1. /\ Q = {t \in Task : Runnable(t)}
        /\ \A p \in TPri : QueueOf(ready_queue[p], AtPri(kernel, Q, p))
        /\ \A p \in TPri : p \in ready_primap <=> AtPri(kernel, Q, p) # {}
        /\ ready_primap \subseteq TPri
        /\ \A p \in TPri : AtPri(kernel, Q, p) = {t \in Q : tcb[t].priority = p}
    BY <1>1 DEF IInv, SInv, KernelOK, KInv, ReadyOK, KSet, kernel, Queued, Runnable, AtPri
  <2>2. \A p \in TPri : AtPri(kernel, Q, p)
                          = {t \in Task : Runnable(t) /\ tcb[t].priority = p}
    BY <2>1
  <2> HIDE DEF Q
  <2>3. \A p \in TPri : IsInjective(ready_queue[p])
                        /\ ToSet(ready_queue[p]) = AtPri(kernel, Q, p)
    BY <2>1 DEF QueueOf
  <2>4. \A p \in TPri : ready_queue[p] # << >> <=> AtPri(kernel, Q, p) # {}
    BY <2>1, QueueHead
  <2>5. ready_primap = {p \in TPri : ready_queue[p] # << >>}
    BY <2>1, <2>4
  <2> QED BY <2>2, <2>3, <2>5 DEF ReadyQueuesOK
<1> QED BY <1>1, Inductive, PTL

(* The task the kernel keeps as the one to run is the first of the highest *)
(* priority, after any sequence of the incremental updates.                *)
THEOREM SchedulingCorrect == Spec => []SchedIsFirst
<1>1. ASSUME IInv PROVE SchedIsFirst
  <2> DEFINE Q == Queued(kernel)
  <2>1. /\ Q = {t \in Task : Runnable(t)}
        /\ kernel \in KSet(TCB)
        /\ ReadyOK(kernel, Q)
        /\ dspflg => IF Q = {} THEN p_schedtsk = NULL ELSE IsFirst(kernel, Q, p_schedtsk)
    BY <1>1 DEF IInv, SInv, KernelOK, KInv, SchedOK, kernel, Queued, Runnable
  <2>2. /\ \A t \in Q : t \in Task /\ tcb[t].priority \in TPri
        /\ \A p \in TPri : p \in ready_primap <=> {t \in Q : tcb[t].priority = p} # {}
        /\ ready_primap \subseteq TPri
    BY <2>1 DEF ReadyOK, AtPri, KSet, kernel
  <2>3. ready_primap = {} <=> Q = {}
    BY <2>2
  <2>4. ASSUME dspflg, Q # {}
        PROVE  /\ p_schedtsk \in Q
               /\ p_schedtsk = Head(ready_queue[tcb[p_schedtsk].priority])
               /\ \A t \in Q : tcb[p_schedtsk].priority <= tcb[t].priority
    BY <2>1, <2>4 DEF IsFirst, kernel
  <2>5. ASSUME dspflg, Q # {}, NEW p \in ready_primap
        PROVE  tcb[p_schedtsk].priority <= p
    <3>1. PICK t \in Q : tcb[t].priority = p
      BY <2>2, <2>5
    <3> QED BY <2>4, <2>5, <3>1
  <2> HIDE DEF Q
  <2> QED BY <2>1, <2>2, <2>3, <2>4, <2>5 DEF SchedIsFirst
<1> QED BY <1>1, Inductive, PTL

(* Dispatching is possible exactly when neither dis_dsp() nor the          *)
(* interrupt mask forbids it; while it is not, nothing takes the processor *)
(* from the running task, and no service lets that task block.             *)
THEOREM DispatchingCorrect == Spec => []DispatchingOK
<1>1. ASSUME IInv PROVE DisabledKeepsRunning
  <2>1. ~dspflg => p_schedtsk \in Queued(kernel) /\ p_runtsk = p_schedtsk
    BY <1>1 DEF IInv, SInv, KernelOK, KInv, SchedOK, RunOK, kernel
  <2>2. \A t \in Queued(kernel) : t \in Task /\ Runnable(t)
    BY DEF Queued, Runnable, kernel
  <2> QED BY <2>1, <2>2 DEF DisabledKeepsRunning
<1>2. IInv => DspflgOK
  BY DEF IInv, SInv
<1>3. IInv => DispatchingOK
  BY <1>1, <1>2 DEF DispatchingOK
<1> QED BY <1>3, Inductive, PTL

(* No service call returns to a task that should not run.                  *)
THEOREM RunningCorrect == Spec => []RunningIsScheduled
<1>1. IInv => RunningIsScheduled
  BY DEF IInv, SInv, ModesOK, RunOK, RunningIsScheduled, sense_context
<1> QED BY <1>1, Inductive, PTL

(* A registered time event belongs to a task that is still in the call     *)
(* whose stack holds it, and a delayed task has one.                       *)
THEOREM TimeEventsCorrect == Spec => []TimeEventsOK
<1>1. IInv => TimeEventsOK
  BY DEF IInv, SInv, KernelOK, TimeOK, kernel, TimeEventsOK, Waiting
<1> QED BY <1>1, Inductive, PTL

(* The assertions in make_non_runnable() and make_non_wait() never fail.   *)
THEOREM AssertsCorrect == Spec => []AssertsHold
<1>1. IInv => AssertsHold
  BY DEF IInv, SInv, KernelOK, kernel, AssertsHold
<1> QED BY <1>1, Inductive, PTL

(* A deferred termination request never finds its task waiting or          *)
(* suspended, and takes effect as soon as termination and dispatching are  *)
(* both possible: for every sequence of ras_ter(), dis_ter(), ena_ter(),   *)
(* dis_dsp(), ena_dsp(), chg_ipm() and the calls between them.             *)
THEOREM RasterCorrect == Spec => []RasterOK
<1>1. ASSUME IInv PROVE RasterOK
  <2>1. \A t \in Task : tcb[t].raster =>
          TSTAT_RUNNABLE(tcb[t].tstat) /\ (tcb[t].enater => t = p_runtsk /\ ~dspflg)
    BY <1>1 DEF IInv, TasksOK, TaskOK, Fixed
  <2> QED BY <2>1 DEF RasterOK, Runnable
<1> QED BY <1>1, Inductive, PTL

(* A queued activation or wakeup belongs to a task that it can still       *)
(* affect, and a deleted task has left every queue of the kernel.          *)
THEOREM RequestsCorrect == Spec => []RequestsOK
<1>1. ASSUME IInv PROVE RequestsOK
  BY <1>1 DEF IInv, TasksOK, TaskOK, RequestsOK, Dormant, Exists
<1> QED BY <1>1, Inductive, PTL
--------------------------------------------------------------------------
(* The order in the ready queues.  What is in both q and r is in the same  *)
(* order in both, except that elements of X may have fallen behind.        *)
KeptOrder(q, r, X) ==
  \A i, j \in DOMAIN q :
    i < j /\ q[i] \notin X /\ q[i] \in ToSet(r) /\ q[j] \in ToSet(r) =>
      \E m, n \in DOMAIN r : m < n /\ r[m] = q[i] /\ r[n] = q[j]

LEMMA OrderSame == \A q, X : KeptOrder(q, q, X)
BY DEF KeptOrder

LEMMA OrderAppend ==
  ASSUME NEW S, NEW q, QueueOf(q, S), NEW t, NEW X
  PROVE  KeptOrder(q, Append(q, t), X)
<1> DEFINE r == Append(q, t)
           T == S \cup {t}
<1>1. Len(q) \in Nat /\ DOMAIN q = 1..Len(q) /\ q \in Seq(T) /\ t \in T
  BY QueueIndex, QueueIn
<1> HIDE DEF T
<1>2. r \in Seq(T) /\ Len(r) = Len(q) + 1 /\ \A i \in 1..Len(q) : r[i] = q[i]
  BY <1>1, AppendProperties
<1> HIDE DEF r
<1>3. DOMAIN r = 1..Len(q) + 1
  BY <1>2, LenProperties
<1> QED BY <1>1, <1>2, <1>3 DEF KeptOrder, r

LEMMA OrderRemoved ==
  ASSUME NEW S, NEW q, QueueOf(q, S), NEW t \in S
  PROVE  /\ \A X : KeptOrder(q, RemoveFirst(q, t), X)
         /\ KeptOrder(q, Append(RemoveFirst(q, t), t), {t})
<1> DEFINE r == RemoveFirst(q, t)
           s == Append(r, t)
<1>1. /\ Len(q) \in Nat /\ DOMAIN q = 1..Len(q)
      /\ \A i \in 1..Len(q) : q[i] \in S
      /\ \A i, j \in 1..Len(q) : q[i] = q[j] => i = j
  BY QueueIndex
<1>2. QueueOf(r, S \ {t}) /\ \E i \in 1..Len(q) : q[i] = t /\ Removed(q, r, i)
  BY QueueRemove
<1>3. PICK h \in 1..Len(q) : q[h] = t /\ Removed(q, r, h)
  BY <1>2
<1> HIDE DEF r
<1>4. Len(r) = Len(q) - 1 /\ DOMAIN r = 1..Len(r) /\ ToSet(r) = S \ {t}
  BY <1>2, <1>3, QueueIndex DEF Removed, QueueOf
<1> DEFINE at(i) == IF i < h THEN i ELSE i - 1
<1>5. \A i \in 1..Len(q) : i # h => at(i) \in 1..Len(r) /\ r[at(i)] = q[i]
  BY <1>1, <1>3, <1>4 DEF Removed
<1>6. \A i, j \in 1..Len(q) : i < j /\ i # h /\ j # h => at(i) < at(j)
  BY <1>1, <1>3
<1> HIDE DEF at
<1>7. ASSUME NEW X PROVE KeptOrder(q, r, X)
  <2>1. \A i \in 1..Len(q) : q[i] \in ToSet(r) => i # h
    BY <1>3, <1>4
  <2> QED BY <1>1, <1>4, <1>5, <1>6, <2>1 DEF KeptOrder
<1>8. KeptOrder(q, s, {t})
  <2>1. t \notin S \ {t}
    OBVIOUS
  <2>2. QueueOf(s, (S \ {t}) \cup {t}) /\ Inserted(r, s, Len(r) + 1, t)
    BY <1>2, <2>1, QueueAppend
  <2> HIDE DEF s
  <2>3. /\ DOMAIN s = 1..Len(s) /\ Len(s) = Len(r) + 1 /\ s[Len(r) + 1] = t
        /\ \A i \in 1..Len(r) : s[i] = r[i]
        /\ Len(r) \in Nat
    <3>1. Len(r) \in Nat /\ Len(s) \in Nat /\ DOMAIN s = 1..Len(s)
      BY <1>2, <2>2, QueueIndex
    <3> QED BY <2>2, <3>1 DEF Inserted
  <2>4. ASSUME NEW i \in 1..Len(q), NEW j \in 1..Len(q), i < j, q[i] # t
        PROVE  \E m, n \in DOMAIN s : m < n /\ s[m] = q[i] /\ s[n] = q[j]
    <3>1. i # h /\ at(i) \in 1..Len(r) /\ s[at(i)] = q[i]
      BY <1>3, <1>5, <2>3, <2>4
    <3>2. CASE j = h
      <4>1. at(i) < Len(r) + 1 /\ Len(r) + 1 \in DOMAIN s /\ at(i) \in DOMAIN s
        BY <2>3, <3>1
      <4> QED BY <1>3, <2>3, <3>1, <3>2, <4>1
    <3>3. CASE j # h
      <4>1. at(j) \in 1..Len(r) /\ s[at(j)] = q[j] /\ at(i) < at(j)
        BY <1>5, <1>6, <2>3, <2>4, <3>1, <3>3
      <4>2. at(i) \in DOMAIN s /\ at(j) \in DOMAIN s
        BY <2>3, <3>1, <4>1
      <4> QED BY <3>1, <4>1, <4>2
    <3> QED BY <3>2, <3>3
  <2> QED BY <1>1, <2>4 DEF KeptOrder
<1> QED BY <1>7, <1>8 DEF r

(* All queues from one scheduler state to another.                         *)
Ordered(k, k2, X) ==
  \A p \in TPri : KeptOrder(k.ready_queue[p], k2.ready_queue[p], X)

LEMMA OrderedSame ==
  ASSUME NEW k, NEW k2, k2.ready_queue = k.ready_queue, NEW X
  PROVE  Ordered(k, k2, X)
BY OrderSame DEF Ordered

(* Setting the state of a task moves nobody.                               *)
LEMMA SetMoves ==
  ASSUME NEW k \in KSet(TCB), NEW t \in Task, NEW x \in TStat
  PROVE  /\ set_tstat(k, t, x) \in KSet(TCB)
         /\ set_tstat(k, t, x).ready_queue = k.ready_queue
         /\ set_tstat(k, t, x).tcb[t].priority = k.tcb[t].priority
<1>1. set_tstat(k, t, x).ready_queue = k.ready_queue
  BY DEF set_tstat, KSet
<1>2. set_tstat(k, t, x).tcb[t].priority = k.tcb[t].priority
  BY DEF set_tstat, KSet, TCB
<1> QED BY <1>1, <1>2, TcbSet

(* No task is in a queue twice.                                            *)
Queues(k) == \A p \in TPri : \E S \in SUBSET Task : QueueOf(k.ready_queue[p], S)

LEMMA QueuesOf ==
  ASSUME NEW k, KernelOK(k)
  PROVE  /\ k \in KSet(TCB) /\ Queues(k)
         /\ \A t \in Task :
              /\ k.tcb[t] \in TCB /\ k.tcb[t].priority \in TPri
              /\ TSTAT_RUNNABLE(k.tcb[t].tstat) =>
                   LET p == k.tcb[t].priority IN
                   /\ QueueOf(k.ready_queue[p], AtPri(k, Queued(k), p))
                   /\ t \in AtPri(k, Queued(k), p)
<1>1. k \in KSet(TCB) /\ KInv(k, Queued(k)) /\ Queued(k) \subseteq Task
  BY DEF KernelOK, Queued
<1>2. \A p \in TPri : QueueOf(k.ready_queue[p], AtPri(k, Queued(k), p))
  BY <1>1 DEF KInv, ReadyOK
<1>3. \A p : AtPri(k, Queued(k), p) \in SUBSET Task
  BY <1>1 DEF AtPri
<1>4. \A t \in Task : k.tcb[t] \in TCB /\ k.tcb[t].priority \in TPri
  BY <1>1 DEF KSet, TCB
<1>5. \A t \in Task : TSTAT_RUNNABLE(k.tcb[t].tstat) =>
                        t \in AtPri(k, Queued(k), k.tcb[t].priority)
  BY DEF AtPri, Queued
<1> QED BY <1>1, <1>2, <1>3, <1>4, <1>5 DEF Queues

(* A task becomes ready behind all of its priority.                        *)
LEMMA RunnableOrder ==
  ASSUME NEW k \in KSet(TCB), Queues(k), NEW t \in Task
  PROVE  /\ \A X : Ordered(k, make_runnable(k, t), X)
         /\ \A p \in TPri : make_runnable(k, t).ready_queue[p] =
              IF p = k.tcb[t].priority THEN Append(k.ready_queue[p], t) ELSE k.ready_queue[p]
<1> DEFINE pri == k.tcb[t].priority
           k2 == make_runnable(k, t)
<1>1. pri \in TPri
  BY DEF KSet, TCB
<1>2. \A p \in TPri : k2.ready_queue[p] = IF p = pri THEN Append(k.ready_queue[p], t)
                                           ELSE k.ready_queue[p]
  BY <1>1 DEF make_runnable, KSet
<1> HIDE DEF k2, pri
<1>3. ASSUME NEW X, NEW p \in TPri PROVE KeptOrder(k.ready_queue[p], k2.ready_queue[p], X)
  <2>1. PICK S \in SUBSET Task : QueueOf(k.ready_queue[p], S)
    BY DEF Queues
  <2>2. KeptOrder(k.ready_queue[p], Append(k.ready_queue[p], t), X)
    BY <2>1, OrderAppend
  <2> QED BY <1>2, <2>2, OrderSame
<1> QED BY <1>2, <1>3 DEF Ordered, k2, pri

(* A task leaves its queue.                                                *)
LEMMA BlockedOrder ==
  ASSUME NEW k, KernelOK(k), NEW t \in Task, TSTAT_RUNNABLE(k.tcb[t].tstat),
         NEW k1 \in KSet(TCB), k1.ready_queue = k.ready_queue,
         k1.tcb[t].priority = k.tcb[t].priority
  PROVE  /\ \A X : Ordered(k, make_non_runnable(k1, t), X)
         /\ \A p \in TPri : make_non_runnable(k1, t).ready_queue[p] =
              IF p = k.tcb[t].priority THEN RemoveFirst(k.ready_queue[p], t)
                                       ELSE k.ready_queue[p]
<1> DEFINE pri == k.tcb[t].priority
           k2 == make_non_runnable(k1, t)
<1>1. pri \in TPri /\ \E S : QueueOf(k.ready_queue[pri], S) /\ t \in S
  BY QueuesOf
<1> HIDE DEF pri
<1>2. \A p \in TPri : k2.ready_queue[p] = IF p = pri THEN RemoveFirst(k.ready_queue[p], t)
                                           ELSE k.ready_queue[p]
  <2> DEFINE q == RemoveFirst(k1.ready_queue[pri], t)
  <2>1. k1.tcb[t].priority = pri
    BY DEF pri
  <2>2. k2.ready_queue = [k1.ready_queue EXCEPT ![pri] = q]
    BY <2>1 DEF make_non_runnable, KSet
  <2>3. k1.ready_queue \in [TPri -> Seq(Task)]
    BY DEF KSet
  <2> HIDE DEF q, k2
  <2>4. \A p \in TPri : k2.ready_queue[p] = IF p = pri THEN q ELSE k.ready_queue[p]
    BY <2>2, <2>3
  <2> QED BY <2>4 DEF q
<1> HIDE DEF k2
<1>3. ASSUME NEW X, NEW p \in TPri PROVE KeptOrder(k.ready_queue[p], k2.ready_queue[p], X)
  BY <1>1, <1>2, OrderSame, OrderRemoved
<1> QED BY <1>2, <1>3 DEF Ordered, k2, pri

LEMMA QueuesSame ==
  ASSUME NEW k, Queues(k), NEW k2, k2.ready_queue = k.ready_queue
  PROVE  Queues(k2)
BY DEF Queues

(* Activation, resumption, the end of a suspension.                        *)
LEMMA ActiveOrder ==
  ASSUME NEW k \in KSet(TCB), Queues(k), NEW t \in Task, NEW X
  PROVE  Ordered(k, make_runnable(set_tstat(k, t, TS_RUNNABLE), t), X)
<1> DEFINE k1 == set_tstat(k, t, TS_RUNNABLE)
<1>1. k1 \in KSet(TCB) /\ k1.ready_queue = k.ready_queue
  BY Flags, SetMoves
<1> HIDE DEF k1
<1>2. Ordered(k1, make_runnable(k1, t), X)
  BY <1>1, QueuesSame, RunnableOrder
<1> QED BY <1>1, <1>2 DEF Ordered, k1

(* The end of a wait.                                                      *)
LEMMA WaitOrder ==
  ASSUME NEW k \in KSet(TCB), Queues(k), NEW t \in Task, NEW X
  PROVE  Ordered(k, make_non_wait(set_wercd(wait_dequeue_tmevtb(k, t), t), t), X)
<1>0. SUFFICES Ordered(k, make_non_wait(wait_dequeue_tmevtb(k, t), t), X)
  BY CodeStored
<1> DEFINE k1 == wait_dequeue_tmevtb(k, t)
           k2 == [k1 EXCEPT !.asserted = @ /\ TSTAT_WAITING(k1.tcb[t].tstat)]
<1>1. k1 \in KSet(TCB) /\ k1.ready_queue = k.ready_queue
  BY DEF wait_dequeue_tmevtb, KSet
<1> HIDE DEF k1
<1>2. k2 \in KSet(TCB) /\ k2.ready_queue = k.ready_queue
  BY <1>1 DEF KSet
<1>3. \/ make_non_wait(k1, t) = set_tstat(k2, t, TS_SUSPENDED)
      \/ make_non_wait(k1, t) = make_runnable(set_tstat(k2, t, TS_RUNNABLE), t)
  BY DEF make_non_wait
<1> HIDE DEF k2
<1>4. Ordered(k2, make_runnable(set_tstat(k2, t, TS_RUNNABLE), t), X)
  BY <1>2, QueuesSame, ActiveOrder
<1>5. set_tstat(k2, t, TS_SUSPENDED).ready_queue = k2.ready_queue
  BY <1>2, Flags, SetMoves
<1>6. Ordered(k2, make_non_wait(k1, t), X)
  BY <1>3, <1>4, <1>5, OrderedSame
<1> QED BY <1>2, <1>6 DEF Ordered, k1

(* A task waits, or is suspended.                                          *)
LEMMA BlockOrder ==
  ASSUME NEW k, KernelOK(k), NEW t \in Task, TSTAT_RUNNABLE(k.tcb[t].tstat),
         NEW x \in TStat, NEW timed, NEW X
  PROVE  /\ Ordered(k, make_non_runnable(set_tstat(k, t, x), t), X)
         /\ Ordered(k, make_wait_tmout(k, t, x, timed), X)
<1> DEFINE k1 == set_tstat(k, t, x)
           k2 == make_non_runnable(k1, t)
<1>1. /\ k1 \in KSet(TCB) /\ k1.ready_queue = k.ready_queue
      /\ k1.tcb[t].priority = k.tcb[t].priority
  BY QueuesOf, SetMoves
<1> HIDE DEF k1
<1>2. Ordered(k, k2, X)
  BY <1>1, BlockedOrder
<1>3. make_wait_tmout(k, t, x, timed).ready_queue = k2.ready_queue
  <2>1. [k2 EXCEPT !.tmevtb = @ \cup {t}].ready_queue = k2.ready_queue
    BY <1>1 DEF make_non_runnable, KSet
  <2> QED BY <2>1 DEF make_wait_tmout, k1
<1> QED BY <1>2, <1>3 DEF Ordered, k1

(* A task that ends, and perhaps starts again at its initial priority.     *)
LEMMA TerminateOrder ==
  ASSUME NEW k, KernelOK(k), NEW t \in Task
  PROVE  Ordered(k, task_terminate(k, t), {t})
<1> DEFINE x  == k.tcb[t].tstat
           pri == k.tcb[t].priority
           k1 == IF TSTAT_RUNNABLE(x) THEN make_non_runnable(k, t)
                 ELSE IF TSTAT_WAITING(x) THEN wait_dequeue_tmevtb(k, t)
                 ELSE k
           k2 == make_dormant(k1, t)
           k3 == set_tstat([k2 EXCEPT !.tcb[t].actque = FALSE], t, TS_RUNNABLE)
           new == k3.tcb[t].priority
           rq1 == k1.ready_queue
<1>1. k \in KSet(TCB) /\ Queues(k)
  BY QueuesOf
<1>2. \A p \in TPri : rq1[p] = IF TSTAT_RUNNABLE(x) /\ p = pri
                               THEN RemoveFirst(k.ready_queue[p], t)
                               ELSE k.ready_queue[p]
  <2>1. CASE TSTAT_RUNNABLE(x)
    BY <1>1, <2>1, BlockedOrder
  <2>2. CASE ~TSTAT_RUNNABLE(x)
    BY <1>1, <2>2 DEF wait_dequeue_tmevtb, KSet
  <2> QED BY <2>1, <2>2
<1>3. /\ "ready_queue" \in DOMAIN k1 /\ DOMAIN rq1 = TPri
  BY <1>1 DEF make_non_runnable, wait_dequeue_tmevtb, KSet
<1>4. \/ task_terminate(k, t) = k2
      \/ task_terminate(k, t) = make_runnable(k3, t)
  BY DEF task_terminate, make_active
<1> HIDE DEF k1
<1>5. k2.ready_queue = rq1 /\ k3.ready_queue = rq1 /\ "ready_queue" \in DOMAIN k3
  BY <1>3 DEF make_dormant, set_tstat
<1> HIDE DEF k2, k3
<1>6. make_runnable(k3, t).ready_queue = [rq1 EXCEPT ![new] = Append(@, t)]
  BY <1>5 DEF make_runnable
<1> HIDE DEF rq1, new
<1>7. ASSUME NEW p \in TPri
      PROVE  KeptOrder(k.ready_queue[p], rq1[p], {t})
  <2>1. CASE TSTAT_RUNNABLE(x) /\ p = pri
    <3>1. \E S : QueueOf(k.ready_queue[p], S) /\ t \in S
      BY <2>1, QueuesOf
    <3>2. rq1[p] = RemoveFirst(k.ready_queue[p], t)
      BY <1>2, <2>1
    <3> QED BY <3>1, <3>2, OrderRemoved
  <2>2. CASE ~(TSTAT_RUNNABLE(x) /\ p = pri)
    <3>1. rq1[p] = k.ready_queue[p]
      BY <1>2, <2>2
    <3> QED BY <3>1, OrderSame
  <2> QED BY <2>1, <2>2
<1>8. ASSUME NEW p \in TPri
      PROVE  KeptOrder(k.ready_queue[p], Append(rq1[p], t), {t})
  <2>1. CASE TSTAT_RUNNABLE(x) /\ p = pri
    BY <1>2, <2>1, QueuesOf, OrderRemoved
  <2>2. CASE ~(TSTAT_RUNNABLE(x) /\ p = pri)
    <3>1. rq1[p] = k.ready_queue[p] /\ \E S : QueueOf(k.ready_queue[p], S)
      BY <1>1, <1>2, <2>2 DEF Queues
    <3> QED BY <3>1, OrderAppend
  <2> QED BY <2>1, <2>2
<1>9. \A p \in TPri : \/ task_terminate(k, t).ready_queue[p] = rq1[p]
                      \/ task_terminate(k, t).ready_queue[p] = Append(rq1[p], t)
  BY <1>3, <1>4, <1>5, <1>6
<1> QED BY <1>7, <1>8, <1>9 DEF Ordered

(* A task that gets another priority goes behind those that have it.       *)
LEMMA PriorityOrder ==
  ASSUME NEW k, KernelOK(k), NEW t \in Task, NEW pri \in TPri, NEW mtxmode, ~mtxmode,
         NEW p \in TPri
  PROVE  KeptOrder(k.ready_queue[p], change_priority(k, t, pri, mtxmode).ready_queue[p],
                   IF p = pri THEN {t} ELSE {})
<1> DEFINE k0 == [k EXCEPT !.tcb[t].priority = pri]
           old == k.tcb[t].priority
           k2 == requeue(k0, t, old, pri, mtxmode)
           q  == k.ready_queue[p]
           q1 == IF p = old THEN RemoveFirst(q, t) ELSE q
<1>1. k \in KSet(TCB) /\ Queues(k) /\ old \in TPri
  BY QueuesOf
<1>2. k0.ready_queue = k.ready_queue /\ "ready_queue" \in DOMAIN k0
      /\ k.ready_queue \in [TPri -> Seq(Task)]
  BY <1>1 DEF KSet
<1>3. CASE ~TSTAT_RUNNABLE(k.tcb[t].tstat)
  BY <1>2, <1>3, OrderSame DEF change_priority
<1>4. CASE TSTAT_RUNNABLE(k.tcb[t].tstat)
  <2>1. change_priority(k, t, pri, mtxmode) = k2
    BY <1>4 DEF change_priority
  <2> HIDE DEF k0
  <2>2. k2.ready_queue[p] = IF p = pri THEN Append(q1, t) ELSE q1
    <3> DEFINE rq1 == [k.ready_queue EXCEPT ![old] = RemoveFirst(k.ready_queue[old], t)]
               rq2 == [rq1 EXCEPT ![pri] = Append(@, t)]
    <3>1. k2.ready_queue = rq2
      BY <1>2 DEF requeue
    <3>2. rq1 \in [TPri -> {rq1[z] : z \in TPri}] /\ rq1[p] = q1
      BY <1>1, <1>2
    <3> HIDE DEF rq1
    <3>3. rq2[p] = IF p = pri THEN Append(rq1[p], t) ELSE rq1[p]
      BY <3>2
    <3> QED BY <3>1, <3>2, <3>3
  <2> HIDE DEF k2
  <2>3. CASE p = old
    <3>1. \E S : QueueOf(q, S) /\ t \in S
      BY <1>4, <2>3, QueuesOf
    <3> HIDE DEF q
    <3>2. KeptOrder(q, q1, {}) /\ KeptOrder(q, Append(q1, t), {t})
      BY <2>3, <3>1, OrderRemoved
    <3> QED BY <2>1, <2>2, <3>2 DEF q
  <2>4. CASE p # old
    <3>1. q1 = q /\ \E S : QueueOf(q, S)
      BY <1>1, <2>4 DEF Queues
    <3>2. KeptOrder(q, Append(q, t), {t}) /\ KeptOrder(q, q, {})
      BY <3>1, OrderAppend, OrderSame
    <3> QED BY <2>1, <2>2, <3>1, <3>2
  <2> QED BY <2>3, <2>4
<1> QED BY <1>3, <1>4

(* What FifoKept asks of one priority.                                     *)
MayFallBehind(a, p) ==
  \/ chg_pri(a, p) \/ ter_tsk(a) \/ ras_ter(a)
  \/ a = p_runtsk /\ (ext_tsk \/ ena_ter)

OrderKept(p) ==
  \E X : KeptOrder(ready_queue[p], ready_queue'[p], X) /\ \A a \in X : MayFallBehind(a, p)

(* A step that orders all queues keeps the order.                          *)
LEMMA OrderCommits ==
  ASSUME NEW k, NEW X, Ordered(kernel, k, X), ready_queue' = k.ready_queue,
         \A a \in X, p \in TPri : MayFallBehind(a, p)
  PROVE  \A p \in TPri : OrderKept(p)
<1>1. kernel.ready_queue = ready_queue
  BY DEF kernel
<1> QED BY <1>1 DEF Ordered, OrderKept

(* A step that leaves the queues alone.                                    *)
LEMMA OrderUnchanged ==
  ASSUME ready_queue' = ready_queue
  PROVE  \A p \in TPri : OrderKept(p)
<1>1. \A p \in TPri : KeptOrder(ready_queue[p], ready_queue'[p], {})
  BY OrderSame
<1> QED BY <1>1 DEF OrderKept

(* The services that name a task.                                          *)
LEMMA TaskOrder ==
  ASSUME IInv, NEW t \in Task, TaskAction(t)
  PROVE  \A p \in TPri : OrderKept(p)
<1>0. /\ kernel \in KSet(TCB) /\ KernelOK(kernel) /\ Queues(kernel)
      /\ kernel.tcb = tcb /\ kernel.ready_queue = ready_queue
      /\ TS_RUNNABLE \in TStat /\ TS_SUSPENDED \in TStat
  BY Fields, QueuesOf, Flags DEF IInv, kernel
<1>a. ASSUME NEW k, Dispatch(k) \/ Return(k), NEW X, Ordered(kernel, k, X),
             \A a \in X, p \in TPri : MayFallBehind(a, p)
      PROVE  \A p \in TPri : OrderKept(p)
  BY <1>a, OrderCommits DEF Dispatch, Return, Update
<1>b. ASSUME NEW k, Dispatch(k) \/ Return(k), k.ready_queue = ready_queue
      PROVE  \A p \in TPri : OrderKept(p)
  BY <1>b, OrderUnchanged DEF Dispatch, Return, Update
<1>c. ASSUME NEW k, Dispatch(k) \/ Return(k), Ordered(kernel, k, {})
      PROVE  \A p \in TPri : OrderKept(p)
  <2>1. \A c \in {}, p \in TPri : MayFallBehind(c, p)
    OBVIOUS
  <2> QED BY <1>a, <1>c, <2>1
<1>1. CASE act_tsk(t)
  <2>1. Ordered(kernel, make_active(kernel, t), {})
    BY <1>0, ActiveOrder DEF make_active
  <2>2. [kernel EXCEPT !.tcb[t].actque = TRUE].ready_queue = ready_queue
    BY <1>0 DEF KSet
  <2> QED BY <1>1, <1>b, <1>c, <2>1, <2>2 DEF act_tsk
<1>2. CASE can_act(t)
  <2>1. [kernel EXCEPT !.tcb[t].actque = FALSE].ready_queue = ready_queue
    BY <1>0 DEF KSet
  <2> QED BY <1>2, <1>b, <2>1 DEF can_act
<1>3. CASE wup_tsk(t)
  <2>1. Ordered(kernel, wait_complete(kernel, t), {})
    BY <1>0, WaitOrder DEF wait_complete
  <2>2. [kernel EXCEPT !.tcb[t].wupque = TRUE].ready_queue = ready_queue
    BY <1>0 DEF KSet
  <2> QED BY <1>3, <1>b, <1>c, <2>1, <2>2 DEF wup_tsk
<1>4. CASE can_wup(t)
  <2>1. [kernel EXCEPT !.tcb[t].wupque = FALSE].ready_queue = ready_queue
    BY <1>0 DEF KSet
  <2> QED BY <1>4, <1>b, <2>1 DEF can_wup
<1>5. CASE rel_wai(t) \/ wait_tmout(t)
  <2> DEFINE k == make_non_wait(set_wercd(wait_dequeue_tmevtb(kernel, t), t), t)
  <2>1. Ordered(kernel, k, {})
    BY <1>0, WaitOrder
  <2>2. Dispatch(k)
    BY <1>5 DEF rel_wai, wait_tmout
  <2> HIDE DEF k
  <2> QED BY <1>c, <2>1, <2>2
<1>6. CASE sus_tsk(t)
  <2>1. Runnable(t) => Ordered(kernel, make_non_runnable(set_tstat(kernel, t, TS_SUSPENDED), t), {})
    BY <1>0, BlockOrder DEF Runnable
  <2>2. set_tstat(kernel, t, tcb[t].tstat \cup TS_SUSPENDED).ready_queue = ready_queue
    BY <1>0 DEF KSet, set_tstat
  <2> QED BY <1>6, <1>b, <1>c, <2>1, <2>2 DEF sus_tsk
<1>7. CASE rsm_tsk(t)
  <2>1. Ordered(kernel, make_runnable(set_tstat(kernel, t, TS_RUNNABLE), t), {})
    BY <1>0, ActiveOrder
  <2>2. set_tstat(kernel, t, tcb[t].tstat \ TS_SUSPENDED).ready_queue = ready_queue
    BY <1>0 DEF KSet, set_tstat
  <2> QED BY <1>7, <1>b, <1>c, <2>1, <2>2 DEF rsm_tsk
<1>8. CASE ter_tsk(t)
  <2>1. Ordered(kernel, task_terminate(kernel, t), {t})
    BY <1>0, TerminateOrder
  <2>2. Dispatch(task_terminate(kernel, t)) /\ \A p \in TPri : MayFallBehind(t, p)
    BY <1>8 DEF ter_tsk, MayFallBehind
  <2> QED BY <1>a, <2>1, <2>2
<1>9. ASSUME NEW pri \in TPri, chg_pri(t, pri) PROVE \A p \in TPri : OrderKept(p)
  <2> DEFINE mtxmode == FALSE
             k0 == [kernel EXCEPT !.tcb[t].bpriority = pri]
             k  == change_priority(k0, t, pri, mtxmode)
  <2>1. Quiet(kernel, k0)
    <3> DEFINE e == [tcb[t] EXCEPT !.bpriority = pri]
    <3>1. tcb[t] \in TCB
      BY <1>0 DEF KSet
    <3>2. e \in TCB /\ e.tstat = tcb[t].tstat /\ e.priority = tcb[t].priority
      BY <3>1, TCBFields DEF TCB
    <3>3. k0 = [kernel EXCEPT !.tcb = [kernel.tcb EXCEPT ![t] = e]]
      BY <1>0
    <3> HIDE DEF e
    <3> QED BY <1>0, <3>2, <3>3, QuietPut
  <2>2. KernelOK(k0) /\ k0.ready_queue = ready_queue
    BY <1>0, <2>1, QuietChange DEF Follows, Quiet
  <2>3. ready_queue' = k.ready_queue
    BY <1>9 DEF chg_pri, Dispatch, Update
  <2> HIDE DEF k0
  <2>4. ~mtxmode
    OBVIOUS
  <2> HIDE DEF mtxmode
  <2>5. \A p \in TPri : KeptOrder(ready_queue[p], ready_queue'[p],
                                  IF p = pri THEN {t} ELSE {})
    BY <1>9, <2>2, <2>3, <2>4, PriorityOrder
  <2>6. MayFallBehind(t, pri)
    BY <1>9 DEF MayFallBehind
  <2> QED BY <2>5, <2>6 DEF OrderKept
<1>10. CASE ras_ter(t)
  <2> DEFINE k1 == [kernel EXCEPT !.tcb[t].raster = TRUE]
             k2 == IF Waiting(t) THEN set_wercd(wait_dequeue_tmevtb(k1, t), t)
                   ELSE k1
             k  == make_runnable(set_tstat(k2, t, TS_RUNNABLE), t)
  <2>1. Ordered(kernel, task_terminate(kernel, t), {t})
    BY <1>0, TerminateOrder
  <2>2. \A p \in TPri : MayFallBehind(t, p)
    BY <1>10 DEF MayFallBehind
  <2>3. k1 \in KSet(TCB) /\ k1.ready_queue = ready_queue
    BY <1>0, FlagChange DEF Quiet
  <2>4. Dispatch(task_terminate(kernel, t)) \/ Return(k1) \/ Dispatch(k)
    BY <1>10 DEF ras_ter
  <2> HIDE DEF k1
  <2>5. k2 \in KSet(TCB) /\ k2.ready_queue = ready_queue
    <3>1. k2 = IF Waiting(t) THEN wait_dequeue_tmevtb(k1, t) ELSE k1
      BY <2>3, CodeStored
    <3> QED BY <2>3, <3>1 DEF wait_dequeue_tmevtb, KSet
  <2> HIDE DEF k2
  <2>6. Ordered(k2, k, {})
    BY <1>0, <2>5, QueuesSame, ActiveOrder
  <2>7. Ordered(kernel, k, {})
    BY <1>0, <2>5, <2>6 DEF Ordered
  <2> HIDE DEF k
  <2> QED BY <1>a, <1>b, <1>c, <2>1, <2>2, <2>3, <2>4, <2>7
<1>11. ASSUME NEW pri \in TPri, NEW tskatr \in SUBSET {"ACT"}, acre_tsk(t, pri, tskatr)
       PROVE  \A p \in TPri : OrderKept(p)
  <2> DEFINE k1 == [kernel EXCEPT !.tcb[t] = CreatedTCB(pri)]
  <2>1. k1 \in KSet(TCB) /\ k1.ready_queue = ready_queue
    BY <1>0, Created DEF KSet
  <2>2. Dispatch(make_active(k1, t)) \/ Return(k1)
    BY <1>11 DEF acre_tsk
  <2> HIDE DEF k1
  <2>3. Ordered(k1, make_active(k1, t), {})
    BY <1>0, <2>1, QueuesSame, ActiveOrder DEF make_active
  <2>4. Ordered(kernel, make_active(k1, t), {})
    BY <1>0, <2>1, <2>3 DEF Ordered
  <2> QED BY <1>b, <1>c, <2>1, <2>2, <2>4
<1>12. CASE del_tsk(t)
  <2>1. [kernel EXCEPT !.tcb[t].exists = FALSE].ready_queue = ready_queue
    BY <1>0 DEF KSet
  <2> QED BY <1>12, <1>b, <2>1 DEF del_tsk
<1> QED BY <1>1, <1>2, <1>3, <1>4, <1>5, <1>6, <1>7, <1>8, <1>9, <1>10, <1>11, <1>12
        DEF TaskAction

(* The running task ends.                                                  *)
LEMMA ExitOrder ==
  ASSUME NEW k, KernelOK(k), k.ready_queue = ready_queue, ExitAndDispatch(k),
         p_runtsk \in Task, ext_tsk \/ ena_ter
  PROVE  \A p \in TPri : OrderKept(p)
<1>1. Ordered(k, task_terminate(k, p_runtsk), {p_runtsk})
  BY TerminateOrder
<1>2. Ordered(kernel, task_terminate(k, p_runtsk), {p_runtsk})
  BY <1>1 DEF Ordered, kernel
<1>3. ready_queue' = task_terminate(k, p_runtsk).ready_queue
  BY DEF ExitAndDispatch, Update
<1>4. \A a \in {p_runtsk}, p \in TPri : MayFallBehind(a, p)
  BY DEF MayFallBehind
<1> QED BY <1>2, <1>3, <1>4, OrderCommits

(* The services that act on the calling task.                              *)
LEMMA SelfOrder ==
  ASSUME IInv, SelfAction
  PROVE  rot_rdq_locked \/ \A p \in TPri : OrderKept(p)
<1> DEFINE t == p_runtsk
<1>0. /\ SInv /\ kernel \in KSet(TCB) /\ KernelOK(kernel)
      /\ kernel.tcb = tcb /\ kernel.ready_queue = ready_queue
  BY Fields DEF IInv, kernel
<1>1. t \in Task /\ t \in Queued(kernel)
  <2>1. ~sense_context /\ p_runtsk # NULL
    BY DEF SelfAction, slp_tsk, dly_tsk, ext_tsk, dis_ter, ena_ter, rot_rdq_self,
           rot_rdq_locked, TaskUnlocked
  <2> QED BY <1>0, <2>1, Running
<1> HIDE DEF t
<1>a. ASSUME NEW x \in TStat, NEW timed, Dispatch(make_wait_tmout(kernel, t, x, timed))
      PROVE  \A p \in TPri : OrderKept(p)
  <2>1. Ordered(kernel, make_wait_tmout(kernel, t, x, timed), {})
    BY <1>0, <1>1, BlockOrder DEF Queued
  <2>2. ready_queue' = make_wait_tmout(kernel, t, x, timed).ready_queue
    BY <1>a DEF Dispatch, Update
  <2>3. \A c \in {}, p \in TPri : MayFallBehind(c, p)
    OBVIOUS
  <2> QED BY <2>1, <2>2, <2>3, OrderCommits
<1>b. ASSUME NEW k, Return(k), k.ready_queue = ready_queue
      PROVE  \A p \in TPri : OrderKept(p)
  BY <1>b, OrderUnchanged DEF Return, Update
<1>2. ASSUME NEW timed \in BOOLEAN, slp_tsk(timed) PROVE \A p \in TPri : OrderKept(p)
  <2>1. [kernel EXCEPT !.tcb[t].wupque = FALSE].ready_queue = ready_queue
    BY <1>0 DEF KSet
  <2>2. TS_WAITING_SLP \in TStat
    BY Flags
  <2> QED BY <1>2, <1>a, <1>b, <2>1, <2>2 DEF slp_tsk, t
<1>3. CASE dly_tsk
  <2>1. TS_WAITING_DLY \in TStat
    BY Flags
  <2> QED BY <1>3, <1>a, <2>1 DEF dly_tsk, t
<1>4. CASE ext_tsk
  <2> DEFINE k == IF dspflg THEN kernel ELSE set_dspflg(kernel)
  <2>1. KernelOK(k) /\ k.ready_queue = ready_queue
    <3>1. KernelOK(set_dspflg(kernel))
      BY <1>0, <1>1, DispatchEnabled
    <3>2. set_dspflg(kernel).ready_queue = ready_queue
      BY <1>0 DEF set_dspflg, KSet
    <3> QED BY <1>0, <3>1, <3>2
  <2>2. ExitAndDispatch(k)
    BY <1>4 DEF ext_tsk
  <2> HIDE DEF k
  <2> QED BY <1>1, <1>4, <2>1, <2>2, ExitOrder DEF t
<1>5. CASE dis_ter
  <2>1. [kernel EXCEPT !.tcb[t].enater = FALSE].ready_queue = ready_queue
    BY <1>0 DEF KSet
  <2> QED BY <1>5, <1>b, <2>1 DEF dis_ter, t
<1>6. CASE ena_ter
  <2>1. [kernel EXCEPT !.tcb[t].enater = TRUE].ready_queue = ready_queue
    BY <1>0 DEF KSet
  <2>2. ExitAndDispatch(kernel) \/ Return([kernel EXCEPT !.tcb[t].enater = TRUE])
    BY <1>6 DEF ena_ter, t
  <2> QED BY <1>0, <1>1, <1>6, <1>b, <2>1, <2>2, ExitOrder DEF t
<1>7. CASE rot_rdq_self
  <2>1. [kernel EXCEPT !.tcb[t].rotpri = tcb[t].bpriority].ready_queue = ready_queue
    BY <1>0 DEF KSet
  <2> QED BY <1>7, <1>b, <2>1 DEF rot_rdq_self, t
<1> QED BY <1>2, <1>3, <1>4, <1>5, <1>6, <1>7 DEF SelfAction

(* Enabled dispatching: a task that ends now does what ext_tsk() does.     *)
LEMMA EnableOrder ==
  ASSUME IInv, TaskUnlocked, EnableDispatch, enadsp' = TRUE, ipmall' = TRUE,
         UNCHANGED <<lock, excpt_nest_count>>
  PROVE  \A p \in TPri : OrderKept(p)
<1> DEFINE r == tcb[p_runtsk]
           k == set_dspflg(kernel)
<1>1. p_runtsk \in Task /\ Queued(kernel) # {} /\ TaskOK(r, Fixed(p_runtsk))
  BY Running DEF TaskUnlocked, IInv, TasksOK
<1>2. KernelOK(k) /\ k.ready_queue = ready_queue
  <2>1. set_dspflg(kernel).ready_queue = ready_queue
    BY Fields DEF set_dspflg, KSet, kernel, IInv
  <2> QED BY <1>1, <2>1, Fields, DispatchEnabled DEF IInv
<1>3. CASE r.raster /\ r.enater
  <2>1. ExitAndDispatch(k) /\ ~dspflg
    BY <1>1, <1>3 DEF EnableDispatch, TaskOK, Fixed
  <2>2. ext_tsk
    <3>1. ExitAndDispatch(IF dspflg THEN kernel ELSE set_dspflg(kernel))
      BY <2>1
    <3> QED BY <3>1 DEF ext_tsk, TaskUnlocked
  <2> HIDE DEF k
  <2> QED BY <1>1, <1>2, <2>1, <2>2, ExitOrder
<1>4. CASE ~(r.raster /\ r.enater)
  <2>1. ready_queue' = ready_queue
    BY <1>2, <1>4 DEF EnableDispatch, Dispatch, Update
  <2> QED BY <2>1, OrderUnchanged
<1> QED BY <1>3, <1>4

(* The modes of the processor, rotation and interrupts.                    *)
LEMMA SystemOrder ==
  ASSUME IInv, SystemAction, NEW p \in TPri
  PROVE  rot_rdq(p) \/ OrderKept(p)
<1>0. kernel \in KSet(TCB) /\ kernel.ready_queue = ready_queue
  BY Fields DEF IInv, kernel
<1>1. ASSUME NEW pri \in TPri, rot_rdq(pri), pri # p PROVE OrderKept(p)
  <2> DEFINE k2 == rotate_ready_queue(kernel, pri)
  <2>1. k2.ready_queue[p] = ready_queue[p]
    BY <1>0, <1>1 DEF rotate_ready_queue, KSet
  <2>2. ready_queue'[p] = ready_queue[p]
    BY <1>1, <2>1 DEF rot_rdq, Dispatch, Update
  <2>3. KeptOrder(ready_queue[p], ready_queue'[p], {})
    BY <2>2, OrderSame
  <2> QED BY <2>3 DEF OrderKept
<1>2. ASSUME Return([kernel EXCEPT !.dspflg = FALSE]) PROVE OrderKept(p)
  <2>1. ready_queue' = ready_queue
    BY <1>0, <1>2 DEF Return, Update, KSet
  <2> QED BY <2>1, OrderUnchanged
<1>3. CASE dis_dsp
  BY <1>2, <1>3 DEF dis_dsp
<1>4. CASE ena_dsp
  <2>1. CASE ipmall
    <3>1. TaskUnlocked /\ EnableDispatch /\ enadsp' = TRUE /\ ipmall' = TRUE
          /\ UNCHANGED <<lock, excpt_nest_count>>
      BY <1>4, <2>1 DEF ena_dsp
    <3> QED BY <3>1, EnableOrder
  <2>2. CASE ~ipmall
    <3>1. ready_queue' = ready_queue
      BY <1>0, <1>4, <2>2 DEF ena_dsp, Return, Update
    <3> QED BY <3>1, OrderUnchanged
  <2> QED BY <2>1, <2>2
<1>5. ASSUME NEW all \in BOOLEAN, chg_ipm(all) PROVE OrderKept(p)
  <2>1. CASE all /\ enadsp
    <3>1. TaskUnlocked /\ EnableDispatch /\ enadsp' \in {enadsp} /\ ipmall' = TRUE
          /\ UNCHANGED <<lock, excpt_nest_count>>
      BY <1>5, <2>1 DEF chg_ipm
    <3>2. enadsp' = TRUE
      BY <2>1, <3>1 DEF IInv, SInv, ModesOK
    <3> QED BY <3>1, <3>2, EnableOrder
  <2>2. CASE ~(all /\ enadsp)
    BY <1>2, <1>5, <2>2 DEF chg_ipm
  <2> QED BY <2>1, <2>2
<1>6. CASE loc_cpu \/ unl_cpu \/ irq_handler \/ irq_return
  <2>1. ready_queue' = ready_queue
    BY <1>6 DEF loc_cpu, unl_cpu, irq_handler, irq_return, sched
  <2> QED BY <2>1, OrderUnchanged
<1> QED BY <1>1, <1>2, <1>3, <1>4, <1>5, <1>6 DEF SystemAction

(* Tasks of one priority run in the order in which they became ready,      *)
(* whatever happens to others: only rot_rdq(), a new base priority or the  *)
(* end of a task puts it behind another.                                   *)
THEOREM FifoCorrect == Spec => FifoKept
<1> DEFINE Moved(p) == rot_rdq(p) \/ rot_rdq_locked \/ OrderKept(p)
<1>1. ASSUME IInv, [Next]_vars, NEW p \in TPri PROVE Moved(p)
  <2>1. CASE UNCHANGED vars
    <3>1. ready_queue' = ready_queue
      BY <2>1 DEF vars, sched
    <3> QED BY <3>1, OrderUnchanged
  <2>2. CASE Next
    BY <1>1, <2>2, TaskOrder, SelfOrder, SystemOrder DEF Next
  <2> QED BY <1>1, <2>1, <2>2
<1> DEFINE Step(p, i, j) ==
             LET a == ready_queue[p][i]
                 b == ready_queue[p][j]
                 q == ready_queue'[p]
             IN  i < j /\ a \in ToSet(q) /\ b \in ToSet(q) =>
                   \/ \E m, n \in DOMAIN q : m < n /\ q[m] = a /\ q[n] = b
                   \/ rot_rdq(p) \/ rot_rdq_locked \/ chg_pri(a, p)
                   \/ ter_tsk(a) \/ ras_ter(a) \/ (a = p_runtsk /\ (ext_tsk \/ ena_ter))
<1>2. ASSUME NEW p \in TPri, Moved(p),
             NEW i \in DOMAIN ready_queue[p], NEW j \in DOMAIN ready_queue[p]
      PROVE  Step(p, i, j)
  <2>1. CASE rot_rdq(p) \/ rot_rdq_locked
    BY <2>1
  <2>2. CASE OrderKept(p)
    <3>1. PICK X : /\ KeptOrder(ready_queue[p], ready_queue'[p], X)
                   /\ \A a \in X : MayFallBehind(a, p)
      BY <2>2 DEF OrderKept
    <3> QED BY <3>1 DEF KeptOrder, MayFallBehind
  <2> QED BY <1>2, <2>1, <2>2
<1> HIDE DEF Moved
<1>3. ASSUME IInv, [Next]_vars
      PROVE  \A p \in TPri : \A i, j \in DOMAIN ready_queue[p] : Step(p, i, j)
  BY <1>1, <1>2, <1>3
<1>4. IInv /\ [Next]_vars =>
        [\A p \in TPri : \A i, j \in DOMAIN ready_queue[p] : Step(p, i, j)]_vars
  BY <1>3
<1> QED BY <1>4, Inductive, PTL DEF Spec, FifoKept
--------------------------------------------------------------------------
(* Suspension.  A step writes one TCB, or none.                            *)
Others(t) == \A u \in Task : u # t => tcb'[u] = tcb[u]

LEMMA OthersOfOne ==
  ASSUME IInv, NEW t, NEW k, Dispatch(k) \/ Return(k) \/ Update(k),
         NEW d, k.tcb = [tcb EXCEPT ![t] = d]
  PROVE  Others(t) /\ (t \in Task => tcb'[t] = d)
<1>1. tcb' = [tcb EXCEPT ![t] = d] /\ tcb \in [Task -> TCB]
  BY Fields DEF Dispatch, Return, Update, IInv
<1> QED BY <1>1 DEF Others

(* A suspended task and the services that name it: all but three leave it  *)
(* suspended.                                                              *)
LEMMA TaskResumes ==
  ASSUME IInv, NEW t \in Task, TaskAction(t)
  PROVE  /\ Others(t)
         /\ Suspended(t) /\ Runnable(t)' => rsm_tsk(t) \/ ras_ter(t) \/ ter_tsk(t)
<1> DEFINE r == tcb[t]
           x == r.tstat
           Goal == /\ Others(t)
                   /\ \/ TSTAT_SUSPENDED(x) => ~TSTAT_RUNNABLE(tcb'[t].tstat)
                      \/ rsm_tsk(t) \/ ras_ter(t) \/ ter_tsk(t)
<1> SUFFICES Goal
  BY DEF Suspended, Runnable
<1>0. /\ kernel \in KSet(TCB) /\ kernel.tcb = tcb /\ tcb \in [Task -> TCB]
      /\ r \in TCB /\ x \in TStat
      /\ TSTAT_SUSPENDED(x) => ~TSTAT_RUNNABLE(x) /\ ~TSTAT_DORMANT(x)
      /\ ~TSTAT_DORMANT(x) => r.exists
      /\ TS_RUNNABLE \in TStat /\ TS_SUSPENDED \in TStat
      /\ ~TSTAT_RUNNABLE(TS_SUSPENDED)
  <2>1. /\ kernel \in KSet(TCB) /\ kernel.tcb = tcb /\ tcb \in [Task -> TCB]
        /\ TaskOK(r, Fixed(t))
    BY Fields DEF IInv, TasksOK
  <2>2. r \in TCB /\ x \in TStat
    BY <2>1 DEF TCB
  <2>3. TSTAT_SUSPENDED(x) => ~TSTAT_DORMANT(x)
    BY DEF TSTAT_SUSPENDED, TSTAT_DORMANT, TS_DORMANT
  <2> QED BY <2>1, <2>2, <2>3, Flags DEF TaskOK
<1>d. /\ make_runnable(set_tstat(kernel, t, TS_RUNNABLE), t).tcb
           = [tcb EXCEPT ![t].tstat = TS_RUNNABLE]
      /\ make_non_runnable(set_tstat(kernel, t, TS_SUSPENDED), t).tcb
           = [tcb EXCEPT ![t].tstat = TS_SUSPENDED]
  <2>1. kernel \in KSet(TCB) /\ TS_RUNNABLE \in TStat /\ TS_SUSPENDED \in TStat
    BY <1>0
  <2>2. /\ make_runnable(set_tstat(kernel, t, TS_RUNNABLE), t).tcb
             = [kernel.tcb EXCEPT ![t].tstat = TS_RUNNABLE]
        /\ make_non_runnable(set_tstat(kernel, t, TS_SUSPENDED), t).tcb
             = [kernel.tcb EXCEPT ![t].tstat = TS_SUSPENDED]
    BY <2>1, TcbAfterSet
  <2> QED BY <1>0, <2>2
<1>a. ASSUME NEW k, Dispatch(k) \/ Return(k), NEW d, k.tcb = [tcb EXCEPT ![t] = d],
             \/ TSTAT_SUSPENDED(x) => ~TSTAT_RUNNABLE(d.tstat)
             \/ rsm_tsk(t) \/ ras_ter(t) \/ ter_tsk(t)
      PROVE  Goal
  BY <1>a, OthersOfOne
<1>b. ASSUME NEW k, Dispatch(k) \/ Return(k), NEW y, k.tcb = [tcb EXCEPT ![t].tstat = y],
             \/ TSTAT_SUSPENDED(x) => ~TSTAT_RUNNABLE(y)
             \/ rsm_tsk(t) \/ ras_ter(t) \/ ter_tsk(t)
      PROVE  Goal
  <2> DEFINE d == [r EXCEPT !.tstat = y]
  <2>1. d.tstat = y
    BY <1>0 DEF TCB
  <2>2. k.tcb = [tcb EXCEPT ![t] = d]
    BY <1>b
  <2> HIDE DEF d
  <2> QED BY <1>a, <1>b, <2>1, <2>2
<1>c. ASSUME NEW k, Dispatch(k) \/ Return(k), NEW d, d.tstat = x,
             k.tcb = [tcb EXCEPT ![t] = d]
      PROVE  Goal
  BY <1>0, <1>a, <1>c
<1> HIDE DEF Goal
<1>1. CASE act_tsk(t)
  <2>1. CASE Dormant(t) /\ Dispatch(make_active(kernel, t))
    <3>1. make_active(kernel, t).tcb = [tcb EXCEPT ![t].tstat = TS_RUNNABLE]
      BY <1>d DEF make_active
    <3> QED BY <1>0, <1>b, <2>1, <3>1 DEF Dormant
  <2>2. CASE Return([kernel EXCEPT !.tcb[t].actque = TRUE])
    <3> DEFINE d == [r EXCEPT !.actque = TRUE]
    <3>1. d.tstat = x /\ [kernel EXCEPT !.tcb[t].actque = TRUE].tcb = [tcb EXCEPT ![t] = d]
      BY <1>0 DEF TCB, KSet
    <3> HIDE DEF d
    <3> QED BY <1>c, <2>2, <3>1
  <2> QED BY <1>1, <2>1, <2>2 DEF act_tsk
<1>2. CASE can_act(t)
  <2> DEFINE d == [r EXCEPT !.actque = FALSE]
  <2>1. d.tstat = x /\ [kernel EXCEPT !.tcb[t].actque = FALSE].tcb = [tcb EXCEPT ![t] = d]
    BY <1>0 DEF TCB, KSet
  <2> HIDE DEF d
  <2> QED BY <1>2, <1>c, <2>1 DEF can_act
<1>3. ASSUME NEW k, Dispatch(k),
             k = make_non_wait(set_wercd(wait_dequeue_tmevtb(kernel, t), t), t)
      PROVE  Goal
  <2> DEFINE y == IF TSTAT_SUSPENDED(x) THEN TS_SUSPENDED ELSE TS_RUNNABLE
  <2>1. k.tcb = [tcb EXCEPT ![t].tstat = y]
    BY <1>0, <1>3, TcbAfterWait
  <2>2. TSTAT_SUSPENDED(x) => ~TSTAT_RUNNABLE(y)
    BY <1>0
  <2> HIDE DEF y
  <2> QED BY <1>3, <1>b, <2>1, <2>2
<1>4. CASE wup_tsk(t)
  <2>1. CASE Dispatch(wait_complete(kernel, t))
    BY <1>3, <2>1 DEF wait_complete
  <2>2. CASE Return([kernel EXCEPT !.tcb[t].wupque = TRUE])
    <3> DEFINE d == [r EXCEPT !.wupque = TRUE]
    <3>1. d.tstat = x /\ [kernel EXCEPT !.tcb[t].wupque = TRUE].tcb = [tcb EXCEPT ![t] = d]
      BY <1>0 DEF TCB, KSet
    <3> HIDE DEF d
    <3> QED BY <1>c, <2>2, <3>1
  <2> QED BY <1>4, <2>1, <2>2 DEF wup_tsk
<1>5. CASE can_wup(t)
  <2> DEFINE d == [r EXCEPT !.wupque = FALSE]
  <2>1. d.tstat = x /\ [kernel EXCEPT !.tcb[t].wupque = FALSE].tcb = [tcb EXCEPT ![t] = d]
    BY <1>0 DEF TCB, KSet
  <2> HIDE DEF d
  <2> QED BY <1>5, <1>c, <2>1 DEF can_wup
<1>6. CASE rel_wai(t) \/ wait_tmout(t)
  BY <1>3, <1>6 DEF rel_wai, wait_tmout
<1>7. CASE sus_tsk(t)
  <2>0. ~TSTAT_SUSPENDED(x)
    BY <1>7 DEF sus_tsk, Suspended
  <2>1. CASE Dispatch(make_non_runnable(set_tstat(kernel, t, TS_SUSPENDED), t))
    <3>1. make_non_runnable(set_tstat(kernel, t, TS_SUSPENDED), t).tcb
            = [tcb EXCEPT ![t].tstat = TS_SUSPENDED]
      BY <1>d
    <3> QED BY <1>b, <2>0, <2>1, <3>1
  <2>2. CASE Return(set_tstat(kernel, t, x \cup TS_SUSPENDED))
    <3>1. set_tstat(kernel, t, x \cup TS_SUSPENDED).tcb
            = [tcb EXCEPT ![t].tstat = x \cup TS_SUSPENDED]
      BY <1>0 DEF set_tstat, KSet
    <3> QED BY <1>b, <2>0, <2>2, <3>1
  <2> QED BY <1>7, <2>1, <2>2 DEF sus_tsk
<1>8. CASE rsm_tsk(t)
  <2>1. CASE Dispatch(make_runnable(set_tstat(kernel, t, TS_RUNNABLE), t))
    <3>1. make_runnable(set_tstat(kernel, t, TS_RUNNABLE), t).tcb
            = [tcb EXCEPT ![t].tstat = TS_RUNNABLE]
      BY <1>d
    <3> QED BY <1>8, <1>b, <2>1, <3>1
  <2>2. CASE Return(set_tstat(kernel, t, x \ TS_SUSPENDED))
    <3>1. set_tstat(kernel, t, x \ TS_SUSPENDED).tcb
            = [tcb EXCEPT ![t].tstat = x \ TS_SUSPENDED]
      BY <1>0 DEF set_tstat, KSet
    <3> QED BY <1>8, <1>b, <2>2, <3>1
  <2> QED BY <1>8, <2>1, <2>2 DEF rsm_tsk
<1>9. ASSUME Dispatch(task_terminate(kernel, t)), ter_tsk(t) \/ ras_ter(t) PROVE Goal
  <2> DEFINE d == IF r.actque
                  THEN [DormantTCB(r) EXCEPT !.actque = FALSE, !.tstat = TS_RUNNABLE]
                  ELSE DormantTCB(r)
  <2>1. task_terminate(kernel, t).tcb = [tcb EXCEPT ![t] = d]
    BY <1>0, TcbAfterTerminate
  <2> HIDE DEF d
  <2> QED BY <1>9, <1>a, <2>1
<1>10. CASE ter_tsk(t)
  BY <1>9, <1>10 DEF ter_tsk
<1>11. ASSUME NEW pri \in TPri, chg_pri(t, pri) PROVE Goal
  <2> DEFINE mtxmode == FALSE
             k0 == [kernel EXCEPT !.tcb[t].bpriority = pri]
             k == change_priority(k0, t, pri, mtxmode)
             e == [r EXCEPT !.bpriority = pri]
             d == [e EXCEPT !.priority = pri]
  <2>1. Dispatch(k)
    BY <1>11 DEF chg_pri
  <2>2. e \in TCB /\ e.tstat = x
    BY <1>0, TCBFields DEF TCB
  <2>3. k0 = [kernel EXCEPT !.tcb = [tcb EXCEPT ![t] = e]]
    BY <1>0
  <2> HIDE DEF e, k0, r, mtxmode
  <2>4. k0 \in KSet(TCB) /\ k0.tcb = [tcb EXCEPT ![t] = e]
    BY <1>0, <2>2, <2>3 DEF KSet
  <2>5. k.tcb = [k0.tcb EXCEPT ![t].priority = pri]
    <3>1. k0 \in KSet(TCB)
      BY <2>4
    <3>2. \A m : change_priority(k0, t, pri, m).tcb = [k0.tcb EXCEPT ![t].priority = pri]
      BY <3>1, TcbAfterPriority
    <3> QED BY <3>2
  <2>6. k.tcb = [tcb EXCEPT ![t] = d] /\ d.tstat = x
    BY <1>0, <2>2, <2>4, <2>5 DEF TCB
  <2> HIDE DEF k, d
  <2> QED BY <1>c, <2>1, <2>6
<1>12. CASE ras_ter(t)
  <2> DEFINE k1 == [kernel EXCEPT !.tcb[t].raster = TRUE]
             k2 == IF Waiting(t) THEN set_wercd(wait_dequeue_tmevtb(k1, t), t)
                   ELSE k1
             k  == make_runnable(set_tstat(k2, t, TS_RUNNABLE), t)
             d  == [r EXCEPT !.raster = TRUE]
             e  == [d EXCEPT !.tstat = TS_RUNNABLE]
  <2>1. k1.tcb = [tcb EXCEPT ![t] = d] /\ k1 \in KSet(TCB)
    <3>1. Quiet(kernel, k1)
      BY <1>0, FlagChange
    <3>2. k1.tcb = [tcb EXCEPT ![t] = d]
      BY <1>0 DEF KSet
    <3> QED BY <3>1, <3>2 DEF Quiet
  <2>2. Dispatch(task_terminate(kernel, t)) \/ Return(k1) \/ Dispatch(k)
    BY <1>12 DEF ras_ter
  <2> HIDE DEF d, k1
  <2>3. k2.tcb = k1.tcb /\ k2 \in KSet(TCB)
    <3>1. k2 = IF Waiting(t) THEN wait_dequeue_tmevtb(k1, t) ELSE k1
      BY <2>1, CodeStored
    <3>2. /\ wait_dequeue_tmevtb(k1, t).tcb = k1.tcb
          /\ wait_dequeue_tmevtb(k1, t) \in KSet(TCB)
      BY <2>1 DEF wait_dequeue_tmevtb, KSet
    <3> HIDE DEF k2
    <3> QED BY <2>1, <3>1, <3>2
  <2> HIDE DEF k2
  <2>4. k.tcb = [k2.tcb EXCEPT ![t].tstat = TS_RUNNABLE]
    <3>1. k2 \in KSet(TCB) /\ TS_RUNNABLE \in TStat
      BY <1>0, <2>3
    <3> QED BY <3>1, TcbAfterSet
  <2>5. k.tcb = [tcb EXCEPT ![t] = e]
    <3>1. [k2.tcb EXCEPT ![t].tstat = TS_RUNNABLE] = [tcb EXCEPT ![t] = e]
      BY <1>0, <2>1, <2>3 DEF KSet
    <3> QED BY <2>4, <3>1
  <2> HIDE DEF k, e
  <2> QED BY <1>9, <1>12, <1>a, <2>1, <2>2, <2>5
<1>13. ASSUME NEW pri \in TPri, NEW tskatr \in SUBSET {"ACT"}, acre_tsk(t, pri, tskatr)
       PROVE  Goal
  <2> DEFINE d  == CreatedTCB(pri)
             e  == [d EXCEPT !.tstat = TS_RUNNABLE]
             k1 == [kernel EXCEPT !.tcb[t] = d]
  <2>0. ~TSTAT_SUSPENDED(x)
    BY <1>0, <1>13 DEF acre_tsk, Exists
  <2>1. d \in TCB
    BY Created
  <2>2. Dispatch(make_active(k1, t)) \/ Return(k1)
    BY <1>13 DEF acre_tsk
  <2> HIDE DEF d
  <2>3. k1.tcb = [tcb EXCEPT ![t] = d] /\ k1 \in KSet(TCB)
    BY <1>0, <2>1 DEF KSet
  <2> HIDE DEF k1
  <2>4. make_active(k1, t).tcb = [k1.tcb EXCEPT ![t].tstat = TS_RUNNABLE]
    <3>1. k1 \in KSet(TCB) /\ TS_RUNNABLE \in TStat
      BY <1>0, <2>3
    <3> QED BY <3>1, TcbAfterSet DEF make_active
  <2>5. make_active(k1, t).tcb = [tcb EXCEPT ![t] = e]
    <3>1. [k1.tcb EXCEPT ![t].tstat = TS_RUNNABLE] = [tcb EXCEPT ![t] = e]
      BY <1>0, <2>3 DEF KSet
    <3> QED BY <2>4, <3>1
  <2> HIDE DEF e
  <2> QED BY <1>a, <2>0, <2>2, <2>3, <2>5
<1>14. CASE del_tsk(t)
  <2> DEFINE d == [r EXCEPT !.exists = FALSE]
  <2>1. d.tstat = x /\ [kernel EXCEPT !.tcb[t].exists = FALSE].tcb = [tcb EXCEPT ![t] = d]
    BY <1>0 DEF TCB, KSet
  <2> HIDE DEF d
  <2> QED BY <1>14, <1>c, <2>1 DEF del_tsk
<1> QED BY <1>1, <1>2, <1>4, <1>5, <1>6, <1>7, <1>8, <1>10, <1>11, <1>12, <1>13, <1>14
        DEF TaskAction

(* The running task ends: nothing else changes.                            *)
LEMMA ExitOthers ==
  ASSUME IInv, p_runtsk \in Task, NEW k \in KSet(TCB), k.tcb = tcb, ExitAndDispatch(k)
  PROVE  Others(p_runtsk)
<1> DEFINE t == p_runtsk
           k1 == task_terminate(k, t)
           d == IF tcb[t].actque
                THEN [DormantTCB(tcb[t]) EXCEPT !.actque = FALSE, !.tstat = TS_RUNNABLE]
                ELSE DormantTCB(tcb[t])
<1>1. Update(k1)
  BY DEF ExitAndDispatch
<1>2. t \in Task
  OBVIOUS
<1> HIDE DEF t
<1>3. k1.tcb = [tcb EXCEPT ![t] = d]
  BY <1>2, TcbAfterTerminate
<1> HIDE DEF k1, d
<1>4. Others(t)
  BY <1>1, <1>3, OthersOfOne
<1> QED BY <1>4 DEF t

(* The services that act on the calling task, which is not suspended.      *)
LEMMA SelfOthers ==
  ASSUME IInv, SelfAction
  PROVE  Runnable(p_runtsk) /\ p_runtsk \in Task /\ Others(p_runtsk)
<1> DEFINE t == p_runtsk
           r == tcb[t]
<1>0. kernel \in KSet(TCB) /\ KernelOK(kernel) /\ kernel.tcb = tcb
  BY Fields DEF IInv
<1>1. t \in Task /\ r \in TCB /\ t \in Queued(kernel) /\ Runnable(t)
  <2>1. ~sense_context /\ p_runtsk # NULL
    BY DEF SelfAction, slp_tsk, dly_tsk, ext_tsk, dis_ter, ena_ter, rot_rdq_self,
           rot_rdq_locked, TaskUnlocked
  <2> QED BY <1>0, <2>1, Running DEF IInv, Queued, Runnable
<1> HIDE DEF t
<1>a. ASSUME NEW k, Dispatch(k) \/ Return(k), NEW d, k.tcb = [tcb EXCEPT ![t] = d]
      PROVE  Others(t)
  BY <1>a, OthersOfOne
<1>b. ASSUME NEW k \in KSet(TCB), k.tcb = tcb, ExitAndDispatch(k) PROVE Others(t)
  BY <1>1, <1>b, ExitOthers DEF t
<1>c. ASSUME NEW x \in TStat, NEW timed, Dispatch(make_wait_tmout(kernel, t, x, timed))
      PROVE  Others(t)
  <2> DEFINE d == [r EXCEPT !.tstat = x]
  <2>1. make_wait_tmout(kernel, t, x, timed).tcb = [tcb EXCEPT ![t] = d]
    BY <1>0, <1>1, TcbAfterBlock
  <2> HIDE DEF d
  <2> QED BY <1>a, <1>c, <2>1
<1>2. ASSUME NEW timed \in BOOLEAN, slp_tsk(timed) PROVE Others(t)
  <2>1. [kernel EXCEPT !.tcb[t].wupque = FALSE].tcb
          = [tcb EXCEPT ![t] = [r EXCEPT !.wupque = FALSE]]
    BY <1>0 DEF KSet
  <2>2. TS_WAITING_SLP \in TStat
    BY Flags
  <2> QED BY <1>2, <1>a, <1>c, <2>1, <2>2 DEF slp_tsk, t
<1>3. CASE dly_tsk
  <2>1. TS_WAITING_DLY \in TStat
    BY Flags
  <2>2. Others(t)
    BY <1>3, <1>c, <2>1 DEF dly_tsk, t
  <2> QED BY <1>1, <2>2 DEF t
<1>4. ASSUME ext_tsk PROVE Others(t)
  <2> DEFINE k == IF dspflg THEN kernel ELSE set_dspflg(kernel)
  <2>1. k \in KSet(TCB) /\ k.tcb = tcb
    <3>1. Queued(kernel) # {}
      BY <1>1
    <3> QED BY <1>0, <3>1, DispatchEnabled DEF KernelOK
  <2>2. ExitAndDispatch(k)
    BY <1>4 DEF ext_tsk
  <2> HIDE DEF k
  <2> QED BY <1>b, <2>1, <2>2
<1>5. ASSUME dis_ter PROVE Others(t)
  <2>1. [kernel EXCEPT !.tcb[t].enater = FALSE].tcb
          = [tcb EXCEPT ![t] = [r EXCEPT !.enater = FALSE]]
    BY <1>0 DEF KSet
  <2> QED BY <1>5, <1>a, <2>1 DEF dis_ter, t
<1>6. ASSUME ena_ter PROVE Others(t)
  <2>1. [kernel EXCEPT !.tcb[t].enater = TRUE].tcb
          = [tcb EXCEPT ![t] = [r EXCEPT !.enater = TRUE]]
    BY <1>0 DEF KSet
  <2>2. ExitAndDispatch(kernel) \/ Return([kernel EXCEPT !.tcb[t].enater = TRUE])
    BY <1>6 DEF ena_ter, t
  <2> QED BY <1>0, <1>a, <1>b, <2>1, <2>2
<1>7. ASSUME rot_rdq_self PROVE Others(t)
  <2>1. [kernel EXCEPT !.tcb[t].rotpri = r.bpriority].tcb
          = [tcb EXCEPT ![t] = [r EXCEPT !.rotpri = r.bpriority]]
    BY <1>0 DEF KSet
  <2> QED BY <1>7, <1>a, <2>1 DEF rot_rdq_self, t
<1>8. ASSUME rot_rdq_locked PROVE Others(t)
  <2> DEFINE k1 == [kernel EXCEPT !.tcb[t].rotpri = NoPri]
             d  == [r EXCEPT !.rotpri = NoPri]
  <2>1. k1.tcb = [tcb EXCEPT ![t] = d] /\ k1 \in KSet(TCB)
    <3>1. Quiet(kernel, k1)
      BY <1>0, <1>1, FlagChange
    <3>2. k1.tcb = [tcb EXCEPT ![t] = d]
      BY <1>0 DEF KSet
    <3> QED BY <3>1, <3>2 DEF Quiet
  <2>2. Dispatch(rotate_ready_queue(k1, r.rotpri)) /\ r.rotpri \in TPri
    BY <1>1, <1>8 DEF rot_rdq_locked, TCB, t
  <2> HIDE DEF k1, d
  <2>3. rotate_ready_queue(k1, r.rotpri).tcb = [tcb EXCEPT ![t] = d]
    BY <1>1, <2>1, <2>2, TcbKept
  <2> QED BY <1>a, <2>2, <2>3
<1>9. Others(t)
  <2>1. dly_tsk => Others(t)
    BY <1>3 DEF t
  <2> QED BY <1>2, <1>4, <1>5, <1>6, <1>7, <1>8, <2>1 DEF SelfAction
<1> QED BY <1>1, <1>9 DEF t

(* Enabled dispatching, with which the running task may end.               *)
LEMMA EnableOthers ==
  ASSUME IInv, TaskUnlocked, EnableDispatch
  PROVE  Runnable(p_runtsk) /\ p_runtsk \in Task /\ Others(p_runtsk)
<1> DEFINE k == set_dspflg(kernel)
<1>1. p_runtsk \in Task /\ Queued(kernel) # {} /\ Runnable(p_runtsk)
  BY Running DEF TaskUnlocked, IInv, Queued, Runnable, kernel
<1>2. k \in KSet(TCB) /\ k.tcb = tcb
  BY <1>1, Fields, DispatchEnabled DEF KernelOK, IInv
<1>3. ExitAndDispatch(k) \/ Dispatch(k)
  BY DEF EnableDispatch
<1> HIDE DEF k
<1>4. Dispatch(k) => Others(p_runtsk)
  BY <1>2 DEF Dispatch, Update, Others
<1> QED BY <1>1, <1>2, <1>3, <1>4, ExitOthers

(* The modes of the processor, rotation and interrupts.                    *)
LEMMA SystemOthers ==
  ASSUME IInv, SystemAction
  PROVE  \/ tcb' = tcb
         \/ Runnable(p_runtsk) /\ p_runtsk \in Task /\ Others(p_runtsk)
<1>0. kernel \in KSet(TCB) /\ kernel.tcb = tcb
  BY Fields DEF IInv
<1>1. ASSUME NEW pri \in TPri, rot_rdq(pri) PROVE tcb' = tcb
  <2>1. rotate_ready_queue(kernel, pri).tcb = kernel.tcb
    BY <1>0 DEF rotate_ready_queue, KSet
  <2> QED BY <1>0, <1>1, <2>1 DEF rot_rdq, Dispatch, Update
<1>2. Return([kernel EXCEPT !.dspflg = FALSE]) \/ Return(kernel) => tcb' = tcb
  BY <1>0 DEF Return, Update, KSet
<1>3. CASE dis_dsp
  BY <1>2, <1>3 DEF dis_dsp
<1>4. CASE ena_dsp
  BY <1>2, <1>4, EnableOthers DEF ena_dsp
<1>5. CASE \E all \in BOOLEAN : chg_ipm(all)
  BY <1>2, <1>5, EnableOthers DEF chg_ipm
<1>6. CASE loc_cpu \/ unl_cpu \/ irq_handler \/ irq_return
  BY <1>6 DEF loc_cpu, unl_cpu, irq_handler, irq_return, sched
<1> QED BY <1>1, <1>3, <1>4, <1>5, <1>6 DEF SystemAction

(* Nothing that ends a wait, and nothing a task does to itself, resumes a  *)
(* suspended task: only rsm_tsk(), ras_ter() and ter_tsk() do.             *)
THEOREM ResumptionCorrect == Spec => SuspendedUntilResumed
<1> DEFINE Resumed(u) == Suspended(u) /\ Runnable(u)' =>
                           rsm_tsk(u) \/ ras_ter(u) \/ ter_tsk(u)
<1>1. ASSUME IInv, NEW u \in Task, tcb'[u] = tcb[u] PROVE Resumed(u)
  <2>1. tcb[u].tstat \in TStat
    BY <1>1, Fields DEF IInv
  <2> QED BY <1>1, <2>1, Flags DEF Suspended, Runnable
<1>2. ASSUME IInv, Runnable(p_runtsk), p_runtsk \in Task, Others(p_runtsk),
             NEW u \in Task
      PROVE  Resumed(u)
  <2>1. CASE u = p_runtsk
    <3>1. tcb[u].tstat \in TStat
      BY <1>2, Fields DEF IInv
    <3>2. ~Suspended(u)
      BY <1>2, <2>1, <3>1, Flags DEF Suspended, Runnable
    <3> QED BY <3>2
  <2>2. CASE u # p_runtsk
    BY <1>1, <1>2, <2>2 DEF Others
  <2> QED BY <2>1, <2>2
<1>3. ASSUME IInv, NEW t \in Task, TaskAction(t), NEW u \in Task PROVE Resumed(u)
  <2>1. CASE u = t
    BY <1>3, <2>1, TaskResumes
  <2>2. CASE u # t
    <3>1. tcb'[u] = tcb[u]
      BY <1>3, <2>2, TaskResumes DEF Others
    <3> QED BY <1>1, <1>3, <3>1
  <2> QED BY <2>1, <2>2
<1> HIDE DEF Resumed
<1>4. ASSUME IInv, [Next]_vars, NEW u \in Task PROVE Resumed(u)
  <2>1. CASE UNCHANGED vars
    <3>1. tcb' = tcb
      BY <2>1 DEF vars, sched
    <3> QED BY <1>1, <1>4, <3>1
  <2>2. CASE SelfAction
    BY <1>2, <1>4, <2>2, SelfOthers
  <2>3. CASE SystemAction
    BY <1>1, <1>2, <1>4, <2>3, SystemOthers
  <2> QED BY <1>3, <1>4, <2>1, <2>2, <2>3 DEF Next
<1>5. IInv /\ [Next]_vars => [\A t \in Task : Resumed(t)]_vars
  BY <1>4
<1> QED BY <1>5, Inductive, PTL DEF Spec, SuspendedUntilResumed, Resumed
==========================================================================
