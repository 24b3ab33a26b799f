--------------------------- MODULE SchedLemmas ---------------------------
(***************************************************************************)
(* What the helpers of TaskSched do to the ready queues and to the task    *)
(* that should run, and what entering and leaving do to a wait queue:      *)
(* facts about single queues, then one lemma per helper.                   *)
(***************************************************************************)
EXTENDS TaskSched, QueueLemmas

--------------------------------------------------------------------------
(* Scheduler states.  C stands for the task control blocks.                *)
KSet(C) ==
  [tcb : [Task -> C], ready_queue : [TPri -> Seq(Task)],
   ready_primap : SUBSET TPri, p_schedtsk : Task \cup {NULL},
   dspflg : BOOLEAN, tmevtb : SUBSET Task, asserted : BOOLEAN]

AtPri(k, R, p) == {t \in R : k.tcb[t].priority = p}

(* The ready queues hold the tasks of R, each at its priority.             *)
ReadyOK(k, R) ==
  /\ R \subseteq Task
  /\ \A t \in Task : k.tcb[t].priority \in TPri
  /\ \A p \in TPri : QueueOf(k.ready_queue[p], AtPri(k, R, p))
  /\ \A p \in TPri : p \in k.ready_primap <=> AtPri(k, R, p) # {}

(* s is the first task of the highest priority.                            *)
IsFirst(k, R, s) ==
  /\ s \in R
  /\ s = Head(k.ready_queue[k.tcb[s].priority])
  /\ \A t \in R : k.tcb[s].priority <= k.tcb[t].priority

SchedOK(k, R) ==
  /\ k.dspflg => IF R = {} THEN k.p_schedtsk = NULL ELSE IsFirst(k, R, k.p_schedtsk)
  /\ ~k.dspflg => k.p_schedtsk \in R

KInv(k, R) == ReadyOK(k, R) /\ SchedOK(k, R)

(* The helpers of the ready queues change nothing else.                    *)
Same(k, k2) ==
  /\ k2.tcb = k.tcb
  /\ k2.dspflg = k.dspflg
  /\ k2.tmevtb = k.tmevtb
  /\ k2.asserted = k.asserted

(* A set of priorities has a highest one, which the bitmap search finds.   *)
LEMMA PrimapSearch ==
  ASSUME NEW map, map \subseteq TPri, map # {}
  PROVE  /\ primap_search(map) \in map
         /\ \A p \in map : primap_search(map) <= p
<1>1. map \subseteq Nat
  BY TNUM_TPRIAssumption DEF TPri
<1> QED BY <1>1, LeastNat DEF primap_search

(* search_schedtsk() finds the first task of the highest priority.         *)
LEMMA SearchFirst ==
  ASSUME NEW C, NEW k \in KSet(C), NEW R, ReadyOK(k, R), R # {}
  PROVE  IsFirst(k, R, search_schedtsk(k))
<1> DEFINE p == primap_search(k.ready_primap)
<1>1. \A t \in R : k.tcb[t].priority \in k.ready_primap
  BY DEF ReadyOK, AtPri
<1>2. k.ready_primap \subseteq TPri /\ k.ready_primap # {}
  BY <1>1 DEF KSet
<1>3. p \in k.ready_primap /\ \A q \in k.ready_primap : p <= q
  BY <1>2, PrimapSearch
<1> HIDE DEF p
<1>4. QueueOf(k.ready_queue[p], AtPri(k, R, p)) /\ AtPri(k, R, p) # {}
  BY <1>2, <1>3 DEF ReadyOK
<1>5. Head(k.ready_queue[p]) \in AtPri(k, R, p)
  BY <1>4, QueueHead
<1>6. search_schedtsk(k) = Head(k.ready_queue[p])
  BY DEF search_schedtsk, p
<1> QED BY <1>1, <1>3, <1>5, <1>6 DEF IsFirst, AtPri

(* set_dspflg() finds the task that should run again.                      *)
LEMMA SetDspflg ==
  ASSUME NEW C, NEW k \in KSet(C), NEW R, ReadyOK(k, R), R # {}
  PROVE  /\ set_dspflg(k) \in KSet(C)
         /\ KInv(set_dspflg(k), R)
         /\ set_dspflg(k).dspflg = TRUE
         /\ set_dspflg(k).tcb = k.tcb
         /\ set_dspflg(k).tmevtb = k.tmevtb
         /\ set_dspflg(k).asserted = k.asserted
<1> DEFINE k2 == set_dspflg(k)
<1>1. IsFirst(k, R, search_schedtsk(k))
  BY SearchFirst
<1>2. search_schedtsk(k) \in Task
  BY <1>1 DEF IsFirst, ReadyOK
<1>3. /\ k2 \in KSet(C)
      /\ k2.p_schedtsk = search_schedtsk(k)
      /\ k2.dspflg = TRUE
      /\ k2.tcb = k.tcb /\ k2.tmevtb = k.tmevtb /\ k2.asserted = k.asserted
      /\ k2.ready_queue = k.ready_queue /\ k2.ready_primap = k.ready_primap
  BY <1>2 DEF set_dspflg, KSet
<1> HIDE DEF k2
<1>4. ReadyOK(k2, R)
  BY <1>3 DEF ReadyOK, AtPri
<1>5. SchedOK(k2, R)
  BY <1>1, <1>3 DEF SchedOK, IsFirst
<1> QED BY <1>3, <1>4, <1>5 DEF KInv, k2

(* make_runnable() queues a task that is in no queue.                      *)
LEMMA MakeRunnable ==
  ASSUME NEW C, NEW k \in KSet(C), NEW R, KInv(k, R), NEW t \in Task, t \notin R
  PROVE  /\ make_runnable(k, t) \in KSet(C)
         /\ KInv(make_runnable(k, t), R \cup {t})
         /\ Same(k, make_runnable(k, t))
         /\ ~k.dspflg => make_runnable(k, t).p_schedtsk = k.p_schedtsk
<1> DEFINE k2  == make_runnable(k, t)
           pri == k.tcb[t].priority
           q   == k.ready_queue[pri]
           R2  == R \cup {t}
           s   == IF k.dspflg /\ (k.p_schedtsk = NULL \/ pri < k.tcb[k.p_schedtsk].priority)
                  THEN t ELSE k.p_schedtsk
<1>1. pri \in TPri /\ R \subseteq Task
  BY DEF KInv, ReadyOK
<1>2. /\ QueueOf(Append(q, t), AtPri(k, R, pri) \cup {t})
      /\ Append(q, t) # << >>
      /\ Head(Append(q, t)) = IF q = << >> THEN t ELSE Head(q)
  <2>1. QueueOf(q, AtPri(k, R, pri)) /\ t \notin AtPri(k, R, pri)
    BY <1>1 DEF KInv, ReadyOK, AtPri
  <2> QED BY <2>1, QueueAppend
<1>3. /\ k2 \in KSet(C)
      /\ Same(k, k2)
      /\ k2.ready_queue = [k.ready_queue EXCEPT ![pri] = Append(q, t)]
      /\ k2.ready_primap = k.ready_primap \cup {pri}
      /\ k2.p_schedtsk = s
  <2>1. Append(q, t) \in Seq(Task)
    <3>1. AtPri(k, R, pri) \cup {t} \subseteq Task
      BY <1>1 DEF AtPri
    <3> QED BY <1>2, <3>1, QueueIn
  <2> QED BY <1>1, <2>1 DEF make_runnable, KSet, Same
<1>4. \A p \in TPri : k2.ready_queue[p] = IF p = pri THEN Append(q, t)
                                                   ELSE k.ready_queue[p]
  BY <1>1, <1>3 DEF KSet
<1>5. \A p \in TPri : AtPri(k2, R2, p) = IF p = pri THEN AtPri(k, R, p) \cup {t}
                                                   ELSE AtPri(k, R, p)
  BY <1>3 DEF AtPri, Same
<1> HIDE DEF k2, s
<1>6. ReadyOK(k2, R2)
  <2>1. \A p \in TPri : QueueOf(k2.ready_queue[p], AtPri(k2, R2, p))
    BY <1>2, <1>4, <1>5 DEF KInv, ReadyOK
  <2>2. \A p \in TPri : p \in k2.ready_primap <=> AtPri(k2, R2, p) # {}
    BY <1>3, <1>5 DEF KInv, ReadyOK
  <2> QED BY <1>1, <1>3, <2>1, <2>2 DEF KInv, ReadyOK, Same
<1>7. SchedOK(k2, R2)
  <2>1. CASE ~k.dspflg
    BY <1>3, <2>1 DEF KInv, SchedOK, Same, s
  <2>2. CASE k.dspflg /\ s = t
    <3>1. \A u \in R : pri < k.tcb[u].priority
      <4>1. CASE R = {}
        BY <4>1
      <4>2. CASE R # {}
        <5>1. IsFirst(k, R, k.p_schedtsk)
          BY <2>2, <4>2 DEF KInv, SchedOK
        <5>2. k.p_schedtsk # NULL /\ k.p_schedtsk # t
          BY <1>1, <5>1, NULLAssumption DEF IsFirst
        <5>3. pri < k.tcb[k.p_schedtsk].priority
          BY <2>2, <5>2 DEF s
        <5>4. \A u \in Task : k.tcb[u].priority \in Int
          BY DEF KInv, ReadyOK, TPri
        <5> QED BY <1>1, <5>1, <5>3, <5>4 DEF IsFirst, TPri
      <4> QED BY <4>1, <4>2
    <3>2. \A u \in R : k.tcb[u].priority \in Int
      BY <1>1 DEF KInv, ReadyOK, TPri
    <3>3. pri \in Int
      BY <1>1 DEF TPri
    <3>4. AtPri(k, R, pri) = {}
      BY <3>1, <3>2, <3>3 DEF AtPri
    <3>5. q = << >>
      BY <1>1, <3>4, QueueHead DEF KInv, ReadyOK
    <3>6. k2.ready_queue[pri] = Append(q, t) /\ Head(Append(q, t)) = t
      BY <1>1, <1>2, <1>4, <3>5
    <3>7. IsFirst(k2, R2, t)
      <4>1. \A u \in R2 : pri <= k.tcb[u].priority
        BY <3>1, <3>2, <3>3
      <4>2. k2.tcb = k.tcb
        BY <1>3 DEF Same
      <4> QED BY <3>6, <4>1, <4>2 DEF IsFirst
    <3> QED BY <1>3, <2>2, <3>7 DEF SchedOK, Same
  <2>3. CASE k.dspflg /\ s # t
    <3> DEFINE s0 == k.p_schedtsk
    <3>1. s = s0 /\ s0 # NULL /\ ~(pri < k.tcb[s0].priority)
      BY <2>3 DEF s
    <3>2. IsFirst(k, R, s0)
      BY <2>3, <3>1 DEF KInv, SchedOK
    <3>3. /\ k.tcb[s0].priority \in TPri
          /\ s0 \in AtPri(k, R, k.tcb[s0].priority)
      BY <3>2 DEF IsFirst, KInv, ReadyOK, AtPri
    <3>4. k.ready_queue[k.tcb[s0].priority] # << >>
      BY <3>3, QueueHead DEF KInv, ReadyOK
    <3>5. Head(k2.ready_queue[k.tcb[s0].priority]) = s0
      BY <1>2, <1>4, <3>2, <3>3, <3>4 DEF IsFirst
    <3>6. k.tcb[s0].priority <= pri
      BY <1>1, <3>1, <3>3 DEF TPri
    <3>7. IsFirst(k2, R2, s0)
      BY <1>3, <3>2, <3>5, <3>6 DEF IsFirst, Same
    <3> QED BY <1>3, <2>3, <3>1, <3>7 DEF SchedOK, Same
  <2> QED BY <2>1, <2>2, <2>3
<1>8. ~k.dspflg => k2.p_schedtsk = k.p_schedtsk
  BY <1>3 DEF s
<1> QED BY <1>3, <1>6, <1>7, <1>8 DEF KInv, k2

(* make_non_runnable() takes a task out of its queue.  The code asserts    *)
(* that dispatching is possible if that changes the task that should run.  *)
LEMMA MakeNonRunnable ==
  ASSUME NEW C, NEW k \in KSet(C), NEW R, KInv(k, R), NEW t \in R,
         k.p_schedtsk = t => k.dspflg
  PROVE  /\ make_non_runnable(k, t) \in KSet(C)
         /\ KInv(make_non_runnable(k, t), R \ {t})
         /\ Same(k, make_non_runnable(k, t))
         /\ k.p_schedtsk # t => make_non_runnable(k, t).p_schedtsk = k.p_schedtsk
<1> DEFINE k2  == make_non_runnable(k, t)
           pri == k.tcb[t].priority
           q   == RemoveFirst(k.ready_queue[pri], t)
           R2  == R \ {t}
           k1  == [k EXCEPT !.ready_queue[pri] = q,
                            !.ready_primap = IF q = << >> THEN @ \ {pri} ELSE @]
           s   == IF k.p_schedtsk # t THEN k.p_schedtsk
                  ELSE IF q # << >> THEN Head(q)
                  ELSE IF k1.ready_primap = {} THEN NULL
                  ELSE search_schedtsk(k1)
<1>1. pri \in TPri /\ R \subseteq Task /\ t \in Task
  BY DEF KInv, ReadyOK
<1>2. /\ QueueOf(q, AtPri(k, R, pri) \ {t})
      /\ Head(k.ready_queue[pri]) # t => Head(q) = Head(k.ready_queue[pri])
  <2>1. QueueOf(k.ready_queue[pri], AtPri(k, R, pri)) /\ t \in AtPri(k, R, pri)
    BY <1>1 DEF KInv, ReadyOK, AtPri
  <2> HIDE DEF pri
  <2> QED BY <2>1, QueueRemove
<1>3. /\ q = << >> <=> AtPri(k, R, pri) \ {t} = {}
      /\ q \in Seq(Task)
  <2>1. AtPri(k, R, pri) \ {t} \subseteq Task
    BY <1>1 DEF AtPri
  <2> HIDE DEF q
  <2> QED BY <1>2, <2>1, QueueHead, QueueIn
<1>4. /\ k1 \in KSet(C)
      /\ Same(k, k1)
      /\ k1.ready_queue = [k.ready_queue EXCEPT ![pri] = q]
      /\ k1.ready_primap = IF q = << >> THEN k.ready_primap \ {pri} ELSE k.ready_primap
      /\ k1.p_schedtsk = k.p_schedtsk
  BY <1>1, <1>3 DEF KSet, Same
<1>5. \A p \in TPri : k1.ready_queue[p] = IF p = pri THEN q ELSE k.ready_queue[p]
  BY <1>1, <1>4 DEF KSet
<1>6. \A p \in TPri : AtPri(k1, R2, p) = IF p = pri THEN AtPri(k, R, p) \ {t}
                                                    ELSE AtPri(k, R, p)
  BY <1>4 DEF AtPri, Same
<1>7. k2 = IF k.p_schedtsk # t THEN k1
           ELSE [k1 EXCEPT !.asserted = @ /\ k.dspflg, !.p_schedtsk = s]
  BY DEF make_non_runnable
<1> HIDE DEF k2, k1, q
<1>8. ReadyOK(k1, R2)
  <2>1. \A p \in TPri : QueueOf(k1.ready_queue[p], AtPri(k1, R2, p))
    BY <1>2, <1>5, <1>6 DEF KInv, ReadyOK
  <2>2. ASSUME NEW p \in TPri PROVE p \in k1.ready_primap <=> AtPri(k1, R2, p) # {}
    <3>1. CASE p = pri
      <4>1. pri \in k.ready_primap
        BY <1>1 DEF KInv, ReadyOK, AtPri
      <4> QED BY <1>3, <1>4, <1>6, <3>1, <4>1
    <3>2. CASE p # pri
      BY <1>4, <1>6, <3>2 DEF KInv, ReadyOK
    <3> QED BY <3>1, <3>2
  <2> QED BY <1>1, <1>4, <2>1, <2>2 DEF KInv, ReadyOK, Same
<1>9. CASE k.p_schedtsk # t
  <2> DEFINE s0 == k.p_schedtsk
  <2>1. CASE ~k.dspflg
    <3>1. SchedOK(k1, R2)
      BY <1>4, <1>9, <2>1 DEF KInv, SchedOK, Same
    <3> QED BY <1>4, <1>7, <1>8, <1>9, <3>1 DEF KInv, k2
  <2>2. CASE k.dspflg
    <3>1. IsFirst(k, R, s0)
      BY <2>2 DEF KInv, SchedOK
    <3>2. k.tcb[s0].priority \in TPri
      BY <3>1 DEF IsFirst, KInv, ReadyOK
    <3>3. Head(k1.ready_queue[k.tcb[s0].priority]) = s0
      BY <1>2, <1>5, <1>9, <3>1, <3>2 DEF IsFirst
    <3>4. IsFirst(k1, R2, s0)
      BY <1>4, <1>9, <3>1, <3>3 DEF IsFirst, Same
    <3>5. SchedOK(k1, R2)
      BY <1>4, <2>2, <3>4 DEF SchedOK, IsFirst, Same
    <3> QED BY <1>4, <1>7, <1>8, <1>9, <3>5 DEF KInv, k2
  <2> QED BY <2>1, <2>2
<1>10. CASE k.p_schedtsk = t
  <2>1. k.dspflg = TRUE /\ IsFirst(k, R, t)
    BY <1>10 DEF KInv, SchedOK, KSet
  <2>2. IF R2 = {} THEN s = NULL ELSE IsFirst(k1, R2, s)
    <3>1. CASE q # << >>
      <4>1. Head(q) \in AtPri(k, R, pri) \ {t}
        BY <1>2, <3>1, QueueHead
      <4>2. Head(q) \in R2 /\ k.tcb[Head(q)].priority = pri
        BY <4>1 DEF AtPri
      <4>3. Head(k1.ready_queue[pri]) = Head(q)
        BY <1>1, <1>5
      <4>4. IsFirst(k1, R2, Head(q))
        BY <1>4, <2>1, <4>2, <4>3 DEF IsFirst, Same
      <4> QED BY <1>10, <3>1, <4>2, <4>4
    <3>2. CASE q = << >>
      <4>1. k1.ready_primap = {} <=> R2 = {}
        <5>1. k1.ready_primap \subseteq TPri
          BY <1>4 DEF KSet
        <5>2. \A p \in TPri : p \in k1.ready_primap <=> \E u \in R2 : k1.tcb[u].priority = p
          BY <1>8 DEF ReadyOK, AtPri
        <5>3. \A u \in R2 : k1.tcb[u].priority \in TPri
          BY <1>8 DEF ReadyOK
        <5> QED BY <5>1, <5>2, <5>3
      <4>2. R2 # {} => IsFirst(k1, R2, search_schedtsk(k1))
        BY <1>4, <1>8, SearchFirst
      <4> QED BY <1>10, <3>2, <4>1, <4>2
    <3> QED BY <3>1, <3>2
  <2>3. s \in Task \cup {NULL}
    BY <1>1, <2>2 DEF IsFirst
  <2> HIDE DEF s
  <2>4. k2 = [k1 EXCEPT !.asserted = @ /\ k.dspflg, !.p_schedtsk = s]
    BY <1>7, <1>10
  <2>5. k1.asserted \in BOOLEAN /\ (k1.asserted /\ k.dspflg) = k1.asserted
    BY <1>4, <2>1 DEF KSet
  <2>6. /\ k2 \in KSet(C)
        /\ Same(k, k2)
        /\ k2.ready_queue = k1.ready_queue
        /\ k2.ready_primap = k1.ready_primap
        /\ k2.p_schedtsk = s
    BY <1>4, <2>3, <2>4, <2>5 DEF KSet, Same
  <2>7. ReadyOK(k2, R2)
    <3>1. k2.tcb = k1.tcb
      BY <1>4, <2>6 DEF Same
    <3>2. \A p \in TPri : AtPri(k2, R2, p) = AtPri(k1, R2, p)
      BY <3>1 DEF AtPri
    <3> QED BY <1>8, <2>6, <3>1, <3>2 DEF ReadyOK
  <2>8. SchedOK(k2, R2)
    BY <1>4, <2>1, <2>2, <2>6 DEF SchedOK, IsFirst, Same
  <2> QED BY <1>10, <2>6, <2>7, <2>8 DEF KInv, k2
<1> QED BY <1>9, <1>10

(* rotate_ready_queue() moves the head of a queue to its tail.             *)
LEMMA RotateReadyQueue ==
  ASSUME NEW C, NEW k \in KSet(C), NEW R, KInv(k, R), NEW pri \in TPri
  PROVE  /\ rotate_ready_queue(k, pri) \in KSet(C)
         /\ KInv(rotate_ready_queue(k, pri), R)
         /\ Same(k, rotate_ready_queue(k, pri))
         /\ ~k.dspflg => rotate_ready_queue(k, pri).p_schedtsk = k.p_schedtsk
<1> DEFINE k2 == rotate_ready_queue(k, pri)
           q  == k.ready_queue[pri]
           r  == Append(Tail(q), Head(q))
           s  == IF k.dspflg /\ k.p_schedtsk = Head(q) THEN Head(Tail(q))
                 ELSE k.p_schedtsk
<1>1. CASE Len(q) < 2
  BY <1>1 DEF rotate_ready_queue, Same
<1>2. CASE ~(Len(q) < 2)
  <2>1. QueueOf(q, AtPri(k, R, pri)) /\ R \subseteq Task
    BY DEF KInv, ReadyOK
  <2>2. /\ QueueOf(r, AtPri(k, R, pri))
        /\ Head(r) = Head(Tail(q))
        /\ Head(Tail(q)) \in AtPri(k, R, pri)
        /\ q # << >>
    BY <1>2, <2>1, QueueRotate
  <2>3. Head(q) \in AtPri(k, R, pri)
    BY <2>1, <2>2, QueueHead
  <2>4. k2 = [k EXCEPT !.ready_queue[pri] = r, !.p_schedtsk = s]
    BY <1>2 DEF rotate_ready_queue
  <2> HIDE DEF r
  <2>5. s \in Task \cup {NULL}
    BY <2>1, <2>2 DEF KSet, AtPri
  <2>6. r \in Seq(Task)
    <3>1. AtPri(k, R, pri) \subseteq Task
      BY <2>1 DEF AtPri
    <3> QED BY <2>2, <3>1, QueueIn
  <2> HIDE DEF s, k2
  <2>7. /\ k2 \in KSet(C)
        /\ Same(k, k2)
        /\ k2.ready_queue = [k.ready_queue EXCEPT ![pri] = r]
        /\ k2.ready_primap = k.ready_primap
        /\ k2.p_schedtsk = s
    BY <2>4, <2>5, <2>6 DEF KSet, Same
  <2>8. \A p \in TPri : k2.ready_queue[p] = IF p = pri THEN r ELSE k.ready_queue[p]
    BY <2>7 DEF KSet
  <2>9. \A p \in TPri : AtPri(k2, R, p) = AtPri(k, R, p)
    BY <2>7 DEF AtPri, Same
  <2>10. ReadyOK(k2, R)
    BY <2>2, <2>7, <2>8, <2>9 DEF KInv, ReadyOK, Same
  <2>11. SchedOK(k2, R)
    <3>1. CASE ~k.dspflg
      BY <2>7, <3>1 DEF KInv, SchedOK, Same, s
    <3>2. CASE k.dspflg
      <4> DEFINE s0 == k.p_schedtsk
      <4>1. R # {} /\ IsFirst(k, R, s0)
        BY <2>3, <3>2 DEF KInv, SchedOK, AtPri
      <4>2. CASE s0 = Head(q)
        <5>1. s = Head(Tail(q))
          BY <3>2, <4>2 DEF s
        <5>2. s \in R /\ k.tcb[s].priority = pri /\ k.tcb[s0].priority = pri
          BY <2>2, <2>3, <4>2, <5>1 DEF AtPri
        <5>3. Head(k2.ready_queue[pri]) = s
          BY <2>2, <2>8, <5>1
        <5>4. IsFirst(k2, R, s)
          BY <2>7, <4>1, <5>2, <5>3 DEF IsFirst, Same
        <5> QED BY <2>7, <3>2, <4>1, <5>4 DEF SchedOK, Same
      <4>3. CASE s0 # Head(q)
        <5>1. s = s0
          BY <4>3 DEF s
        <5>2. k.tcb[s0].priority \in TPri /\ k.tcb[s0].priority # pri
          BY <4>1, <4>3 DEF IsFirst, KInv, ReadyOK
        <5>3. IsFirst(k2, R, s0)
          BY <2>7, <2>8, <4>1, <5>2 DEF IsFirst, Same
        <5> QED BY <2>7, <3>2, <4>1, <5>1, <5>3 DEF SchedOK, Same
      <4> QED BY <4>2, <4>3
    <3> QED BY <3>1, <3>2
  <2>12. ~k.dspflg => k2.p_schedtsk = k.p_schedtsk
    BY <2>7 DEF s
  <2> QED BY <2>7, <2>10, <2>11, <2>12 DEF KInv, k2
<1> QED BY <1>1, <1>2

(* The ready queue part of change_priority(): the task moves to the tail   *)
(* or to the head of the queue of its new priority.                        *)
LEMMA Requeue ==
  ASSUME NEW C, NEW k \in KSet(C), NEW R, KInv(k, R), NEW t \in R,
         NEW newpri \in TPri, NEW mtxmode \in BOOLEAN,
         NEW k1 \in KSet(C),
         \A u \in Task : k1.tcb[u].priority = IF u = t THEN newpri ELSE k.tcb[u].priority,
         k1.ready_queue = k.ready_queue, k1.ready_primap = k.ready_primap,
         k1.p_schedtsk = k.p_schedtsk, k1.dspflg = k.dspflg
  PROVE  LET k2 == requeue(k1, t, k.tcb[t].priority, newpri, mtxmode)
         IN  /\ k2 \in KSet(C)
             /\ KInv(k2, R)
             /\ Same(k1, k2)
             /\ ~k.dspflg => k2.p_schedtsk = k.p_schedtsk
<1> DEFINE k2   == requeue(k1, t, k.tcb[t].priority, newpri, mtxmode)
           old  == k.tcb[t].priority
           q    == RemoveFirst(k1.ready_queue[old], t)
           rq1  == [k1.ready_queue EXCEPT ![old] = q]
           base == rq1[newpri]
           ins  == IF mtxmode THEN Cons(t, base) ELSE Append(base, t)
           rq2  == [rq1 EXCEPT ![newpri] = ins]
           map  == (IF q = << >> THEN k1.ready_primap \ {old} ELSE k1.ready_primap)
                     \cup {newpri}
           k3   == [k1 EXCEPT !.ready_queue = rq2, !.ready_primap = map]
           s0   == k1.p_schedtsk
           moves == k1.dspflg /\ IF s0 = t THEN newpri >= old
                                ELSE newpri <= k1.tcb[s0].priority
           s    == IF ~moves THEN s0
                   ELSE IF s0 = t THEN search_schedtsk(k3) ELSE Head(ins)
<1>1. /\ R \subseteq Task /\ t \in Task /\ old \in TPri
      /\ \A u \in Task : k.tcb[u].priority \in TPri /\ k1.tcb[u].priority \in TPri
  BY DEF KInv, ReadyOK
<1>2. /\ QueueOf(q, AtPri(k, R, old) \ {t})
      /\ Head(k.ready_queue[old]) # t => Head(q) = Head(k.ready_queue[old])
  <2> DEFINE q0 == k1.ready_queue[old]
             S0 == AtPri(k, R, old)
  <2>1. QueueOf(q0, S0) /\ t \in S0
    BY <1>1 DEF KInv, ReadyOK, AtPri
  <2>2. /\ QueueOf(RemoveFirst(q0, t), S0 \ {t})
        /\ Head(q0) # t => Head(RemoveFirst(q0, t)) = Head(q0)
    <3> HIDE DEF q0, S0
    <3> QED BY <2>1, QueueRemove
  <2> QED BY <2>2
<1>3. k.ready_queue \in [TPri -> Seq(Task)] /\ q \in Seq(Task)
  <2>1. AtPri(k, R, old) \ {t} \subseteq Task
    BY <1>1 DEF AtPri
  <2>2. q \in Seq(Task)
    BY <1>2, <2>1, QueueIn
  <2> QED BY <2>2 DEF KSet
<1> HIDE DEF q
<1>4. \A p \in TPri : rq1[p] = IF p = old THEN q ELSE k.ready_queue[p]
  BY <1>3
<1>5. QueueOf(base, AtPri(k, R, newpri) \ {t})
  <2>1. CASE newpri = old
    BY <1>2, <1>4, <2>1
  <2>2. CASE newpri # old
    <3>1. AtPri(k, R, newpri) \ {t} = AtPri(k, R, newpri)
      BY <2>2 DEF AtPri
    <3> QED BY <1>4, <2>2, <3>1 DEF KInv, ReadyOK
  <2> QED BY <2>1, <2>2
<1>6. rq1 \in [TPri -> Seq(Task)]
  BY <1>3
<1> HIDE DEF rq1, base
<1>7. /\ QueueOf(ins, (AtPri(k, R, newpri) \ {t}) \cup {t})
      /\ ins # << >>
      /\ Head(ins) = IF mtxmode \/ base = << >> THEN t ELSE Head(base)
  <2> DEFINE S == AtPri(k, R, newpri) \ {t}
  <2>1. QueueOf(base, S) /\ t \notin S
    BY <1>5
  <2> HIDE DEF S
  <2>2. CASE mtxmode
    <3>1. /\ QueueOf(Cons(t, base), S \cup {t})
          /\ Cons(t, base) # << >> /\ Head(Cons(t, base)) = t
      BY ONLY <2>1, QueueCons
    <3>2. ins = Cons(t, base)
      BY <2>2
    <3> HIDE DEF ins
    <3> QED BY <2>2, <3>1, <3>2 DEF S
  <2>3. CASE ~mtxmode
    <3>1. /\ QueueOf(Append(base, t), S \cup {t})
          /\ Append(base, t) # << >>
          /\ Head(Append(base, t)) = IF base = << >> THEN t ELSE Head(base)
      BY ONLY <2>1, QueueAppend
    <3>2. ins = Append(base, t)
      BY <2>3
    <3> HIDE DEF ins
    <3> QED BY <2>3, <3>1, <3>2 DEF S
  <2> QED BY <2>2, <2>3
<1>8. ins \in Seq(Task)
  <2>1. (AtPri(k, R, newpri) \ {t}) \cup {t} \subseteq Task
    BY <1>1 DEF AtPri
  <2> QED BY <1>7, <2>1, QueueIn
<1> HIDE DEF ins
<1>9. \A p \in TPri : rq2[p] = IF p = newpri THEN ins
                               ELSE IF p = old THEN q ELSE k.ready_queue[p]
  BY <1>4, <1>6
<1>10. rq2 \in [TPri -> Seq(Task)] /\ map \subseteq TPri
  BY <1>6, <1>8 DEF KSet
<1> HIDE DEF rq2, map
<1>11. /\ k3 \in KSet(C)
       /\ Same(k1, k3)
       /\ k3.ready_queue = rq2
       /\ k3.ready_primap = map
       /\ k3.p_schedtsk = s0
  BY <1>10 DEF KSet, Same
<1>12. k2 = IF moves THEN [k3 EXCEPT !.p_schedtsk = s] ELSE k3
  <2>1. rq2[newpri] = ins
    BY <1>9
  <2>2. k2 = IF moves
             THEN [k3 EXCEPT !.p_schedtsk = IF k3.p_schedtsk = t THEN search_schedtsk(k3)
                                            ELSE Head(rq2[newpri])]
             ELSE k3
    BY Zenon DEF requeue, rq2, map, ins, base, rq1, q
  <2> HIDE DEF k2, k3
  <2> QED BY <1>11, <2>1, <2>2
<1> HIDE DEF k2, k3
<1>13. ASSUME NEW p \in TPri
       PROVE  AtPri(k3, R, p) = IF p = newpri THEN (AtPri(k, R, p) \ {t}) \cup {t}
                                ELSE AtPri(k, R, p) \ {t}
  BY <1>1, <1>11 DEF AtPri, Same
<1>14. ReadyOK(k3, R)
  <2>1. ASSUME NEW p \in TPri PROVE QueueOf(k3.ready_queue[p], AtPri(k3, R, p))
    <3>1. CASE p = newpri
      BY <1>7, <1>9, <1>11, <1>13, <3>1
    <3>2. CASE p # newpri /\ p = old
      BY <1>2, <1>9, <1>11, <1>13, <3>2
    <3>3. CASE p # newpri /\ p # old
      <4>1. AtPri(k, R, p) \ {t} = AtPri(k, R, p)
        BY <3>3 DEF AtPri
      <4> QED BY <1>9, <1>11, <1>13, <3>3, <4>1 DEF KInv, ReadyOK
    <3> QED BY <3>1, <3>2, <3>3
  <2>2. ASSUME NEW p \in TPri PROVE p \in k3.ready_primap <=> AtPri(k3, R, p) # {}
    <3>1. p \in k.ready_primap <=> AtPri(k, R, p) # {}
      BY DEF KInv, ReadyOK
    <3>2. CASE p = newpri
      BY <1>11, <1>13, <3>2 DEF map
    <3>3. CASE p # newpri /\ p = old
      <4>1. q = << >> <=> AtPri(k, R, old) \ {t} = {}
        BY <1>2, QueueHead
      <4>2. t \in AtPri(k, R, old)
        BY DEF AtPri
      <4> QED BY <1>11, <1>13, <3>1, <3>3, <4>1, <4>2 DEF map
    <3>4. CASE p # newpri /\ p # old
      <4>1. AtPri(k, R, p) \ {t} = AtPri(k, R, p)
        BY <3>4 DEF AtPri
      <4> QED BY <1>11, <1>13, <3>1, <3>4, <4>1 DEF map
    <3> QED BY <3>2, <3>3, <3>4
  <2>3. \A u \in Task : k3.tcb[u].priority \in TPri
    BY <1>1, <1>11 DEF Same
  <2> QED BY <1>1, <2>1, <2>2, <2>3 DEF ReadyOK
<1>15. \A u \in R : /\ k.tcb[u].priority \in Int /\ k3.tcb[u].priority \in Int
                    /\ k3.tcb[u].priority = IF u = t THEN newpri ELSE k.tcb[u].priority
  BY <1>1, <1>11 DEF Same, TPri
<1>16. newpri \in Int /\ old \in Int
  BY <1>1 DEF TPri
<1>17. ASSUME \A u \in R : u # t => newpri <= k.tcb[u].priority
       PROVE  IsFirst(k3, R, Head(ins))
  <2>1. Head(ins) \in (AtPri(k, R, newpri) \ {t}) \cup {t}
    BY <1>7, QueueHead
  <2>2. Head(ins) \in R /\ k3.tcb[Head(ins)].priority = newpri
    BY <1>15, <2>1 DEF AtPri
  <2>3. Head(k3.ready_queue[newpri]) = Head(ins)
    BY <1>9, <1>11
  <2>4. \A u \in R : newpri <= k3.tcb[u].priority
    BY <1>15, <1>16, <1>17
  <2> QED BY <2>2, <2>3, <2>4 DEF IsFirst
<1>18. k.dspflg => IsFirst(k, R, s0)
  BY DEF KInv, SchedOK
<1>19. k.dspflg => IsFirst(k3, R, s)
  <2> SUFFICES ASSUME k.dspflg PROVE IsFirst(k3, R, s)
    OBVIOUS
  <2>1. IsFirst(k, R, s0)
    BY <1>18
  <2>2. s0 \in R /\ \A u \in R : k.tcb[s0].priority <= k.tcb[u].priority
    BY <2>1 DEF IsFirst
  <2>3. CASE s0 = t /\ newpri >= old
    <3>1. s = search_schedtsk(k3)
      BY <2>3 DEF s
    <3> QED BY <1>11, <1>14, <3>1, SearchFirst
  <2>4. CASE s0 = t /\ ~(newpri >= old)
    <3>1. AtPri(k, R, newpri) \ {t} = {}
      BY <1>15, <1>16, <2>2, <2>4 DEF AtPri
    <3>2. base = << >>
      BY <1>5, <3>1, QueueHead
    <3>3. Head(ins) = t /\ s = t
      BY <1>7, <2>4, <3>2 DEF s
    <3>4. \A u \in R : u # t => newpri <= k.tcb[u].priority
      BY <1>15, <1>16, <2>2, <2>4
    <3> QED BY <1>17, <3>3, <3>4
  <2>5. k1.tcb[s0].priority = IF s0 = t THEN newpri ELSE k.tcb[s0].priority
    BY <1>1, <2>2
  <2>6. CASE s0 # t /\ newpri <= k.tcb[s0].priority
    <3>1. s = Head(ins)
      BY <2>5, <2>6 DEF s
    <3>2. \A u \in R : u # t => newpri <= k.tcb[u].priority
      BY <1>15, <1>16, <2>2, <2>6
    <3> QED BY <1>17, <3>1, <3>2
  <2>7. CASE s0 # t /\ ~(newpri <= k.tcb[s0].priority)
    <3>1. s = s0
      BY <2>5, <2>7 DEF s
    <3>2. k.tcb[s0].priority \in TPri /\ k.tcb[s0].priority # newpri
      BY <1>1, <1>16, <2>2, <2>7
    <3>3. Head(k.ready_queue[k.tcb[s0].priority]) = s0
      BY <2>1 DEF IsFirst
    <3>4. Head(k3.ready_queue[k.tcb[s0].priority]) = s0
      BY <1>2, <1>9, <1>11, <2>7, <3>2, <3>3
    <3>5. k3.tcb[s0].priority = k.tcb[s0].priority
      BY <1>15, <2>2, <2>7
    <3>6. \A u \in R : k.tcb[s0].priority <= k3.tcb[u].priority
      BY <1>15, <1>16, <2>2, <2>7
    <3> QED BY <2>2, <3>1, <3>4, <3>5, <3>6 DEF IsFirst
  <2> QED BY <2>3, <2>4, <2>6, <2>7
<1>20. s \in Task \cup {NULL}
  <2>1. CASE k.dspflg
    BY <1>1, <1>19, <2>1 DEF IsFirst
  <2>2. CASE ~k.dspflg
    BY <2>2 DEF s, KSet
  <2> QED BY <2>1, <2>2
<1>21. ~k.dspflg => s = s0
  BY DEF s
<1>22. ~moves => s = s0
  BY DEF s
<1> HIDE DEF s, moves
<1>23. /\ k2 \in KSet(C)
       /\ Same(k1, k2)
       /\ k2.tcb = k3.tcb
       /\ k2.ready_queue = k3.ready_queue
       /\ k2.ready_primap = k3.ready_primap
       /\ k2.p_schedtsk = s
  BY <1>11, <1>12, <1>20, <1>22 DEF KSet, Same
<1>24. \A p \in TPri : AtPri(k2, R, p) = AtPri(k3, R, p)
  BY <1>23 DEF AtPri
<1>25. ReadyOK(k2, R)
  BY <1>14, <1>23, <1>24 DEF ReadyOK
<1>26. SchedOK(k2, R)
  BY <1>19, <1>21, <1>23 DEF SchedOK, IsFirst, KInv, Same
<1> QED BY <1>21, <1>23, <1>25, <1>26 DEF KInv, k2

--------------------------------------------------------------------------
(* Wait queues: each waiting task is there once, in the order of the       *)
(* priorities if the queue is to be.                                       *)
Sorted(k, q) ==
  \A i, j \in 1..Len(q) :
    i < j => k.tcb[q[i]].priority <= k.tcb[q[j]].priority

(* q is the wait queue w, of the tasks S; those of TP are in the order of  *)
(* the priorities.                                                         *)
WaitQueueOK(TP, k, w, q, S) ==
  /\ QueueOf(q, S)
  /\ w \in TP => Sorted(k, q)

--------------------------------------------------------------------------
(* The order depends on the priorities of the tasks in the queue alone.    *)
LEMMA WaitQueueSame ==
  ASSUME NEW TP, NEW k, NEW k2, NEW w, NEW q, NEW S, WaitQueueOK(TP, k, w, q, S),
         \A u \in S : k2.tcb[u].priority = k.tcb[u].priority
  PROVE  WaitQueueOK(TP, k2, w, q, S)
<1>1. \A i \in 1..Len(q) : q[i] \in S
  BY QueueIndex DEF WaitQueueOK
<1>2. \A i \in 1..Len(q) : k2.tcb[q[i]].priority = k.tcb[q[i]].priority
  BY <1>1
<1>3. Sorted(k, q) => Sorted(k2, q)
  BY <1>2 DEF Sorted
<1> QED BY <1>3 DEF WaitQueueOK

(* The first task of a queue in priority order has the highest priority.   *)
LEMMA SortedHead ==
  ASSUME NEW k, NEW S, NEW q, QueueOf(q, S), Sorted(k, q), q # << >>,
         \A u \in S : k.tcb[u].priority \in TPri
  PROVE  \A u \in S : k.tcb[Head(q)].priority <= k.tcb[u].priority
<1>1. /\ Len(q) \in Nat /\ Len(q) > 0 /\ Head(q) = q[1] /\ Head(q) \in S
      /\ \A u \in S : \E i \in 1..Len(q) : q[i] = u
  BY QueueHead, QueueIndex
<1>2. ASSUME NEW u \in S PROVE k.tcb[q[1]].priority <= k.tcb[u].priority
  <2>1. PICK i \in 1..Len(q) : q[i] = u
    BY <1>1
  <2>2. CASE i = 1
    <3>1. k.tcb[q[1]].priority \in Int
      BY <1>1 DEF TPri
    <3> QED BY <2>1, <2>2, <3>1
  <2>3. CASE i # 1
    <3>1. 1 \in 1..Len(q) /\ 1 < i
      BY <1>1, <2>3
    <3> QED BY <2>1, <3>1 DEF Sorted
  <2> QED BY <2>2, <2>3
<1> QED BY <1>1, <1>2

(* A task leaves the queue, from its place or from the head.               *)
LEMMA SortedRemoved ==
  ASSUME NEW k, NEW S, NEW q, QueueOf(q, S), Sorted(k, q),
         NEW r, NEW i, Removed(q, r, i)
  PROVE  Sorted(k, r)
<1>1. Len(q) \in Nat /\ i \in 1..Len(q) /\ Len(r) = Len(q) - 1
  BY QueueIndex DEF Removed
<1> DEFINE from(j) == IF j < i THEN j ELSE j + 1
<1>2. \A j \in 1..Len(r) : from(j) \in 1..Len(q) /\ r[j] = q[from(j)]
  BY <1>1 DEF Removed
<1>3. \A j, m \in 1..Len(r) : j < m => from(j) < from(m)
  BY <1>1
<1> HIDE DEF from
<1> QED BY <1>2, <1>3 DEF Sorted

LEMMA WaitQueueRemove ==
  ASSUME NEW TP, NEW k, NEW w, NEW q, NEW S, WaitQueueOK(TP, k, w, q, S), NEW t \in S
  PROVE  WaitQueueOK(TP, k, w, RemoveFirst(q, t), S \ {t})
<1>1. PICK i \in 1..Len(q) : q[i] = t /\ Removed(q, RemoveFirst(q, t), i)
  BY QueueRemove DEF WaitQueueOK
<1>2. QueueOf(RemoveFirst(q, t), S \ {t})
  BY QueueRemove DEF WaitQueueOK
<1>3. w \in TP => Sorted(k, RemoveFirst(q, t))
  BY <1>1, SortedRemoved DEF WaitQueueOK
<1> QED BY <1>2, <1>3 DEF WaitQueueOK

LEMMA WaitQueueTail ==
  ASSUME NEW TP, NEW k, NEW w, NEW q, NEW S, WaitQueueOK(TP, k, w, q, S), q # << >>
  PROVE  WaitQueueOK(TP, k, w, Tail(q), S \ {Head(q)}) /\ Head(q) \in S
<1>1. QueueOf(Tail(q), S \ {Head(q)}) /\ Removed(q, Tail(q), 1) /\ Head(q) \in S
  BY QueueTail, QueueHead DEF WaitQueueOK
<1>2. w \in TP => Sorted(k, Tail(q))
  BY <1>1, SortedRemoved DEF WaitQueueOK
<1> QED BY <1>1, <1>2 DEF WaitQueueOK

(* A task is put behind all of the same or a higher priority.              *)
LEMMA InsertTpri ==
  ASSUME NEW k, NEW S, NEW q, QueueOf(q, S), Sorted(k, q), NEW t, t \notin S,
         \A u \in S \cup {t} : k.tcb[u].priority \in TPri
  PROVE  /\ QueueOf(queue_insert_tpri(k, q, t), S \cup {t})
         /\ Sorted(k, queue_insert_tpri(k, q, t))
<1> DEFINE T == S \cup {t}
           key == [u \in T |-> k.tcb[u].priority]
           i == SelectInSeq(q, LAMBDA u : k.tcb[t].priority < k.tcb[u].priority)
           r == queue_insert_tpri(k, q, t)
<1>1. \A u \in T : key[u] = k.tcb[u].priority /\ key[u] \in Int
  BY DEF TPri
<1>2. t \in T /\ \A j \in 1..Len(q) : q[j] \in T
  BY QueueIndex
<1>3. i = Place(key, q, t)
  <2>1. Behind(key, q, t) =
          {j \in 1..Len(q) : k.tcb[t].priority < k.tcb[q[j]].priority}
    BY <1>1, <1>2 DEF Behind
  <2> HIDE DEF key
  <2> QED BY <2>1 DEF SelectInSeq, Place
<1>4. r = PutAt(q, i, t)
  BY DEF queue_insert_tpri, PutAt
<1>5. SortedBy(key, q)
  BY <1>1, <1>2 DEF Sorted, SortedBy
<1> HIDE DEF key, i, r
<1>6. QueueOf(r, T) /\ SortedBy(key, r)
  BY <1>1, <1>3, <1>4, <1>5, InsertByKey
<1>7. \A j \in 1..Len(r) : r[j] \in T
  BY <1>6, QueueIndex
<1>8. Sorted(k, r)
  BY <1>1, <1>6, <1>7 DEF Sorted, SortedBy
<1> QED BY <1>6, <1>8 DEF r

(* How a task enters a queue.                                              *)
LEMMA WaitQueueInsert ==
  ASSUME NEW TP, NEW k, NEW w, NEW q, NEW S, WaitQueueOK(TP, k, w, q, S), NEW t, t \notin S,
         \A u \in S \cup {t} : k.tcb[u].priority \in TPri
  PROVE  WaitQueueOK(TP, k, w, IF w \in TP THEN queue_insert_tpri(k, q, t)
                                         ELSE Append(q, t), S \cup {t})
<1>1. CASE w \in TP
  BY <1>1, InsertTpri DEF WaitQueueOK
<1>2. CASE w \notin TP
  BY <1>2, QueueAppend DEF WaitQueueOK
<1> QED BY <1>1, <1>2
==========================================================================
