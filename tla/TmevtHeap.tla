---------------------------- MODULE TmevtHeap ----------------------------
(***************************************************************************)
(* The time event heap of kernel/time_event.c: a binary heap in an array,  *)
(* kept by moving an empty node up or down, with a pointer back from each  *)
(* event to its node, ordered by times that wrap around.                   *)
(***************************************************************************)
EXTENDS Integers, FiniteSets

CONSTANTS TMEVTB, NULL, EVT

ASSUME TmevtHeapAssumption == EVT \in Nat \ {0} /\ NULL \notin TMEVTB

VARIABLES
  tmevt_heap,        \* the event at each node, NULL behind the last node
  p_last_tmevtn,     \* the last node, 0 when the heap is empty
  p_tmevtn,          \* the node of each registered event, 0 for the others
  evttim, boundary_evttim

heapVars == <<tmevt_heap, p_last_tmevtn, p_tmevtn, evttim, boundary_evttim>>

Node == 1..Cardinality(TMEVTB)
p_top_tmevtn == 1

PARENT(n) == n \div 2
LCHILD(n) == n * 2

(* The boundary is ignored. *)
bug_EVTTIM_ADVANCE(t) == t

EVTTIM_ADVANCE(t) == (t - boundary_evttim) % EVT
EVTTIM_LT(t1, t2) == EVTTIM_ADVANCE(t1) < EVTTIM_ADVANCE(t2)
EVTTIM_LE(t1, t2) == EVTTIM_ADVANCE(t1) <= EVTTIM_ADVANCE(t2)

--------------------------------------------------------------------------
(* The helpers work on a record k of the first four variables.             *)
Heap == [node |-> tmevt_heap, last |-> p_last_tmevtn, back |-> p_tmevtn,
         evttim |-> evttim]

time_at(k, n) == k.evttim[k.node[n]]

put(k, n, e) == [k EXCEPT !.node[n] = e, !.back[e] = n]

(* tmevt_up() and tmevt_down() return the state of the heap and the place  *)
(* of the empty node.                                                      *)
RECURSIVE tmevt_up(_, _, _)
tmevt_up(k, n, time) ==
  IF n > p_top_tmevtn /\ ~EVTTIM_LE(time_at(k, PARENT(n)), time)
  THEN tmevt_up(put(k, n, k.node[PARENT(n)]), PARENT(n), time)
  ELSE [heap |-> k, at |-> n]

(* The child with the earlier time, the left one of equals.                *)
EarlierChild(k, n) ==
  IF LCHILD(n) + 1 <= k.last
     /\ EVTTIM_LT(time_at(k, LCHILD(n) + 1), time_at(k, LCHILD(n)))
  THEN LCHILD(n) + 1 ELSE LCHILD(n)

RECURSIVE tmevt_down(_, _, _)
tmevt_down(k, n, time) ==
  IF LCHILD(n) <= k.last /\ ~EVTTIM_LE(time, time_at(k, EarlierChild(k, n)))
  THEN tmevt_down(put(k, n, k.node[EarlierChild(k, n)]), EarlierChild(k, n), time)
  ELSE [heap |-> k, at |-> n]

(* The event has left the heap: what it and the node behind the last one   *)
(* still hold is meaningless.                                              *)
forget(k, e) ==
  [k EXCEPT !.node[k.last + 1] = NULL, !.back[e] = 0, !.evttim[e] = 0]

tmevtb_insert(k, e) ==
  LET up == tmevt_up([k EXCEPT !.last = @ + 1], k.last + 1, k.evttim[e])
  IN  put(up.heap, up.at, e)

(* The last event only moves down. *)
bug_tmevtb_delete(k, e) ==
  LET moved == k.node[k.last]
      k1   == [k EXCEPT !.last = @ - 1]
      hole == tmevt_down(k1, k.back[e], k.evttim[moved])
  IN  forget(IF k1.last < p_top_tmevtn THEN k1 ELSE put(hole.heap, hole.at, moved), e)

tmevtb_delete(k, e) ==
  LET n    == k.back[e]
      moved == k.node[k.last]
      time == k.evttim[moved]
      k1   == [k EXCEPT !.last = @ - 1]
      hole == IF n > p_top_tmevtn /\ EVTTIM_LT(time, time_at(k, PARENT(n)))
              THEN tmevt_up(put(k1, n, k.node[PARENT(n)]), PARENT(n), time)
              ELSE tmevt_down(k1, n, time)
  IN  forget(IF k1.last < p_top_tmevtn THEN k1 ELSE put(hole.heap, hole.at, moved), e)

tmevtb_delete_top(k) ==
  LET moved == k.node[k.last]
      k1   == [k EXCEPT !.last = @ - 1]
      hole == tmevt_down(k1, p_top_tmevtn, k.evttim[moved])
  IN  forget(IF k1.last < p_top_tmevtn THEN k1 ELSE put(hole.heap, hole.at, moved),
             k.node[p_top_tmevtn])

--------------------------------------------------------------------------
Update(k) ==
  /\ tmevt_heap' = k.node
  /\ p_last_tmevtn' = k.last
  /\ p_tmevtn' = k.back
  /\ evttim' = k.evttim
  /\ UNCHANGED boundary_evttim

HeapInit ==
  /\ tmevt_heap = [n \in Node |-> NULL]
  /\ p_last_tmevtn = 0
  /\ p_tmevtn = [e \in TMEVTB |-> 0]
  /\ evttim = [e \in TMEVTB |-> 0]
  /\ boundary_evttim = 0

(* Registered, without a look at whether it is already. *)
Insert(e, time) == Update(tmevtb_insert([Heap EXCEPT !.evttim[e] = time], e))

Delete(e) == Update(tmevtb_delete(Heap, e))

DeleteTop ==
  /\ p_last_tmevtn >= p_top_tmevtn
  /\ Update(tmevtb_delete_top(Heap))

(* The current time moves on, and the boundary behind it; BOUNDARY_MARGIN  *)
(* keeps it from reaching an event that is still registered.               *)
update_current_evttim ==
  /\ \A e \in TMEVTB : p_tmevtn[e] # 0 => EVTTIM_ADVANCE(evttim[e]) > 0
  /\ boundary_evttim' = (boundary_evttim + 1) % EVT
  /\ UNCHANGED <<tmevt_heap, p_last_tmevtn, p_tmevtn, evttim>>

--------------------------------------------------------------------------
(* The nodes up to the last one hold the registered events, each of which  *)
(* points back to its node, and no event is earlier than its parent, in    *)
(* the order the times have now: although times wrap around, the boundary  *)
(* moves, an event is deleted from the middle by way of that pointer, and  *)
(* the last one is moved up or down to its place.                          *)
HeapOK ==
  /\ \A n \in Node : n <= p_last_tmevtn =>
       tmevt_heap[n] # NULL /\ p_tmevtn[tmevt_heap[n]] = n
  /\ Cardinality({e \in TMEVTB : p_tmevtn[e] # 0}) = p_last_tmevtn
  /\ \A n \in 2..p_last_tmevtn :
       EVTTIM_LE(evttim[tmevt_heap[PARENT(n)]], evttim[tmevt_heap[n]])

(* The heap implements the queue of events.                                *)
Queue == INSTANCE EventQueue WITH
  registered <- {e \in TMEVTB : p_tmevtn[e] # 0},
  top <- IF p_last_tmevtn = 0 THEN NULL ELSE tmevt_heap[p_top_tmevtn]

QueueSpec == Queue!Spec
==========================================================================
