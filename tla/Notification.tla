--------------------------- MODULE Notification --------------------------
(***************************************************************************)
(* Cyclic and alarm notifications (kernel/cyclic.c and kernel/alarm.c),    *)
(* and tasks with a timeout, as the owners of time events over the heap of *)
(* TmevtHeap.  An event must be registered at most once, and a             *)
(* notification that does not exist lends its time event block to the list *)
(* of the free ones: whether it is registered is known only to its owner,  *)
(* by cycsta or almsta.                                                    *)
(*                                                                         *)
(* Every action is what is done under one CPU lock.  What a notification   *)
(* does when it happens (nfyhdr) comes after, among other actions.  All    *)
(* notifications are of those that are created and deleted at run time;    *)
(* static ones are never deleted.  The others of TMEVTB are the blocks of  *)
(* waiting tasks, see TimeEventsOK of TaskKernel.                          *)
(***************************************************************************)
EXTENDS TmevtHeap

CONSTANTS
  Cyclic, Alarm,   \* the time event blocks of notifications
  cyctim,          \* the period of the cyclic notifications
  BOUNDARY_MARGIN  \* how late an event may happen

ASSUME NotificationAssumption ==
  /\ Cyclic \subseteq TMEVTB /\ Alarm \subseteq TMEVTB \ Cyclic
  /\ cyctim \in Nat \ {0} /\ BOUNDARY_MARGIN \in Nat /\ cyctim + BOUNDARY_MARGIN < EVT

VARIABLES
  exists,   \* the notifications that exist, the other are in a free list
  sta       \* those whose cycsta or almsta is true

vars == <<heapVars, exists, sta>>

Waiting == TMEVTB \ (Cyclic \cup Alarm)

(* The boundary follows the current time at a distance.  An event is       *)
(* registered for the current time or later.                               *)
current_evttim == boundary_evttim + BOUNDARY_MARGIN
Time == {(current_evttim + t) % EVT : t \in 0..EVT-1-BOUNDARY_MARGIN}
due(e) == EVTTIM_ADVANCE(evttim[e]) <= BOUNDARY_MARGIN

Init == HeapInit /\ exists = {} /\ sta = {}

(* An event that is registered is registered anew.                         *)
restart(e, time) ==
  IF e \in sta THEN Update(tmevtb_insert([tmevtb_delete(Heap, e) EXCEPT !.evttim[e] = time], e))
  ELSE Insert(e, time)

--------------------------------------------------------------------------
(* cyclic.c.  A cyclic notification that is created may be started at      *)
(* once, cycphs decides when it first happens.                             *)

acre_cyc(e, cycatr, time) ==
  /\ e \notin exists
  /\ exists' = exists \cup {e}
  /\ IF "STA" \in cycatr THEN sta' = sta \cup {e} /\ Insert(e, time)
                          ELSE UNCHANGED <<sta, heapVars>>

sta_cyc(e, time) ==
  /\ e \in exists
  /\ sta' = sta \cup {e}
  /\ restart(e, time)
  /\ UNCHANGED exists

(* Before the handler runs, in the next period. *)
call_cyclic(k, e) ==
  tmevtb_insert([k EXCEPT !.evttim[e] = (evttim[e] + cyctim) % EVT], e)

--------------------------------------------------------------------------
(* alarm.c *)

acre_alm(e) ==
  /\ e \notin exists
  /\ exists' = exists \cup {e}
  /\ UNCHANGED <<sta, heapVars>>

sta_alm(e, time) ==
  /\ e \in exists
  /\ sta' = sta \cup {e}
  /\ restart(e, time)
  /\ UNCHANGED exists

(* It can be started again, before the handler runs. *)
bug_call_alarm(e) == sta

call_alarm(e) == sta \ {e}

--------------------------------------------------------------------------
(* The services that stop or delete are the same for both.                 *)

stop(e) ==
  /\ sta' = sta \ {e}
  /\ IF e \in sta THEN Delete(e) ELSE UNCHANGED heapVars

(* stp_cyc() and stp_alm(). *)
stp(e) ==
  /\ e \in exists
  /\ stop(e)
  /\ UNCHANGED exists

(* del_cyc() and del_alm(). *)
del(e) ==
  /\ e \in exists
  /\ stop(e)
  /\ exists' = exists \ {e}

(* signal_time(): the first event happens when its time has come.          *)
signal_time ==
  LET e == tmevt_heap[p_top_tmevtn] IN
  /\ p_last_tmevtn >= p_top_tmevtn
  /\ due(e)
  /\ IF e \in Cyclic THEN Update(call_cyclic(tmevtb_delete_top(Heap), e)) ELSE DeleteTop
  /\ sta' = IF e \in Alarm THEN call_alarm(e) ELSE sta
  /\ UNCHANGED exists

(* A wait with a timeout begins, or ends before its time.                  *)
wait(e) ==
  /\ \/ p_tmevtn[e] = 0 /\ \E time \in Time : Insert(e, time)
     \/ p_tmevtn[e] # 0 /\ Delete(e)
  /\ UNCHANGED <<exists, sta>>

Next ==
  \/ \E e \in Cyclic, time \in Time :
       sta_cyc(e, time) \/ \E cycatr \in SUBSET {"STA"} : acre_cyc(e, cycatr, time)
  \/ \E e \in Alarm : acre_alm(e) \/ \E time \in Time : sta_alm(e, time)
  \/ \E e \in Cyclic \cup Alarm : stp(e) \/ del(e)
  \/ \E e \in Waiting : wait(e)
  \/ signal_time
  \/ update_current_evttim /\ UNCHANGED <<exists, sta>>

Spec == Init /\ [][Next]_vars

--------------------------------------------------------------------------
(* A notification that is started has its event registered, once, and no   *)
(* other has: through every order of starting, restarting, stopping,       *)
(* happening, deleting and creating again.                                 *)
StartedIsRegistered ==
  /\ sta \subseteq exists
  /\ sta = {e \in Cyclic \cup Alarm : \E n \in 1..p_last_tmevtn : tmevt_heap[n] = e}
==========================================================================
