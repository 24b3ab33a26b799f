--------------------------- MODULE MCTaskKernel --------------------------
(* Instances of TaskKernel for TLC. *)
EXTENDS TaskKernel

CONSTANTS t1, t2, t3

(* The tasks that are created at run time are alike. *)
Symmetry == Permutations(Task \ Static)

(* Equal initial priorities, the lower of two. *)
SamePri == [t \in Static |-> TNUM_TPRI - 1]

(* Two tasks are free to do everything.  With a third one there are no     *)
(* queued requests, no disabled termination, no CPU lock, an open          *)
(* interrupt mask and at most one pending rot_rdq(TPRI_SELF), so that the  *)
(* orders of the ready queues are explored instead.                        *)
QueueOrders ==
  /\ \A t \in Task : Exists(t) /\ tcb[t].ipriority = TNUM_TPRI - 1
  /\ \A t \in Task : ~tcb[t].actque /\ ~tcb[t].wupque /\ tcb[t].enater
  /\ \A t \in Task : tcb[t].rotpri # NoPri => t = p_runtsk
  /\ ~lock /\ ipmall

FewCombinations == (\E t \in Task : tcb[t] = NoTCB) \/ QueueOrders
==========================================================================
