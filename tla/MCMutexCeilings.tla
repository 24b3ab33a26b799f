-------------------------- MODULE MCMutexCeilings -------------------------
(* An instance of MutexCeilings for TLC. *)
EXTENDS MutexCeilings

CONSTANTS t1, t2, t3, m1, m2, m3

(* The ceilings are above the initial priorities. *)
MCceilpri == [m \in CEILING |-> IF m = m1 THEN 0 ELSE 1]

SamePri == [t \in Task |-> TNUM_TPRI - 1]

Symmetry == Permutations(Task)

(* The mutex a task waited for last is not read any more.                  *)
View == <<[t \in Task |-> IF TSTAT_WAIT_MTX(tcb[t].tstat) THEN tcb[t]
                          ELSE [tcb[t] EXCEPT !.wobj = NULL]],
          ready_queue, p_schedtsk, dspflg, tmevtb, asserted, wait_queue,
          p_loctsk, existing, p_runtsk, excpt_nest_count, disciplined>>
(* When all three tasks are active only two of the mutexes are there.      *)
FewCombinations ==
  (\E t \in Task : Dormant(t)) \/ (\E m \in Mutex : m \notin existing)
==========================================================================
