------------------------- MODULE MCInheritKernel -------------------------
(* Instances of InheritKernel for TLC. *)
EXTENDS InheritKernel

CONSTANTS t1, t2, t3, m1, m2, m3

MCceilpri == [m \in CEILING |-> 0]

MCrank == [m \in Mutex |-> CASE m = m1 -> 1 [] m = m2 -> 2 [] m = m3 -> 3]

SamePri == [t \in Task |-> TNUM_TPRI - 1]

Symmetry == Permutations(Task)

(* The mutex a task waited for last is not read any more.                  *)
View == <<[t \in Task |-> IF TSTAT_WAIT_MTX(tcb[t].tstat) THEN tcb[t]
                          ELSE [tcb[t] EXCEPT !.wobj = NULL]],
          ready_queue, p_schedtsk, dspflg, tmevtb, asserted,
          wait_queue, p_loctsk, p_runtsk, excpt_nest_count>>

(* Dispatching is disabled only while at most two tasks are active. *)
FewCombinations == dspflg \/ \E t \in Task : Dormant(t)
==========================================================================
