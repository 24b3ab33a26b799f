-------------------------- MODULE MutexCeilings --------------------------
(***************************************************************************)
(* The purpose of priority ceilings.  The application of MutexKernel, with *)
(* a history variable that says whether it has so far used the ceilings as *)
(* they are meant.                                                         *)
(***************************************************************************)
EXTENDS MutexKernel

VARIABLE disciplined

ceilingVars == <<vars, disciplined>>

CeilingInit == Init /\ disciplined = TRUE

CeilingNext ==
  \/ DisciplinedNext /\ UNCHANGED disciplined
  \/ UndisciplinedNext /\ disciplined' = FALSE

CeilingSpec == CeilingInit /\ [][CeilingNext]_ceilingVars

--------------------------------------------------------------------------
(* As long as no task waits and no base priority changes while a mutex is  *)
(* held, nobody ever finds a ceiling mutex locked: a task is put before    *)
(* its equals when it is raised to a ceiling and when it drops from one,   *)
(* so no task that may lock the mutex runs meanwhile.  Base priorities     *)
(* must not change while dispatching is disabled either: the running task  *)
(* may then not be the first of its priority, and a ceiling equal to its   *)
(* priority does not make it so.                                           *)
CeilingNeverBlocks ==
  disciplined => \A m \in CEILING :
    TaskContext /\ CeilingRespected(m) => p_loctsk[m] \in {NULL, p_runtsk}
==========================================================================
