---------------------------- MODULE Semaphore ----------------------------
(***************************************************************************)
(* A semaphore (kernel/semaphore.c), created and deleted at run time, and  *)
(* the tasks and handlers that use it.                                     *)
(***************************************************************************)
EXTENDS SyncKernel

CONSTANTS
  Sem,         \* the wait queue of the semaphore
  TMAX_MAXSEM

SemaphoreAssumption == Sem \in WaitQueue /\ TMAX_MAXSEM \in Nat \ {0}

VARIABLES
  exists,            \* sematr is not TA_NOEXS
  isemcnt, maxsem,   \* of the SEMINIB
  semcnt

inib == <<exists, isemcnt, maxsem>>
object == <<inib, semcnt>>
vars == <<taskVars, object>>

wait_queue == kernel.wait_queue[Sem]

ObjectInit == exists = FALSE /\ isemcnt = 0 /\ maxsem = 1 /\ semcnt = 0

Init == TaskInit /\ ObjectInit

(* What an attempt to get a resource does when there is one. *)
GetResource ==
  /\ semcnt >= 1
  /\ semcnt' = semcnt - 1
  /\ UNCHANGED taskVars

--------------------------------------------------------------------------
acre_sem(icnt, max) ==
  /\ TaskContext
  /\ ~exists
  /\ icnt <= max
  /\ exists' = TRUE /\ isemcnt' = icnt /\ maxsem' = max
  /\ semcnt' = icnt
  /\ UNCHANGED taskVars

del_sem ==
  /\ TaskContext
  /\ exists
  /\ exists' = FALSE
  /\ Dispatch(init_wait_queue(kernel, Sem))
  /\ UNCHANGED <<isemcnt, maxsem, semcnt>>

(* The resource is counted and handed over. *)
bug_sig_sem ==
  /\ AnyContext /\ exists
  /\ semcnt < maxsem
  /\ semcnt' = semcnt + 1
  /\ Dispatch(IF wait_queue = << >> THEN kernel
              ELSE wait_complete([kernel EXCEPT !.wait_queue[Sem] = Tail(@)],
                                 Head(wait_queue)))
  /\ UNCHANGED inib

(* The first waiting task gets the resource, or it is counted. *)
sig_sem ==
  /\ AnyContext /\ exists
  /\ \/ /\ wait_queue # << >>
        /\ Dispatch(wait_complete([kernel EXCEPT !.wait_queue[Sem] = Tail(@)],
                                  Head(wait_queue)))
        /\ UNCHANGED semcnt
     \/ /\ wait_queue = << >>
        /\ semcnt < maxsem
        /\ semcnt' = semcnt + 1
        /\ UNCHANGED taskVars
  /\ UNCHANGED inib

pol_sem == TaskContext /\ exists /\ GetResource /\ UNCHANGED inib

(* wai_sem() and twai_sem(). *)
twai_sem(timed) ==
  /\ TaskContext /\ exists
  /\ \/ GetResource
     \/ /\ semcnt = 0
        /\ wobj_wait(Sem, TS_WAITING_SEM, NULL, timed)
        /\ UNCHANGED semcnt
  /\ UNCHANGED inib

ini_sem ==
  /\ TaskContext /\ exists
  /\ Dispatch(init_wait_queue(kernel, Sem))
  /\ semcnt' = isemcnt
  /\ UNCHANGED inib

Services ==
  \/ \E icnt \in 0..TMAX_MAXSEM, max \in 1..TMAX_MAXSEM : acre_sem(icnt, max)
  \/ del_sem \/ sig_sem \/ pol_sem \/ ini_sem
  \/ \E timed \in BOOLEAN : twai_sem(timed)

Next == Services \/ (TaskNext /\ UNCHANGED object)

Spec == Init /\ [][Next]_vars

--------------------------------------------------------------------------
(* Parts of the properties of SyncObjects. *)

(* No task waits while a resource is there or the semaphore is not.        *)
NobodyWaitsInVain == wait_queue # << >> => exists /\ semcnt = 0

CountOK == semcnt \in 0..maxsem
==========================================================================
