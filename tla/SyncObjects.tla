---------------------------- MODULE SyncObjects ---------------------------
(***************************************************************************)
(* The synchronization and communication objects over the one kernel that  *)
(* they share: a semaphore, an event flag, a memory pool, a data queue and *)
(* a priority data queue.  An application uses one of them, while task     *)
(* services and timeouts end its waits.                                    *)
(***************************************************************************)
EXTENDS SyncKernel

CONSTANTS
  Sem, TMAX_MAXSEM,
  Flg, Bit,
  Mpf, MaxBlkcnt, INDEX_NULL, INDEX_ALLOC,
  dtq_swait, dtq_rwait, Data, MaxDtqcnt,
  pdq_swait, pdq_rwait, Item, MaxPdqcnt

VARIABLES
  used,             \* the object that the application uses
  sem_exists, isemcnt, maxsem, semcnt,
  flg_exists, flgatr, iflgptn, flgptn,
  mpf_exists, blkcnt, fblkcnt, unused, freelist, next, held,
  p_dtqcb, dtq_received,
  p_pdqcb, pdq_received

semVars == <<sem_exists, isemcnt, maxsem, semcnt>>
flgVars == <<flg_exists, flgatr, iflgptn, flgptn>>
mpfVars == <<mpf_exists, blkcnt, fblkcnt, unused, freelist, next, held>>
dtqVars == <<p_dtqcb, dtq_received>>
pdqVars == <<p_pdqcb, pdq_received>>
vars == <<taskVars, used, semVars, flgVars, mpfVars, dtqVars, pdqVars>>

SEM == INSTANCE Semaphore WITH exists <- sem_exists
FLG == INSTANCE EventFlag WITH exists <- flg_exists
MPF == INSTANCE MemPool WITH exists <- mpf_exists
DTQ == INSTANCE DataQueue WITH received <- dtq_received
PDQ == INSTANCE PriDataQueue WITH received <- pdq_received

ASSUME SyncObjectsAssumption ==
  /\ SEM!SemaphoreAssumption /\ FLG!EventFlagAssumption /\ MPF!MemPoolAssumption
  /\ DTQ!DataQueueAssumption /\ PDQ!PriDataQueueAssumption
  /\ Cardinality({Sem, Flg, Mpf, dtq_swait, dtq_rwait, pdq_swait, pdq_rwait}) = 7
  /\ NULL \notin Data

Init ==
  /\ TaskInit
  /\ used \in {"sem", "flg", "mpf", "dtq", "pdq"}
  /\ SEM!ObjectInit /\ FLG!ObjectInit /\ MPF!ObjectInit
  /\ DTQ!ObjectInit /\ PDQ!ObjectInit

Next ==
  /\ UNCHANGED used
  /\ \/ TaskNext /\ UNCHANGED <<semVars, flgVars, mpfVars, dtqVars, pdqVars>>
     \/ /\ used = "sem" /\ SEM!Services
        /\ UNCHANGED <<flgVars, mpfVars, dtqVars, pdqVars>>
     \/ /\ used = "flg" /\ FLG!Services
        /\ UNCHANGED <<semVars, mpfVars, dtqVars, pdqVars>>
     \/ /\ used = "mpf" /\ MPF!Services
        /\ UNCHANGED <<semVars, flgVars, dtqVars, pdqVars>>
     \/ /\ used = "dtq" /\ DTQ!Services
        /\ UNCHANGED <<semVars, flgVars, mpfVars, pdqVars>>
     \/ /\ used = "pdq" /\ PDQ!Services
        /\ UNCHANGED <<semVars, flgVars, mpfVars, dtqVars>>

Spec == Init /\ [][Next]_vars

--------------------------------------------------------------------------
(* KernelOK (of SyncKernel) says what the objects do to the kernel's       *)
(* queues.                                                                 *)

(* Nobody waits in vain: no task waits for what is there or for an object  *)
(* that is not, whichever way the waits before its own ended: served,      *)
(* timed out, released, terminated, initialized or deleted.                *)
NobodyWaitsInVain ==
  /\ SEM!NobodyWaitsInVain
  /\ FLG!NobodyWaitsInVain
  /\ MPF!NobodyWaitsInVain
  /\ DTQ!NobodyWaitsInVain
  /\ PDQ!NobodyWaitsInVain

(* Every management area keeps what it holds: counts in range, a ring      *)
(* whose indexes and count agree, blocks of which each is in one list.     *)
StorageOK == SEM!CountOK /\ MPF!BlocksOK /\ DTQ!RingOK /\ PDQ!BlocksOK

(* The data queue is a bounded channel: what was sent is received in the   *)
(* order of acceptance, once and unchanged, over whichever of the ways     *)
(* (buffer, hand-over to a waiting receiver, data of a waiting sender),    *)
(* and what a sender offers while it waits is accepted or withdrawn.       *)
ChannelSpec == DTQ!Abstract!Spec

(* The priority data queue is such a channel with a lane for each data     *)
(* priority: what is received is the oldest of the highest priority that   *)
(* was accepted, however the blocks were reused.                           *)
PriChannelSpec == PDQ!Abstract!Spec
==========================================================================
