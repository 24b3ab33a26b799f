----------------------------- MODULE MemPool -----------------------------
(***************************************************************************)
(* A fixed-sized memory pool (kernel/mempfix.c), created and deleted at    *)
(* run time, and the tasks that use it.  A block is its index.  The blocks *)
(* never handed out yet are those from `unused' on; those returned form a  *)
(* list through the management area.                                       *)
(***************************************************************************)
EXTENDS SyncKernel

CONSTANTS
  Mpf,           \* the wait queue of the pool
  MaxBlkcnt,     \* bound on the number of blocks
  INDEX_NULL, INDEX_ALLOC

MemPoolAssumption ==
  /\ Mpf \in WaitQueue
  /\ MaxBlkcnt \in Nat \ {0}
  /\ INDEX_NULL # INDEX_ALLOC
  /\ {INDEX_NULL, INDEX_ALLOC} \cap (0..MaxBlkcnt) = {}

VARIABLES
  exists,              \* mpfatr is not TA_NOEXS
  blkcnt, fblkcnt, unused, freelist,
  next,                \* p_mpfmb[].next
  held                 \* the blocks handed out and not returned, no part
                       \* of the code: the application's view

mpf  == <<exists, blkcnt, fblkcnt, unused, freelist, next, held>>
vars == <<taskVars, mpf>>

wait_queue == kernel.wait_queue[Mpf]

ObjectInit ==
  /\ exists = FALSE /\ blkcnt = 0 /\ fblkcnt = 0 /\ unused = 0
  /\ freelist = INDEX_NULL
  /\ next = [b \in 0..MaxBlkcnt-1 |-> 0]
  /\ held = {}

Init == TaskInit /\ ObjectInit

get_mpf_block ==
  LET blk == IF freelist # INDEX_NULL THEN freelist ELSE unused IN
  /\ fblkcnt' = fblkcnt - 1
  /\ unused' = IF freelist # INDEX_NULL THEN unused ELSE unused + 1
  /\ freelist' = IF freelist # INDEX_NULL THEN next[freelist] ELSE freelist
  /\ next' = [next EXCEPT ![blk] = INDEX_ALLOC]
  /\ held' = held \cup {blk}

(* The pool is full again: with an empty list, and the marks of the        *)
(* management area, whatever they are, behind `unused'.                    *)
Refill(cnt) ==
  /\ fblkcnt' = cnt /\ unused' = 0 /\ freelist' = INDEX_NULL
  /\ held' = {}
  /\ UNCHANGED next

--------------------------------------------------------------------------
(* The services.  The management area comes from the application or from   *)
(* malloc_mpk() and is not initialized: it keeps what it held.             *)
acre_mpf(cnt) ==
  /\ TaskContext /\ ~exists
  /\ exists' = TRUE /\ blkcnt' = cnt
  /\ Refill(cnt)
  /\ UNCHANGED taskVars

(* The memory goes back to its owner: no block is held any more.           *)
del_mpf ==
  /\ TaskContext /\ exists
  /\ Dispatch(init_wait_queue(kernel, Mpf))
  /\ exists' = FALSE /\ held' = {}
  /\ UNCHANGED <<blkcnt, fblkcnt, unused, freelist, next>>

pget_mpf ==
  /\ TaskContext /\ exists
  /\ fblkcnt > 0
  /\ get_mpf_block
  /\ UNCHANGED <<taskVars, exists, blkcnt>>

(* get_mpf() and tget_mpf(). *)
tget_mpf(timed) ==
  \/ pget_mpf
  \/ /\ TaskContext /\ exists
     /\ fblkcnt = 0
     /\ wobj_wait(Mpf, TS_WAITING_MPF, NULL, timed)
     /\ UNCHANGED mpf

(* What is handed over to a waiting task stays allocated.                  *)
return_block(blk) ==
  \/ /\ wait_queue # << >>
     /\ Dispatch(wait_complete([kernel EXCEPT !.wait_queue[Mpf] = Tail(@)],
                               Head(wait_queue)))
     /\ UNCHANGED mpf
  \/ /\ wait_queue = << >>
     /\ fblkcnt' = fblkcnt + 1
     /\ next' = [next EXCEPT ![blk] = freelist]
     /\ freelist' = blk
     /\ held' = held \ {blk}
     /\ UNCHANGED <<taskVars, exists, blkcnt, unused>>

(* A block the pool has not handed out since it was filled is accepted. *)
bug_rel_mpf(blk) ==
  /\ TaskContext /\ exists
  /\ next[blk] = INDEX_ALLOC
  /\ return_block(blk)

(* Whatever address the application gives, in the pool.                    *)
rel_mpf(blk) ==
  /\ TaskContext /\ exists
  /\ blk < unused
  /\ next[blk] = INDEX_ALLOC
  /\ return_block(blk)

ini_mpf ==
  /\ TaskContext /\ exists
  /\ Dispatch(init_wait_queue(kernel, Mpf))
  /\ Refill(blkcnt)
  /\ UNCHANGED <<exists, blkcnt>>

Services ==
  \/ \E cnt \in 1..MaxBlkcnt : acre_mpf(cnt)
  \/ \E timed \in BOOLEAN : tget_mpf(timed)
  \/ \E blk \in 0..MaxBlkcnt-1 : rel_mpf(blk)
  \/ pget_mpf \/ del_mpf \/ ini_mpf

Next == Services \/ (TaskNext /\ UNCHANGED mpf)

Spec == Init /\ [][Next]_vars

--------------------------------------------------------------------------
(* Parts of the properties of SyncObjects. *)

(* Nobody waits while a block is free.                                     *)
NobodyWaitsInVain == wait_queue # << >> => exists /\ fblkcnt = 0

(* Every block is held by the application, in the free list or not yet     *)
(* handed out, and in one of these places only: the list visits the        *)
(* returned blocks once each, fblkcnt counts the free ones, and exactly    *)
(* the blocks held may be returned, after any history of reinitializations *)
(* over the same management area.                                          *)
BlocksOK ==
  exists =>
       /\ unused \in 0..blkcnt /\ held \subseteq 0..unused-1
       /\ fblkcnt = blkcnt - Cardinality(held)
       /\ held = {b \in 0..unused-1 : next[b] = INDEX_ALLOC}
       /\ \E list \in SetToSeqs((0..unused-1) \ held) :
            LET chain == Append(list, INDEX_NULL) IN
            /\ freelist = chain[1]
            /\ \A i \in DOMAIN list : next[list[i]] = chain[i+1]
==========================================================================
