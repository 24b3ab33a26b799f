--------------------------- MODULE PriDataQueue ---------------------------
(***************************************************************************)
(* A priority data queue (kernel/pridataq.c), created and deleted at run   *)
(* time, and the tasks and handlers that use it.  Its management area is   *)
(* an array of blocks; a block is its index.  The lists that run through   *)
(* the blocks, of the data in the order of their priorities from p_head    *)
(* and of the returned blocks from p_freelist, are sequences of blocks.    *)
(* What a free block still contains is left out (NULL).                    *)
(***************************************************************************)
EXTENDS SyncKernel

CONSTANTS
  pdq_swait, pdq_rwait,    \* the wait queues
  Item,                    \* what is sent: records of datapri and data
  MaxPdqcnt                \* bound on the capacity of a priority data queue

PriDataQueueAssumption ==
  /\ {pdq_swait, pdq_rwait} \subseteq WaitQueue /\ pdq_swait # pdq_rwait
  /\ pdq_rwait \notin TPRI
  /\ \A item \in Item : item.datapri \in Nat \ {0}
  /\ NULL \notin Item /\ MaxPdqcnt \in Nat

VARIABLES
  p_pdqcb,    \* the PDQCB, with the fields of the PDQINIB and its blocks
  received    \* the item received last, by whichever task

vars == <<taskVars, p_pdqcb, received>>

swaiting == kernel.wait_queue[pdq_swait]
rwaiting == kernel.wait_queue[pdq_rwait]
exists   == p_pdqcb.exists     \* pdqatr is not TA_NOEXS

NoBlocks == [b \in 0..MaxPdqcnt-1 |-> NULL]

Empty(q) == [q EXCEPT !.count = 0, !.p_head = << >>, !.unused = 0,
                      !.p_freelist = << >>, !.p_pdqmb = NoBlocks]

ObjectInit ==
  /\ p_pdqcb = [exists |-> FALSE, pdqcnt |-> 0, count |-> 0, p_head |-> << >>,
                unused |-> 0, p_freelist |-> << >>,
                p_pdqmb |-> NoBlocks]
  /\ received = NULL

Init == TaskInit /\ ObjectInit

--------------------------------------------------------------------------
(* The management area. *)

(* Before the data of the same priority. *)
bug_behind(q, datapri) ==
  SelectInSeq(q.p_head, LAMBDA b : q.p_pdqmb[b].datapri >= datapri)

(* The place of the first data of a lower priority, 0 if there is none.    *)
behind(q, datapri) ==
  SelectInSeq(q.p_head, LAMBDA b : q.p_pdqmb[b].datapri > datapri)

enqueue_pridata(q, item) ==
  LET block == IF q.p_freelist # << >> THEN Head(q.p_freelist) ELSE q.unused
      place == behind(q, item.datapri)
  IN  [q EXCEPT
        !.p_freelist = IF @ # << >> THEN Tail(@) ELSE @,
        !.unused = IF q.p_freelist # << >> THEN @ ELSE @ + 1,
        !.p_pdqmb[block] = item,
        !.p_head = IF place = 0 THEN Append(@, block) ELSE InsertAt(@, place, block),
        !.count = @ + 1]

(* The block is not returned. *)
bug_dequeue_pridata(q) == [q EXCEPT !.p_head = Tail(@), !.count = @ - 1]

dequeue_pridata(q) ==
  [q EXCEPT !.p_head = Tail(@), !.count = @ - 1,
            !.p_freelist = Cons(Head(q.p_head), @),
            !.p_pdqmb[Head(q.p_head)] = NULL]

--------------------------------------------------------------------------
(* Sending and receiving. *)

(* The first waiting receiver gets the item, or it is stored. *)
send_pridata(item) ==
  \/ /\ rwaiting # << >>
     /\ received' = item
     /\ Dispatch(wait_complete([kernel EXCEPT !.wait_queue[pdq_rwait] = Tail(@)],
                               Head(rwaiting)))
     /\ UNCHANGED p_pdqcb
  \/ /\ rwaiting = << >> /\ p_pdqcb.count < p_pdqcb.pdqcnt
     /\ p_pdqcb' = enqueue_pridata(p_pdqcb, item)
     /\ UNCHANGED <<taskVars, received>>

(* The first waiting sender is released, its item taken.                   *)
sent == kernel.tcb[Head(swaiting)].winfo
release_sender ==
  Dispatch(wait_complete([kernel EXCEPT !.wait_queue[pdq_swait] = Tail(@)],
                         Head(swaiting)))

(* The senders wait on although there is room. *)
bug_receive_pridata ==
  \/ /\ p_pdqcb.count > 0
     /\ received' = p_pdqcb.p_pdqmb[Head(p_pdqcb.p_head)]
     /\ p_pdqcb' = dequeue_pridata(p_pdqcb)
     /\ UNCHANGED taskVars
  \/ /\ p_pdqcb.count = 0 /\ swaiting # << >>
     /\ received' = sent
     /\ release_sender
     /\ UNCHANGED p_pdqcb

receive_pridata ==
  \/ /\ p_pdqcb.count > 0
     /\ received' = p_pdqcb.p_pdqmb[Head(p_pdqcb.p_head)]
     /\ \/ /\ swaiting = << >>
           /\ p_pdqcb' = dequeue_pridata(p_pdqcb)
           /\ UNCHANGED taskVars
        \/ /\ swaiting # << >>
           /\ p_pdqcb' = enqueue_pridata(dequeue_pridata(p_pdqcb), sent)
           /\ release_sender
  \/ /\ p_pdqcb.count = 0 /\ swaiting # << >>
     /\ received' = sent
     /\ release_sender
     /\ UNCHANGED p_pdqcb

(* All tasks that wait are released, the senders first. *)
release_all == init_wait_queue(init_wait_queue(kernel, pdq_swait), pdq_rwait)

--------------------------------------------------------------------------
(* The services. *)

acre_pdq(cnt) ==
  /\ TaskContext /\ ~exists
  /\ p_pdqcb' = [Empty(p_pdqcb) EXCEPT !.exists = TRUE, !.pdqcnt = cnt]
  /\ UNCHANGED <<taskVars, received>>

del_pdq ==
  /\ TaskContext /\ exists
  /\ Dispatch(release_all)
  /\ p_pdqcb' = [p_pdqcb EXCEPT !.exists = FALSE]
  /\ UNCHANGED received

psnd_pdq(item) == AnyContext /\ exists /\ send_pridata(item)

(* snd_pdq() and tsnd_pdq(). *)
tsnd_pdq(item, timed) ==
  /\ TaskContext /\ exists
  /\ \/ send_pridata(item)
     \/ /\ rwaiting = << >> /\ p_pdqcb.count >= p_pdqcb.pdqcnt
        /\ wobj_wait(pdq_swait, TS_WAITING_SPDQ, item, timed)
        /\ UNCHANGED <<p_pdqcb, received>>

prcv_pdq == TaskContext /\ exists /\ receive_pridata

(* rcv_pdq() and trcv_pdq(). *)
trcv_pdq(timed) ==
  /\ TaskContext /\ exists
  /\ \/ receive_pridata
     \/ /\ p_pdqcb.count = 0 /\ swaiting = << >>
        /\ wobj_wait(pdq_rwait, TS_WAITING_RPDQ, NULL, timed)
        /\ UNCHANGED <<p_pdqcb, received>>

ini_pdq ==
  /\ TaskContext /\ exists
  /\ Dispatch(release_all)
  /\ p_pdqcb' = Empty(p_pdqcb)
  /\ UNCHANGED received

Services ==
  \/ \E cnt \in 0..MaxPdqcnt : acre_pdq(cnt)
  \/ \E item \in Item : psnd_pdq(item) \/ \E timed \in BOOLEAN : tsnd_pdq(item, timed)
  \/ prcv_pdq \/ \E timed \in BOOLEAN : trcv_pdq(timed)
  \/ del_pdq \/ ini_pdq

Next == Services \/ (TaskNext /\ UNCHANGED <<p_pdqcb, received>>)

Spec == Init /\ [][Next]_vars

--------------------------------------------------------------------------
(* Parts of the properties of SyncObjects. *)

(* No receiver waits while there are data or a sender waits, no sender     *)
(* while there is room, and nobody for a queue that is not.                *)
NobodyWaitsInVain ==
  /\ rwaiting # << >> => p_pdqcb.count = 0 /\ swaiting = << >>
  /\ swaiting # << >> => p_pdqcb.count = p_pdqcb.pdqcnt
  /\ (swaiting \o rwaiting) # << >> => exists

(* Every block used so far is in one list, once, and the data are sorted.  *)
BlocksOK ==
  /\ IsInjective(p_pdqcb.p_head \o p_pdqcb.p_freelist)
  /\ ToSet(p_pdqcb.p_head \o p_pdqcb.p_freelist) = 0..p_pdqcb.unused-1
  /\ p_pdqcb.count = Len(p_pdqcb.p_head)
  /\ p_pdqcb.unused <= p_pdqcb.pdqcnt
  /\ \A i, j \in DOMAIN p_pdqcb.p_head :
       i < j => p_pdqcb.p_pdqmb[p_pdqcb.p_head[i]].datapri
                  <= p_pdqcb.p_pdqmb[p_pdqcb.p_head[j]].datapri

(* The data of one priority in the order in which they are stored. *)
DPri == {item.datapri : item \in Item}

Lane(p) ==
  LET blocks == SelectSeq(p_pdqcb.p_head, LAMBDA b : p_pdqcb.p_pdqmb[b].datapri = p)
  IN  [i \in DOMAIN blocks |-> p_pdqcb.p_pdqmb[blocks[i]].data]

Abstract == INSTANCE PriChannel WITH
  Sender  <- Task,
  Nothing <- NULL,
  MaxCap  <- MaxPdqcnt,
  cap     <- IF exists THEN p_pdqcb.pdqcnt ELSE 0,
  lanes   <- [p \in DPri |-> IF exists THEN Lane(p) ELSE << >>],
  offered <- [t \in Task |-> IF "WAITING_SPDQ" \in tstat(t)
                             THEN kernel.tcb[t].winfo ELSE NULL],
  got     <- received
==========================================================================
