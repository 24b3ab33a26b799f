--------------------------- MODULE MessageBuffer --------------------------
(***************************************************************************)
(* A message buffer (extension/messagebuf): a ring of bytes that holds     *)
(* messages of different sizes, each behind a word with its size.  Unlike  *)
(* the other objects it lets one step release several senders, and a       *)
(* sender that gives up at the head of the queue may let others in, so     *)
(* that wait_dequeue_wobj() calls back into the message buffer.            *)
(*                                                                         *)
(* What the free part of the ring still contains is left out (NULL).       *)
(***************************************************************************)
EXTENDS SyncKernel

CONSTANTS
  mbf_swait, mbf_rwait,    \* the wait queues; both FIFO, mbfatr is TA_NULL
  Msg, Size,               \* messages, and the size of each
  WORD,                    \* sizeof(uint_t)
  mbfsz                    \* size of the management area

ASSUME MessageBufferAssumption ==
  /\ WaitQueue = {mbf_swait, mbf_rwait} /\ mbf_swait # mbf_rwait
  /\ TPRI = {}
  /\ Size \in [Msg -> Nat \ {0}] /\ NULL \notin Msg
  /\ WORD \in Nat \ {0} /\ mbfsz \in Nat \ {0} /\ mbfsz % WORD = 0

VARIABLES
  p_mbfcb,      \* the MBFCB, with its management area
  received      \* the message received last, as the bytes that were copied

vars == <<taskVars, p_mbfcb, received>>

swaiting == kernel.wait_queue[mbf_swait]
rwaiting == kernel.wait_queue[mbf_rwait]

Bytes(msg) == [i \in 1..Size[msg] |-> <<msg, i>>]

EmptyBuffer == [fmbfsz |-> mbfsz, head |-> 0, tail |-> 0, smbfcnt |-> 0,
                mbuffer |-> [i \in 0..mbfsz-1 |-> NULL]]

Init == TaskInit /\ p_mbfcb = EmptyBuffer /\ received = << >>

--------------------------------------------------------------------------
(* The management area. *)

ROUND_SZ(sz) == ((sz + WORD - 1) \div WORD) * WORD

allocsz(sz) == WORD + ROUND_SZ(sz)

(* The head or tail at the end of the area goes on at its start. *)
bug_Wrap(i) == IF i > mbfsz THEN 0 ELSE i

Wrap(i) == IF i >= mbfsz THEN 0 ELSE i

(* The body of a message whose size word is at p: where the bytes are, and *)
(* where the next message begins.  What does not fit up to the end of the  *)
(* area continues at its start.                                            *)
body(p, sz) ==
  LET start == Wrap(p + WORD)
      remsz == mbfsz - start
  IN  [byte |-> [i \in 1..sz |-> IF remsz < sz /\ i > remsz THEN i - remsz - 1
                                 ELSE start + i - 1],
       next |-> Wrap(IF remsz < sz THEN ROUND_SZ(sz - remsz) ELSE start + ROUND_SZ(sz))]

Fits(q, msg) == allocsz(Size[msg]) <= q.fmbfsz

enqueue_message(q, msg) ==
  LET b == body(q.tail, Size[msg]) IN
  [q EXCEPT
    !.mbuffer = [i \in 0..mbfsz-1 |->
                   IF i = q.tail THEN Size[msg]
                   ELSE IF \E j \in DOMAIN b.byte : b.byte[j] = i
                   THEN <<msg, CHOOSE j \in DOMAIN b.byte : b.byte[j] = i>>
                   ELSE q.mbuffer[i]],
    !.tail = b.next,
    !.fmbfsz = @ - allocsz(Size[msg]),
    !.smbfcnt = @ + 1]

(* The size word is not given back. *)
bug_dequeue_message(q) ==
  LET sz == q.mbuffer[q.head]
      b  == body(q.head, sz)
  IN  [q EXCEPT
        !.mbuffer = [i \in 0..mbfsz-1 |->
                       IF i = q.head \/ (\E j \in DOMAIN b.byte : b.byte[j] = i)
                       THEN NULL ELSE q.mbuffer[i]],
        !.head = b.next,
        !.fmbfsz = @ + ROUND_SZ(sz),
        !.smbfcnt = @ - 1]

dequeue_message(q) ==
  LET sz == q.mbuffer[q.head]
      b  == body(q.head, sz)
  IN  [q EXCEPT
        !.mbuffer = [i \in 0..mbfsz-1 |->
                       IF i = q.head \/ (\E j \in DOMAIN b.byte : b.byte[j] = i)
                       THEN NULL ELSE q.mbuffer[i]],
        !.head = b.next,
        !.fmbfsz = @ + allocsz(sz),
        !.smbfcnt = @ - 1]

Oldest(q) ==
  LET byte == body(q.head, q.mbuffer[q.head]).byte IN
  [i \in DOMAIN byte |-> q.mbuffer[byte[i]]]

--------------------------------------------------------------------------
(* Senders.  s is the kernel and the message buffer.                       *)

(* One turn of the loop of messagebuf_signal(), for the task t: it ends at *)
(* the first task whose message does not fit, which stays at the head.     *)
signal_one(s, t) ==
  LET msg == s.k.tcb[t].winfo IN
  IF Head(s.k.wait_queue[mbf_swait]) = t /\ Fits(s.q, msg)
  THEN [k |-> wait_complete([s.k EXCEPT !.wait_queue[mbf_swait] = Tail(@)], t),
        q |-> enqueue_message(s.q, msg)]
  ELSE s

(* At most one sender is let in. *)
bug_messagebuf_signal(s) ==
  IF s.k.wait_queue[mbf_swait] = << >> THEN s
  ELSE signal_one(s, Head(s.k.wait_queue[mbf_swait]))

messagebuf_signal(s) == FoldLeft(signal_one, s, s.k.wait_queue[mbf_swait])

(* The others at the head of the queue are forgotten. *)
bug_mbf_dequeue_wobj(s, t) == [s EXCEPT !.k = wait_dequeue_wobj(@, t)]

(* wait_dequeue_wobj() of this extension, with messagebuf_dequeue_wobj().  *)
mbf_dequeue_wobj(s, t) ==
  LET s1 == [s EXCEPT !.k = wait_dequeue_wobj(@, t)] IN
  IF "WAITING_SMBF" \in s.k.tcb[t].tstat THEN messagebuf_signal(s1) ELSE s1

(* The end of a service call. *)
Apply(s) == Dispatch(s.k) /\ p_mbfcb' = s.q

--------------------------------------------------------------------------
(* Task services that end a wait, as in SyncKernel but for the hook.       *)

mbf_end_wait(t) ==
  LET s == mbf_dequeue_wobj([k |-> kernel, q |-> p_mbfcb], t) IN
  [s EXCEPT !.k = wait_dequeue_tmevtb(@, t)]

rel_wai_mbf(t) ==
  LET s == mbf_end_wait(t) IN
  /\ AnyContext
  /\ Waiting(t)
  /\ Apply([s EXCEPT !.k = make_non_wait(set_wercd(@, t), t)])
  /\ UNCHANGED received

wait_tmout_mbf(t) ==
  LET s == mbf_end_wait(t) IN
  /\ sense_context
  /\ t \in kernel.tmevtb
  /\ Apply([s EXCEPT !.k = make_non_wait(set_wercd(@, t), t)])
  /\ UNCHANGED received

ter_tsk_mbf(t) ==
  LET s == IF TSTAT_RUNNABLE(tstat(t)) THEN [k |-> make_non_runnable(kernel, t), q |-> p_mbfcb]
           ELSE mbf_end_wait(t)
  IN  /\ TaskContext
      /\ t # p_runtsk /\ ~Dormant(t)
      /\ Apply([s EXCEPT !.k.tcb[t] = DormantTCB(t)])
      /\ UNCHANGED received

--------------------------------------------------------------------------
(* The services. *)

(* The new message passes the senders that wait. *)
bug_send_message(msg) ==
  \/ /\ rwaiting # << >>
     /\ received' = Bytes(msg)
     /\ Dispatch(wait_complete([kernel EXCEPT !.wait_queue[mbf_rwait] = Tail(@)],
                               Head(rwaiting)))
     /\ UNCHANGED p_mbfcb
  \/ /\ rwaiting = << >> /\ Fits(p_mbfcb, msg)
     /\ p_mbfcb' = enqueue_message(p_mbfcb, msg)
     /\ UNCHANGED <<taskVars, received>>

(* The first waiting receiver gets the message, or it is stored unless     *)
(* others wait to send theirs.                                             *)
send_message(msg) ==
  \/ /\ rwaiting # << >>
     /\ received' = Bytes(msg)
     /\ Dispatch(wait_complete([kernel EXCEPT !.wait_queue[mbf_rwait] = Tail(@)],
                               Head(rwaiting)))
     /\ UNCHANGED p_mbfcb
  \/ /\ rwaiting = << >> /\ swaiting = << >> /\ Fits(p_mbfcb, msg)
     /\ p_mbfcb' = enqueue_message(p_mbfcb, msg)
     /\ UNCHANGED <<taskVars, received>>

(* psnd_mbf(), of tasks only. *)
psnd_mbf(msg) == TaskContext /\ send_message(msg)

(* snd_mbf() and tsnd_mbf(). *)
tsnd_mbf(msg, timed) ==
  /\ TaskContext
  /\ \/ send_message(msg)
     \/ /\ rwaiting = << >> /\ (swaiting # << >> \/ ~Fits(p_mbfcb, msg))
        /\ wobj_wait(mbf_swait, TS_WAITING_SMBF, msg, timed)
        /\ UNCHANGED <<p_mbfcb, received>>

receive_message ==
  \/ /\ p_mbfcb.smbfcnt > 0
     /\ received' = Oldest(p_mbfcb)
     /\ Apply(messagebuf_signal([k |-> kernel, q |-> dequeue_message(p_mbfcb)]))
  \/ /\ p_mbfcb.smbfcnt = 0 /\ swaiting # << >>
     /\ received' = Bytes(kernel.tcb[Head(swaiting)].winfo)
     /\ Dispatch(wait_complete([kernel EXCEPT !.wait_queue[mbf_swait] = Tail(@)],
                               Head(swaiting)))
     /\ UNCHANGED p_mbfcb

prcv_mbf == TaskContext /\ receive_message

(* rcv_mbf() and trcv_mbf(). *)
trcv_mbf(timed) ==
  /\ TaskContext
  /\ \/ receive_message
     \/ /\ p_mbfcb.smbfcnt = 0 /\ swaiting = << >>
        /\ wobj_wait(mbf_rwait, TS_WAITING_RMBF, NULL, timed)
        /\ UNCHANGED <<p_mbfcb, received>>

ini_mbf ==
  /\ TaskContext
  /\ Dispatch(init_wait_queue(init_wait_queue(kernel, mbf_swait), mbf_rwait))
  /\ p_mbfcb' = EmptyBuffer
  /\ UNCHANGED received

Next ==
  \/ \E t \in Task : rel_wai_mbf(t) \/ wait_tmout_mbf(t) \/ ter_tsk_mbf(t)
  \/ /\ \/ \E t \in Task : act_tsk(t) \/ \E pri \in TPri : chg_pri(t, pri)
        \/ ext_tsk \/ irq_handler \/ irq_return
     /\ UNCHANGED <<p_mbfcb, received>>
  \/ \E msg \in Msg : psnd_mbf(msg) \/ \E timed \in BOOLEAN : tsnd_mbf(msg, timed)
  \/ prcv_mbf \/ \E timed \in BOOLEAN : trcv_mbf(timed)
  \/ ini_mbf

Spec == Init /\ [][Next]_vars

--------------------------------------------------------------------------
(* Properties. *)

(* Where the i-th message of the buffer begins, the first being the 0-th;  *)
(* the last of these is where the next one will.                           *)
Start(q) ==
  LET start[i \in 0..q.smbfcnt] ==
        IF i = 0 THEN q.head
        ELSE (start[i-1] + allocsz(q.mbuffer[start[i-1]])) % mbfsz
  IN  start

(* The messages in the buffer, oldest first, as they would be read.        *)
Stored(q) ==
  LET start == Start(q) IN
  [i \in 1..q.smbfcnt |-> Oldest([q EXCEPT !.head = start[i-1]])]

(* No sender at the head of the queue waits although its message fits, no  *)
(* receiver while there is a message or a sender, and the ring agrees with *)
(* its indexes and its free size: after whichever sequence of messages of  *)
(* different sizes, of senders that gave up and of reinitializations.      *)
MessageBufferOK ==
  /\ KernelOK
  /\ swaiting # << >> => ~Fits(p_mbfcb, kernel.tcb[Head(swaiting)].winfo)
  /\ rwaiting # << >> => p_mbfcb.smbfcnt = 0 /\ swaiting = << >>
  /\ p_mbfcb.tail = Start(p_mbfcb)[p_mbfcb.smbfcnt]
  /\ p_mbfcb.fmbfsz = mbfsz - FoldLeft(LAMBDA sum, bytes : sum + allocsz(Len(bytes)),
                                       0, Stored(p_mbfcb))

Abstract == INSTANCE MsgChannel WITH
  Message <- {Bytes(msg) : msg \in Msg},
  Cost    <- LAMBDA bytes : allocsz(Len(bytes)),
  Cap     <- mbfsz,
  ch      <- Stored(p_mbfcb),
  offers  <- [i \in DOMAIN swaiting |-> Bytes(kernel.tcb[swaiting[i]].winfo)],
  got     <- received

(* Messages arrive whole and in the order in which they were sent, however *)
(* the ring wraps: a step lets out the oldest message only, and lets in    *)
(* those of waiting senders as far as they fit, the longest waiting first, *)
(* also when one of them gives up.                                         *)
MsgChannelSpec == Abstract!Spec
==========================================================================
