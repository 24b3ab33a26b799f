---------------------------- MODULE EventFlag ----------------------------
(***************************************************************************)
(* An event flag (kernel/eventflag.c), created and deleted at run time,    *)
(* and the tasks and handlers that use it.  A bit pattern is the set of    *)
(* its bits.  The pattern returned to the caller is left out.              *)
(***************************************************************************)
EXTENDS SyncKernel

CONSTANTS Flg, Bit

EventFlagAssumption == Flg \in WaitQueue /\ Bit # {}

VARIABLES
  exists,       \* flgatr is not TA_NOEXS
  flgatr,       \* the attributes "TA_CLR" and "TA_WMUL" it has
  iflgptn, flgptn

inib == <<exists, flgatr, iflgptn>>
object == <<inib, flgptn>>
vars == <<taskVars, object>>

wait_queue == kernel.wait_queue[Flg]
FLGPTN == SUBSET Bit
Condition == [waiptn : FLGPTN \ {{}}, wfmode : {"TWF_ORW", "TWF_ANDW"}]

ObjectInit == exists = FALSE /\ flgatr = {} /\ iflgptn = {} /\ flgptn = {}

Init == TaskInit /\ ObjectInit

(* check_flg_cond(): whether the condition holds in a pattern, and what    *)
(* the pattern is after it held.                                           *)
flg_cond(ptn, c) ==
  IF c.wfmode = "TWF_ORW" THEN ptn \cap c.waiptn # {} ELSE c.waiptn \subseteq ptn

after_cond(ptn) == IF "TA_CLR" \in flgatr THEN {} ELSE ptn

--------------------------------------------------------------------------
acre_flg(atr, iptn) ==
  /\ TaskContext
  /\ ~exists
  /\ exists' = TRUE /\ flgatr' = atr /\ iflgptn' = iptn
  /\ flgptn' = iptn
  /\ UNCHANGED taskVars

del_flg ==
  /\ TaskContext
  /\ exists
  /\ exists' = FALSE
  /\ Dispatch(init_wait_queue(kernel, Flg))
  /\ UNCHANGED <<flgatr, iflgptn, flgptn>>

(* One turn of the loop of set_flg(): s is the kernel and the pattern.     *)
(* The break of the loop adds nothing: with TA_CLR no condition holds      *)
(* after the first that did.                                               *)
release(s, t) ==
  IF flg_cond(s.flgptn, s.k.tcb[t].winfo)
  THEN [k |-> wait_complete([s.k EXCEPT !.wait_queue[Flg] = RemoveFirst(@, t)], t),
        flgptn |-> after_cond(s.flgptn)]
  ELSE s

(* The loop, over the queue as it is at first.                             *)
release_all(s) ==
  LET q == s.k.wait_queue[Flg]
      released[i \in 0..Len(q)] == IF i = 0 THEN s ELSE release(released[i - 1], q[i])
  IN  released[Len(q)]

(* The loop ends at the first task whose condition does not hold. *)
bug_set_flg(setptn) ==
  /\ AnyContext /\ exists
  /\ LET s == [k |-> kernel, flgptn |-> flgptn \cup setptn] IN
     IF wait_queue # << >>
     THEN Dispatch(release(s, Head(wait_queue)).k)
          /\ flgptn' = release(s, Head(wait_queue)).flgptn
     ELSE Dispatch(kernel) /\ flgptn' = s.flgptn
  /\ UNCHANGED inib

set_flg(setptn) ==
  /\ AnyContext /\ exists
  /\ LET s == release_all([k |-> kernel, flgptn |-> flgptn \cup setptn])
     IN  Dispatch(s.k) /\ flgptn' = s.flgptn
  /\ UNCHANGED inib

clr_flg(clrptn) ==
  /\ TaskContext /\ exists
  /\ flgptn' = flgptn \cap clrptn
  /\ UNCHANGED <<taskVars, inib>>

(* Without TA_WMUL only one task can wait. *)
MayWait == "TA_WMUL" \in flgatr \/ wait_queue = << >>

pol_flg(c) ==
  /\ TaskContext /\ exists
  /\ MayWait
  /\ flg_cond(flgptn, c)
  /\ flgptn' = after_cond(flgptn)
  /\ UNCHANGED <<taskVars, inib>>

(* wai_flg() and twai_flg(). *)
twai_flg(c, timed) ==
  /\ TaskContext /\ exists
  /\ MayWait
  /\ \/ /\ flg_cond(flgptn, c)
        /\ flgptn' = after_cond(flgptn)
        /\ UNCHANGED taskVars
     \/ /\ ~flg_cond(flgptn, c)
        /\ wobj_wait(Flg, TS_WAITING_FLG, c, timed)
        /\ UNCHANGED flgptn
  /\ UNCHANGED inib

ini_flg ==
  /\ TaskContext /\ exists
  /\ Dispatch(init_wait_queue(kernel, Flg))
  /\ flgptn' = iflgptn
  /\ UNCHANGED inib

Services ==
  \/ \E atr \in SUBSET {"TA_CLR", "TA_WMUL"}, iptn \in FLGPTN : acre_flg(atr, iptn)
  \/ \E ptn \in FLGPTN : set_flg(ptn) \/ clr_flg(ptn)
  \/ \E c \in Condition : pol_flg(c) \/ \E timed \in BOOLEAN : twai_flg(c, timed)
  \/ del_flg \/ ini_flg

Next == Services \/ (TaskNext /\ UNCHANGED object)

Spec == Init /\ [][Next]_vars

--------------------------------------------------------------------------
(* A part of a property of SyncObjects. *)

(* No task waits although its condition holds, for a flag that is not, or  *)
(* beside another one when the flag has no TA_WMUL: set_flg() releases     *)
(* every task it should in one pass over a queue that it changes, and with *)
(* TA_CLR the pattern is consumed by the first of them.                    *)
NobodyWaitsInVain ==
  /\ \A i \in DOMAIN wait_queue :
       ~flg_cond(flgptn, kernel.tcb[wait_queue[i]].winfo)
  /\ wait_queue # << >> => exists
  /\ Len(wait_queue) > 1 => "TA_WMUL" \in flgatr
==========================================================================
