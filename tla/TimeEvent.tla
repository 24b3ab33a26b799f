---------------------------- MODULE TimeEvent ----------------------------
(***************************************************************************)
(* Time events and the system time: kernel/time_event.c and the services   *)
(* of kernel/time_manage.c that move the clocks, over a high-resolution    *)
(* timer like that of arch/simtimer/sim_timer.c.                           *)
(*                                                                         *)
(* Event times are words that wrap around (modulo EVT, 2^32 in the code)   *)
(* and are compared relative to a boundary that follows the current event  *)
(* time at a margin.  The hardware counter wraps around sooner (modulo     *)
(* TCYC) and counts in steps of TSTEP.  The system time has more bits      *)
(* (modulo SYS, 2^64).                                                     *)
(*                                                                         *)
(* The heap is the set of the registered events: its array is the subject  *)
(* of module TmevtHeap.  signal_time() opens windows in which other        *)
(* contexts run: during a callback it is suspended, and `callback' names   *)
(* the event being handled.                                                *)
(***************************************************************************)
EXTENDS Integers, FiniteSets, FiniteSetsExt

CONSTANTS
  TMEVTB,          \* time event blocks
  Cyclic,          \* those of cyclic notifications
  NULL,
  EVT, SYS,        \* numbers of values of EVTTIM and of SYSTIM
  MARGIN,          \* BOUNDARY_MARGIN
  TCYC, TSTEP,     \* TCYC_HRTCNT and TSTEP_HRTCNT
  BOUND,           \* HRTCNT_BOUND
  ADJTIM,          \* TMAX_ADJTIM and -TMIN_ADJTIM
  RELTIM,          \* the relative times requested (bound)
  cyctim,          \* the period of the cyclic notifications
  SetTimes,        \* the times set_tim is given (bound)
  MaxDelay         \* longest time until a pending interrupt is handled (bound)

ASSUME TimeAssumption ==
  /\ {EVT, SYS, MARGIN, TCYC, TSTEP, BOUND, cyctim} \subseteq Nat \ {0}
  /\ {ADJTIM, MaxDelay} \subseteq Nat
  /\ TCYC % TSTEP = 0
  \* a request is served before the counter laps, or the event times do
  /\ BOUND + 2 * (TSTEP - 1) + MaxDelay < TCYC
  /\ BOUND + 2 * (TSTEP - 1) + MaxDelay + ADJTIM < EVT
  \* what may be late is inside the boundary, and so is the longest time
  /\ 2 * ADJTIM + 2 * (TSTEP - 1) + MaxDelay <= MARGIN
  /\ RELTIM \subseteq Nat
  /\ \A time \in RELTIM : TSTEP + time + 2 * ADJTIM + MARGIN < EVT
  /\ cyctim + 2 * ADJTIM + MARGIN < EVT
  /\ SetTimes \subseteq Nat
  /\ Cyclic \subseteq TMEVTB
  /\ NULL \notin TMEVTB

VARIABLES
  clk,             \* the clock variables of time_event.c, see Clock
  heap,            \* the registered events
  evttim,          \* their event times; 0 for the others
  in_signal_time,
  callback,        \* the event whose callback signal_time() is in, or NULL
  simtim,          \* the timer hardware: its count,
  alarm,           \*   ticks until it requests an interrupt, or 0,
  pending,         \*   the interrupt request,
  busy,            \*   for how long it has been pending or being handled
  rem, unread      \* true time left for each event, and since the last reading

(* current_hrtcnt, current_evttim, monotonic_evttim, systim_offset.        *)
Clock == [hrtcnt : 0..TCYC-1, evttim : 0..EVT-1, mono : 0..EVT-1, offset : 0..SYS-1]

hardware == <<simtim, alarm, pending, busy>>
vars == <<clk, heap, evttim, in_signal_time, callback, hardware, rem, unread>>

--------------------------------------------------------------------------
(* The timer hardware. *)

RoundUp(t) == ((t + TSTEP - 1) \div TSTEP) * TSTEP

target_hrt_get_current == (simtim \div TSTEP) * TSTEP

(* Ticks from now until the timer requests an interrupt. *)
target_hrt_set_event(hrtcnt) == RoundUp(simtim + hrtcnt) - simtim

--------------------------------------------------------------------------
(* time_event.c: helpers. *)

boundary_evttim(c) == c.evttim - MARGIN

EVTTIM_ADVANCE(c, t) == (t - boundary_evttim(c)) % EVT

(* Times are compared as numbers. *)
bug_EVTTIM_LE(c, t1, t2) == t1 <= t2

EVTTIM_LE(c, t1, t2) == EVTTIM_ADVANCE(c, t1) <= EVTTIM_ADVANCE(c, t2)

(* No wrap around. *)
bug_advance_nowrap(c, d) ==
  LET new == c.evttim + d IN
  [c EXCEPT !.evttim = new, !.mono = IF c.mono - c.evttim < d THEN new ELSE @]

(* No carry into the offset. *)
bug_advance_nocarry(c, d) ==
  LET new == (c.evttim + d) % EVT IN
  [c EXCEPT !.evttim = new,
            !.mono   = IF (c.mono - c.evttim) % EVT < d THEN new ELSE @]

(* The system time follows the event time backwards, too. *)
bug_advance_back(c, d) ==
  LET new == (c.evttim + d) % EVT IN
  [c EXCEPT !.evttim = new, !.mono = new,
            !.offset = IF new < c.mono /\ (c.mono - c.evttim) % EVT < d
                       THEN (@ + EVT) % SYS ELSE @]

(* The event times move forward by d; the system time follows only when    *)
(* the clock passes its furthest point, and carries when that wraps.       *)
advance(c, d) ==
  LET new    == (c.evttim + d) % EVT
      passes == (c.mono - c.evttim) % EVT < d
  IN  [c EXCEPT !.evttim = new,
                !.mono   = IF passes THEN new ELSE @,
                !.offset = IF passes /\ new < c.mono THEN (@ + EVT) % SYS ELSE @]

update_current_evttim(c) ==
  LET d == (target_hrt_get_current - c.hrtcnt) % TCYC
  IN  advance([c EXCEPT !.hrtcnt = target_hrt_get_current], d)

(* The truncation of the counter is forgotten. *)
bug_calc_current_evttim_ub(c) == c.evttim

calc_current_evttim_ub(c) == c.evttim + TSTEP

(* The events that may be at the top of the heap: of several events of the *)
(* earliest time any may be.                                               *)
Top(c, h, ev) == {e \in h : \A f \in h : EVTTIM_LE(c, ev[e], ev[f])}

Due(c, h, ev) == {e \in Top(c, h, ev) : EVTTIM_LE(c, ev[e], c.evttim)}

(* set_hrt_event() for the new state of the clocks and the heap: is the    *)
(* interrupt requested at once, and the alarm set otherwise.               *)
raises(c, h, ev) == Due(c, h, ev) # {}

(* No interrupt is wanted while there is no event. *)
bug_alarm_setting(c, h, ev) ==
  IF h = {} THEN 0
  ELSE target_hrt_set_event(Min({(ev[e] - c.evttim) % EVT : e \in Top(c, h, ev)}
                                  \cup {BOUND}))

alarm_setting(c, h, ev) ==
  LET next == {(ev[e] - c.evttim) % EVT : e \in Top(c, h, ev)}
  IN  target_hrt_set_event(Min(next \cup {BOUND}))

set_hrt_event(c, h, ev) ==
  /\ pending' = (pending \/ raises(c, h, ev))
  /\ alarm' = IF raises(c, h, ev) THEN alarm ELSE alarm_setting(c, h, ev)

(* Events left behind are not considered. *)
bug_check_adjtim(c, adjtim) == adjtim < 0 /\ (c.mono - c.evttim) % EVT >= ADJTIM

check_adjtim(c, adjtim) ==
  \/ /\ adjtim > 0
     /\ \E e \in Top(c, heap, evttim) : EVTTIM_LE(c, evttim[e] + ADJTIM, c.evttim)
  \/ /\ adjtim < 0
     /\ (c.mono - c.evttim) % EVT >= ADJTIM

--------------------------------------------------------------------------
(* initialize_tmevt(), and the start of the timer in sta_ker(); the timer  *)
(* may have any count then.                                                *)
Init ==
  /\ simtim \in 0..TCYC-1
  /\ clk = [hrtcnt |-> target_hrt_get_current, evttim |-> 0, mono |-> 0, offset |-> 0]
  /\ heap = {}
  /\ evttim = [e \in TMEVTB |-> 0]
  /\ in_signal_time = FALSE
  /\ callback = NULL
  /\ alarm = target_hrt_set_event(BOUND)
  /\ pending = FALSE
  /\ busy = 0
  /\ rem = [e \in TMEVTB |-> 0]
  /\ unread = simtim - target_hrt_get_current

(* The counter has been read. *)
Read(c) ==
  /\ clk' = c
  /\ unread' = simtim - target_hrt_get_current

--------------------------------------------------------------------------
(* Services.  Those of alarm notifications and adj_tim() are also called   *)
(* in a window of signal_time(), which sets the timer itself at its end;   *)
(* those of cyclic notifications, set_tim() and get_tim() only by tasks.   *)

Window(e) == ~in_signal_time \/ (callback # NULL /\ e \notin Cyclic)

tmevtb_enqueue_reltim(e, time) ==
  LET c  == update_current_evttim(clk)
      ev == [evttim EXCEPT ![e] = (calc_current_evttim_ub(c) + time) % EVT]
      h  == heap \cup {e}
  IN  /\ Window(e)
      /\ e \notin heap
      /\ Read(c)
      /\ heap' = h /\ evttim' = ev
      /\ rem' = [rem EXCEPT ![e] = time]
      /\ IF ~in_signal_time /\ Top(c, h, ev) = {e} THEN set_hrt_event(c, h, ev)
         ELSE UNCHANGED <<alarm, pending>>
      /\ UNCHANGED <<in_signal_time, callback, simtim, busy>>

tmevtb_dequeue(e) ==
  LET c  == update_current_evttim(clk)
      h  == heap \ {e}
      ev == [evttim EXCEPT ![e] = 0]
  IN  /\ Window(e)
      /\ e \in heap
      /\ heap' = h /\ evttim' = ev
      /\ rem' = [rem EXCEPT ![e] = 0]
      /\ \/ /\ ~in_signal_time /\ e \in Top(clk, heap, evttim)
            /\ Read(c)
            /\ set_hrt_event(c, h, ev)
         \/ /\ in_signal_time \/ Top(clk, heap, evttim) # {e}
            /\ UNCHANGED <<clk, unread, alarm, pending>>
      /\ UNCHANGED <<in_signal_time, callback, simtim, busy>>

get_tim ==
  /\ ~in_signal_time
  /\ Read(update_current_evttim(clk))
  /\ UNCHANGED <<heap, evttim, in_signal_time, callback, hardware, rem>>

set_tim(systim) ==
  LET c == update_current_evttim(clk) IN
  /\ ~in_signal_time
  /\ Read([c EXCEPT !.offset = (systim - c.mono) % SYS])
  /\ UNCHANGED <<heap, evttim, in_signal_time, callback, hardware, rem>>

adj_tim(adjtim) ==
  LET c1 == update_current_evttim(clk)
      c2 == IF adjtim > 0 THEN advance(c1, adjtim)
            ELSE [c1 EXCEPT !.evttim = (@ + adjtim) % EVT]
  IN  /\ in_signal_time => callback # NULL
      /\ ~check_adjtim(c1, adjtim)
      /\ Read(c2)
      /\ rem' = [e \in TMEVTB |-> IF e \in heap THEN rem[e] - adjtim ELSE 0]
      /\ IF in_signal_time THEN UNCHANGED <<alarm, pending>>
         ELSE set_hrt_event(c2, heap, evttim)
      /\ UNCHANGED <<heap, evttim, in_signal_time, callback, simtim, busy>>

--------------------------------------------------------------------------
(* signal_time() *)

(* The event stays in the heap. *)
bug_CallBack(c) ==
  \E e \in Due(c, heap, evttim) :
    /\ callback' = e
    /\ in_signal_time' = TRUE
    /\ UNCHANGED <<alarm, busy, heap, evttim, rem>>

(* signal_time() goes on with the clocks c.  An event that is due is taken *)
(* out of the heap, and registered for the next period by call_cyclic(),   *)
(* before its callback opens a window.  Otherwise the timer is set.        *)
CallBack(c) ==
  \E e \in Due(c, heap, evttim) :
    /\ callback' = e
    /\ in_signal_time' = TRUE
    /\ heap' = IF e \in Cyclic THEN heap ELSE heap \ {e}
    /\ evttim' = [evttim EXCEPT ![e] = IF e \in Cyclic THEN (@ + cyctim) % EVT ELSE 0]
    /\ rem' = [rem EXCEPT ![e] = IF e \in Cyclic THEN @ + cyctim ELSE 0]
    /\ UNCHANGED <<alarm, busy>>

(* The timer is not set for the next event. *)
bug_Finish(c) ==
  /\ ~raises(c, heap, evttim)
  /\ callback' = NULL
  /\ in_signal_time' = FALSE
  /\ busy' = 0
  /\ UNCHANGED <<heap, evttim, alarm, rem>>

Finish(c) ==
  /\ ~raises(c, heap, evttim)
  /\ callback' = NULL
  /\ in_signal_time' = FALSE
  /\ alarm' = alarm_setting(c, heap, evttim)
  /\ busy' = 0
  /\ UNCHANGED <<heap, evttim, rem>>

Process(c) == CallBack(c) \/ Finish(c)

(* The timer interrupt is accepted. *)
target_hrt_handler ==
  LET c == update_current_evttim(clk) IN
  /\ ~in_signal_time /\ pending
  /\ pending' = FALSE
  /\ Read(c)
  /\ Process(c)
  /\ UNCHANGED simtim

(* A callback returns: the inner loop goes on with the time it has as long *)
(* as an event is due, then the outer loop reads the counter again.        *)
signal_time ==
  LET c == IF raises(clk, heap, evttim) THEN clk ELSE update_current_evttim(clk)
  IN  /\ in_signal_time
      /\ IF raises(clk, heap, evttim) THEN UNCHANGED <<clk, unread>> ELSE Read(c)
      /\ Process(c)
      /\ UNCHANGED <<simtim, pending>>

(* Time passes.  An interrupt request is served, and all that is due with  *)
(* it, within MaxDelay.                                                    *)
Tick ==
  /\ busy < MaxDelay
  /\ simtim' = (simtim + 1) % TCYC
  /\ unread' = unread + 1
  /\ rem' = [e \in TMEVTB |-> IF e \in heap THEN rem[e] - 1 ELSE 0]
  /\ alarm' = IF alarm = 0 THEN 0 ELSE alarm - 1
  /\ pending' = (pending \/ alarm = 1)
  /\ busy' = IF pending \/ in_signal_time THEN busy + 1 ELSE 0
  /\ UNCHANGED <<clk, heap, evttim, in_signal_time, callback>>

--------------------------------------------------------------------------
Adjustments == -ADJTIM .. ADJTIM

Next ==
  \/ \E e \in TMEVTB :
       \/ \E time \in RELTIM : tmevtb_enqueue_reltim(e, time)
       \/ tmevtb_dequeue(e)
  \/ get_tim \/ (\E systim \in SetTimes : set_tim(systim))
  \/ \E adjtim \in Adjustments \ {0} : adj_tim(adjtim)
  \/ target_hrt_handler \/ signal_time \/ Tick

Spec == Init /\ [][Next]_vars

(* The timer counts, its interrupt is accepted and callbacks return.       *)
FairSpec == Spec /\ WF_vars(Tick) /\ WF_vars(target_hrt_handler) /\ WF_vars(signal_time)

--------------------------------------------------------------------------
(* Properties. *)

TypeOK ==
  /\ clk \in Clock
  /\ heap \subseteq TMEVTB
  /\ evttim \in [TMEVTB -> 0..EVT-1]
  /\ in_signal_time \in BOOLEAN
  /\ callback \in TMEVTB \cup {NULL}
  /\ simtim \in 0..TCYC-1
  /\ alarm \in 0..BOUND+TSTEP
  /\ pending \in BOOLEAN
  /\ busy \in 0..MaxDelay
  /\ rem \in [TMEVTB -> Int]
  /\ unread \in Nat

Handles(e) == (target_hrt_handler \/ signal_time) /\ callback' = e

(* No callback before its time: the truncation of the counter, its wrap    *)
(* around and that of the event times never make an event early, whatever  *)
(* adj_tim() does in between.                                              *)
NeverEarly == [][\A e \in TMEVTB : Handles(e) => rem[e] <= 0]_vars

(* Callbacks come in the order of the true times of their events, up to    *)
(* the resolution of the counter.                                          *)
InOrder ==
  [][\A e \in TMEVTB : Handles(e) => \A f \in heap : rem[e] < rem[f] + TSTEP]_vars

(* No event is left behind: none is late by more than the three roundings  *)
(* to the steps of the counter (registering it, setting the timer, reading *)
(* the counter), the delay of the interrupt and the adjustments that       *)
(* adj_tim() may add up.  The timer is set anew whenever it must be.       *)
NeverLate ==
  \A e \in heap : rem[e] >= -(3 * TSTEP - 2 + MaxDelay + 2 * ADJTIM)

(* The clocks stay within their words, and the counter is read before it   *)
(* comes round again, so that no time is lost, even when no event is       *)
(* registered, and no event becomes late.                                  *)
ClocksOK == TypeOK /\ unread < TCYC /\ NeverLate

(* The system time that get_tim() would return, without what it still has  *)
(* to catch up after a negative adjustment.                                *)
Position == (clk.offset + clk.mono - ((clk.mono - clk.evttim) % EVT)) % SYS

systim == (clk.offset + clk.mono) % SYS

(* The system time follows the true time exactly: its three parts and      *)
(* their carries add up to the time that passed plus the adjustments.  And *)
(* unless it is set it never goes back, though adj_tim() turns back the    *)
(* event times below it.                                                   *)
ClockExact ==
  [][\/ \E s \in SetTimes : set_tim(s)
     \/ /\ (systim' - systim) % SYS < EVT
        /\ \/ Tick
           \/ \E adjtim \in Adjustments :
                /\ adjtim # 0 => adj_tim(adjtim)
                /\ (Position' - Position - adjtim - (unread - unread')) % SYS = 0]_vars

(* No event is forgotten: one that is not cyclic comes to be handled or is *)
(* cancelled, a cyclic one is handled again and again until it is stopped. *)
EventsHappen ==
  /\ \A e \in TMEVTB \ Cyclic : e \in heap ~> e \notin heap
  /\ \A e \in Cyclic : []<>(e \notin heap \/ callback = e)
==========================================================================
