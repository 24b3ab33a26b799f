---------------------------- MODULE EventQueue ---------------------------
(***************************************************************************)
(* What time_event.c relies on when it uses the time event heap: a set of  *)
(* registered events with a first one.  Event times are words modulo EVT,  *)
(* earlier and later being relative to a boundary that moves forward.      *)
(***************************************************************************)
EXTENDS Integers

CONSTANTS TMEVTB, NULL, EVT

VARIABLES
  registered, evttim, boundary_evttim,
  top      \* the event that happens next, NULL if there is none

vars == <<registered, evttim, boundary_evttim, top>>

Advance(t) == (t - boundary_evttim) % EVT

Earliest(events) ==
  {e \in events : \A f \in events : Advance(evttim[e]) <= Advance(evttim[f])}

Init ==
  /\ registered = {}
  /\ evttim = [e \in TMEVTB |-> 0]
  /\ boundary_evttim = 0
  /\ top = NULL

(* A new event is first only if it is earlier than the first one.          *)
Insert(e, time) ==
  /\ e \notin registered
  /\ registered' = registered \cup {e}
  /\ evttim' = [evttim EXCEPT ![e] = time]
  /\ top' = IF top = NULL \/ Advance(time) < Advance(evttim[top]) THEN e ELSE top
  /\ UNCHANGED boundary_evttim

(* Removing another event than the first leaves the first one alone.       *)
Delete(e) ==
  /\ e \in registered
  /\ registered' = registered \ {e}
  /\ \/ e # top /\ UNCHANGED top
     \/ e = top /\ registered' = {} /\ top' = NULL
     \/ e = top /\ top' \in Earliest(registered')
  /\ evttim' = [evttim EXCEPT ![e] = 0]
  /\ UNCHANGED boundary_evttim

(* An event is registered anew: for its next period, or restarted.         *)
Renew(e, time) ==
  /\ e \in registered
  /\ evttim' = [evttim EXCEPT ![e] = time]
  /\ top' \in Earliest(registered)'
  /\ UNCHANGED <<registered, boundary_evttim>>

(* Time passes, not so far that a registered event becomes the latest.     *)
Pass ==
  /\ \A e \in registered : Advance(evttim[e]) > 0
  /\ boundary_evttim' = (boundary_evttim + 1) % EVT
  /\ UNCHANGED <<registered, evttim, top>>

Next ==
  \/ \E e \in TMEVTB : Delete(e) \/ \E time \in 0..EVT-1 : Insert(e, time) \/ Renew(e, time)
  \/ Pass

Spec == Init /\ [][Next]_vars
==========================================================================
