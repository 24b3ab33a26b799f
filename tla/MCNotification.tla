-------------------------- MODULE MCNotification -------------------------
(* An instance of Notification for TLC: events of a kind are               *)
(* interchangeable.                                                        *)
EXTENDS Notification, TLC
Symmetry == Permutations(Waiting)
==========================================================================
