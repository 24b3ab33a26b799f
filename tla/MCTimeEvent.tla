--------------------------- MODULE MCTimeEvent ---------------------------
(* Instances of TimeEvent for TLC: small words, so that all of them wrap.  *)
EXTENDS TimeEvent
CONSTANTS e1, e2
MCRELTIM == {0, 3}
FewRELTIM == {0, 2}
MCSetTimes == {13}
NoTimes == {}
==========================================================================
