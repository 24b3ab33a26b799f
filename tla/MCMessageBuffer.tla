------------------------- MODULE MCMessageBuffer -------------------------
(* An instance of MessageBuffer for TLC. *)
EXTENDS MessageBuffer

CONSTANTS t1, t2, t3, short, long

MCipriority == [t \in Task |-> TNUM_TPRI - 1]

(* The short message leaves a part of its last word free; the long one     *)
(* takes two words.                                                        *)
MCSize == [msg \in Msg |-> IF msg = short THEN 1 ELSE 3]

Symmetry == Permutations(Task)
==========================================================================
