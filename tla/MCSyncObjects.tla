-------------------------- MODULE MCSyncObjects --------------------------
(* An instance of SyncObjects for TLC. *)
EXTENDS SyncObjects

CONSTANTS t1, t2, t3, d1, d2, d3, b1, b2

MCipriority == [t \in Task |-> TNUM_TPRI - 1]

(* Two that only their order of arrival tells apart, and one behind them. *)
MCItem == {[datapri |-> 1, data |-> d] : d \in Data} \cup {[datapri |-> 2, data |-> d3]}

(* A flag starts with none of its bits or with all. *)
FewCombinations == iflgptn \in {{}, Bit}

Symmetry == Permutations(Task) \cup Permutations(Data) \cup Permutations(Bit)
==========================================================================
