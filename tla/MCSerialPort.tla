--------------------------- MODULE MCSerialPort --------------------------
(* Instances of SerialPort for TLC. *)
EXTENDS SerialPort

CONSTANTS wr, rd, a, b

OneLine == {<<a, LF>>}
OneChar == {<<a>>}

(* Set after the port is opened: no echo, any character restarts. *)
MCIoControl == {{"FCSND", "FCANY"}}

(* Without echo, reading and writing are not done at the same time. *)
FewCombinations == "ECHO" \in port.ioControl \/ \E t \in Task : task[t].call = "none"
==========================================================================
