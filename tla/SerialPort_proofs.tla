------------------------ MODULE SerialPort_proofs ------------------------
(***************************************************************************)
(* Proofs about SerialPort, for any number of writers and readers and any  *)
(* sizes of the buffers and the FIFOs: the rights to send and to receive   *)
(* are never lost or doubled, and what is to be sent has the interrupt     *)
(* that sends it enabled.  The application closes the port only while no   *)
(* call is in progress, and does not use rel_wai() on a task that echoes.  *)
(*                                                                         *)
(* The parts of the invariant are stated for a state s, because the        *)
(* interrupt handler calls two callbacks, each made of helpers, one after  *)
(* the other.                                                              *)
(***************************************************************************)
EXTENDS SerialPort, QueueLemmas, FiniteSetTheorems

--------------------------------------------------------------------------
(* Types. *)
Control == {"ECHO", "CRLF", "FCSND", "FCANY", "FCRCV"}

Char == {LF, CR, FC_STOP, FC_START} \cup Input \cup UNION {ToSet(text) : text \in Text}

Port == [openFlag : BOOLEAN, errorFlag : BOOLEAN, ioControl : SUBSET Control,
         receiveBuffer : Seq(Char), receiveFlowControl : Char \cup {NULL},
         receiveStopped : BOOLEAN, sendBuffer : Seq(Char), sendStopped : BOOLEAN]

Sem == [semcnt : {0, 1}, queue : Seq(Task)]

Uart == [opened : BOOLEAN, IMSC : SUBSET {"RX", "TX"}, tx : Seq(Char), rx : Seq(Char)]

Call == [call : {"none", "write", "read", "close"},
         at : {"idle", "wait_send", "put", "signal_send", "wait_receive", "get",
               "signal_receive", "close", "initialize"},
         rest : Seq(Char), cr : BOOLEAN, n : Int, empty : BOOLEAN]

State == [port : Port, sem : [Semaphore -> Sem], uart : Uart, task : [Task -> Call]]

--------------------------------------------------------------------------
(* The parts of the invariant. *)

(* Where a call can be, and what it has then.                              *)
CallOK(r) ==
  /\ \/ r.call = "none" /\ r.at = "idle"
     \/ r.call = "write" /\ r.at \in {"wait_send", "put", "signal_send"}
     \/ r.call = "read" /\ r.at \in {"wait_receive", "get", "signal_receive",
                                     "wait_send", "put", "signal_send"}
     \/ r.call = "close" /\ r.at \in {"close", "initialize"}
  /\ r.at \in {"wait_send", "put"} => r.rest # << >>
  /\ r.at = "wait_receive" => r.empty
  /\ r.at = "signal_receive" => ~r.empty

WaitsAt(which) == IF which = "send" THEN "wait_send" ELSE "wait_receive"

(* Tasks wait only where a call waits, and only for a semaphore at zero.   *)
InQueueOf(s, which) == ToSet(s.sem[which].queue)

QueuesOK(s) ==
  \A which \in Semaphore :
    /\ QueueOf(s.sem[which].queue, InQueueOf(s, which))
    /\ \A t \in InQueueOf(s, which) : s.task[t].at = WaitsAt(which)
    /\ s.sem[which].queue # << >> => s.sem[which].semcnt = 0

(* Whether a task has the right to send or to receive.  One that echoes    *)
(* has the right to receive until it has read all there was.               *)
Has(r, which) ==
  IF which = "send" THEN r.at \in {"put", "signal_send"}
  ELSE \/ r.at \in {"get", "signal_receive"}
       \/ r.call = "read" /\ ~r.empty /\ r.at \in {"wait_send", "put", "signal_send"}

Holders(s, which) == {t \in Task : Has(s.task[t], which)}

(* A right is with the interrupt handler, in the semaphore, or with one    *)
(* task.                                                                   *)
Right(gone, semcnt, H) ==
  IF gone THEN semcnt = 0 /\ H = {}
  ELSE \/ semcnt = 1 /\ H = {}
       \/ semcnt = 0 /\ \E t \in Task : H = {t}

Full(s)  == Len(s.port.sendBuffer) = sendBufferSize
Empty(s) == s.port.receiveBuffer = << >>

Gone(s, which) == IF which = "send" THEN Full(s) ELSE Empty(s)

RightOK(s, which) == Right(Gone(s, which), s.sem[which].semcnt, Holders(s, which))

SizesOK(s) ==
  /\ Len(s.port.sendBuffer) <= sendBufferSize
  /\ Len(s.port.receiveBuffer) <= receiveBufferSize
  /\ Len(s.uart.tx) <= TxSize

(* What a part of the interrupt handler relies on, and keeps.              *)
Sound(s) ==
  /\ s \in State
  /\ \A t \in Task : CallOK(s.task[t])
  /\ QueuesOK(s)
  /\ SizesOK(s)
  /\ s.port.errorFlag = FALSE

Rights(s) == \A which \in Semaphore : RightOK(s, which)

Core(s) == Sound(s) /\ Rights(s)

Enabled(s) ==
  (s.port.sendBuffer # << >> /\ ~s.port.sendStopped) \/ s.port.receiveFlowControl # NULL
    => "TX" \in s.uart.IMSC

Pending(u) == ("RX" \in u.IMSC /\ getready(u)) \/ ("TX" \in u.IMSC /\ putready(u))

Live(s) == s.port.openFlag \/ \E t \in Task : s.task[t].call = "close"

(* Whoever closes the port is alone.  From then on until the semaphores    *)
(* are initialized the interrupt handler may still run; later it cannot,   *)
(* and the next eSerialPort_open() finds the semaphores as initialized.    *)
Phases(s) ==
  /\ \A t \in Task : s.task[t].call = "close" =>
       /\ s.task[t].at = "initialize" <=> ~s.port.openFlag
       /\ \A u \in Task \ {t} : s.task[u].call = "none"
  /\ ~s.port.openFlag =>
       /\ ~s.uart.opened
       /\ \A t \in Task : s.task[t].call \in {"none", "close"}
  /\ ~Live(s) => s.sem = InitialSem /\ ~Pending(s.uart)

Inv(s) == Sound(s) /\ (Live(s) => Rights(s)) /\ Enabled(s) /\ Phases(s)

--------------------------------------------------------------------------
(* The records. *)
LEMMA StateTypes ==
  ASSUME NEW s \in State
  PROVE  /\ s.port \in Port /\ s.sem \in [Semaphore -> Sem]
         /\ s.uart \in Uart /\ s.task \in [Task -> Call]
         /\ \A which \in Semaphore : s.sem[which] \in Sem
         /\ \A t \in Task : s.task[t] \in Call
BY DEF State

(* A character of a text is a character.                                   *)
LEMMA TextChar ==
  ASSUME NEW text \in Text
  PROVE  text \in Seq(Char) /\ text # << >>
<1>1. text \in Seq(ToSet(text)) /\ text # << >>
  BY SerialPortAssumption
<1> DEFINE S == ToSet(text)
<1>2. \A x \in S : x \in Char
  BY DEF Char
<1> HIDE DEF S
<1>3. S \subseteq Char
  BY <1>2
<1>4. Len(text) \in Nat /\ text = [i \in 1..Len(text) |-> text[i]]
      /\ \A i \in 1..Len(text) : text[i] \in S
  BY <1>1, LenProperties, ElementOfSeq DEF S
<1>5. text \in Seq(Char)
  <2> DEFINE m == Len(text)
  <2>1. m \in Nat /\ \A i \in 1..m : text[i] \in Char
    BY <1>3, <1>4
  <2> HIDE DEF m
  <2>2. [i \in 1..m |-> text[i]] \in Seq(Char)
    BY <2>1, IsASeq
  <2> QED BY <1>4, <2>2 DEF m
<1> QED BY <1>1, <1>5

LEMMA SizesPositive ==
  /\ sendBufferSize \in Nat \ {0} /\ receiveBufferSize \in Nat \ {0}
  /\ TxSize \in Nat \ {0}
BY SerialPortAssumption

(* A right, given up and taken.                                            *)
LEMMA RightMoves ==
  ASSUME NEW semcnt, NEW H, NEW t \in Task
  PROVE  /\ Right(FALSE, semcnt, H) /\ t \in H => semcnt = 0 /\ H = {t}
         /\ Right(FALSE, 1, {}) /\ Right(FALSE, 0, {t}) /\ Right(TRUE, 0, {})
         /\ \A gone : Right(gone, semcnt, H) /\ t \in H => ~gone
BY DEF Right

--------------------------------------------------------------------------
(* signal(). *)
SameCalls(s, s2) ==
  /\ s2.port.openFlag = s.port.openFlag
  /\ s2.uart.opened = s.uart.opened
  /\ \A t \in Task : /\ s2.task[t].call = s.task[t].call
                     /\ s.task[t].call = "close" => s2.task[t].at = s.task[t].at

LEMMA ResumedCall ==
  ASSUME NEW which \in Semaphore, NEW r \in Call, CallOK(r), r.at = WaitsAt(which)
  PROVE  /\ Resumed(r) \in Call /\ CallOK(Resumed(r))
         /\ ~Has(r, which) /\ Has(Resumed(r), which)
         /\ \A v \in Semaphore \ {which} : Has(Resumed(r), v) <=> Has(r, v)
         /\ Resumed(r).call = r.call /\ r.call # "close" /\ r.call # "none"
         /\ \A v \in Semaphore : Resumed(r).at # WaitsAt(v)
<1> DEFINE p  == IF r.at = "wait_send" THEN "put" ELSE "get"
           r2 == [r EXCEPT !.at = p]
<1>1. Resumed(r) = r2
  BY DEF Resumed, Call
<1>2. /\ r2 \in Call /\ r2.at = p /\ r2.call = r.call /\ r2.rest = r.rest
      /\ r2.empty = r.empty
  BY DEF Call
<1>3. /\ which = "send" => r.at = "wait_send" /\ p = "put"
      /\ which = "receive" => r.at = "wait_receive" /\ p = "get" /\ r.empty
      /\ which = "send" \/ which = "receive"
  BY DEF Semaphore, WaitsAt, CallOK
<1> HIDE DEF p, r2
<1>4. CallOK(r2)
  BY <1>2, <1>3 DEF CallOK
<1>5. ~Has(r, which) /\ Has(r2, which)
  BY <1>2, <1>3 DEF Has
<1>6. \A v \in Semaphore \ {which} : Has(r2, v) <=> Has(r, v)
  BY <1>2, <1>3 DEF Has, Semaphore
<1>7. r.call # "close" /\ r.call # "none" /\ \A v \in Semaphore : r2.at # WaitsAt(v)
  BY <1>2, <1>3 DEF CallOK, WaitsAt, Semaphore
<1> QED BY <1>1, <1>2, <1>4, <1>5, <1>6, <1>7

LEMMA Signals ==
  ASSUME NEW s, Sound(s), NEW which \in Semaphore,
         s.sem[which].semcnt = 0, Holders(s, which) = {}
  PROVE  LET s2 == signal(s, which)
         IN  /\ Sound(s2) /\ SameCalls(s, s2)
             /\ s2.port = s.port /\ s2.uart = s.uart
             /\ Right(FALSE, s2.sem[which].semcnt, Holders(s2, which))
             /\ \A v \in Semaphore \ {which} :
                  /\ s2.sem[v].semcnt = s.sem[v].semcnt
                  /\ Holders(s2, v) = Holders(s, v)
<1> DEFINE q  == s.sem[which].queue
           S  == InQueueOf(s, which)
           s2 == signal(s, which)
<1>1. /\ s \in State /\ s.sem[which] \in Sem /\ s.sem \in [Semaphore -> Sem]
      /\ QueueOf(q, S) /\ s.task \in [Task -> Call]
      /\ \A t \in S : s.task[t].at = WaitsAt(which)
  BY StateTypes DEF Sound, QueuesOK
<1>2. S \subseteq Task
  BY <1>1 DEF Sem, InQueueOf, ToSet
<1>3. CASE q # << >>
  <2> DEFINE t == Head(q)
             r == Resumed(s.task[t])
             e == [s.sem[which] EXCEPT !.queue = Tail(q)]
  <2>1. t \in S /\ t \in Task /\ QueueOf(Tail(q), S \ {t})
    BY <1>1, <1>2, <1>3, QueueHead, QueueTail
  <2>2. s2 = [s EXCEPT !.sem = [s.sem EXCEPT ![which] = e],
                       !.task = [s.task EXCEPT ![t] = r]]
    BY <1>1, <1>3, <2>1 DEF signal, State
  <2>3. /\ s.task[t] \in Call /\ CallOK(s.task[t]) /\ s.task[t].at = WaitsAt(which)
    BY <1>1, <2>1 DEF Sound
  <2>4. /\ r \in Call /\ CallOK(r) /\ Has(r, which)
        /\ \A v \in Semaphore \ {which} : Has(r, v) <=> Has(s.task[t], v)
        /\ r.call = s.task[t].call /\ r.call # "close"
        /\ \A v \in Semaphore : r.at # WaitsAt(v)
    <3> DEFINE r0 == s.task[t]
    <3>1. r0 \in Call /\ CallOK(r0) /\ r0.at = WaitsAt(which) /\ r = Resumed(r0)
      BY <2>3
    <3> HIDE DEF r0, r
    <3>2. /\ r \in Call /\ CallOK(r) /\ Has(r, which)
          /\ \A v \in Semaphore \ {which} : Has(r, v) <=> Has(r0, v)
          /\ r.call = r0.call /\ r.call # "close"
          /\ \A v \in Semaphore : r.at # WaitsAt(v)
      BY <3>1, ResumedCall
    <3> QED BY <3>2 DEF r0
  <2>5. /\ e \in Sem /\ e.semcnt = 0 /\ e.queue = Tail(q)
    <3>1. Tail(q) \in Seq(Task)
      <4> DEFINE x == Tail(q)
      <4> HIDE DEF x
      <4>1. x \in Seq(S \ {t})
        BY <2>1 DEF QueueOf, x
      <4> HIDE DEF S
      <4>2. S \ {t} \subseteq Task
        BY <1>2
      <4> QED BY <2>1, <4>2, QueueIn DEF x
    <3> HIDE DEF q
    <3> QED BY <1>1, <3>1 DEF Sem
  <2> HIDE DEF e, r, S, q
  <2>6. /\ s2 \in State /\ s2.port = s.port /\ s2.uart = s.uart
        /\ s2.sem[which] = e /\ \A v \in Semaphore \ {which} : s2.sem[v] = s.sem[v]
        /\ s2.task[t] = r /\ \A u \in Task \ {t} : s2.task[u] = s.task[u]
    <3> DEFINE sm == [s.sem EXCEPT ![which] = e]
               tk == [s.task EXCEPT ![t] = r]
    <3>1. /\ sm \in [Semaphore -> Sem] /\ sm[which] = e
          /\ \A v \in Semaphore \ {which} : sm[v] = s.sem[v]
      BY <1>1, <2>5
    <3>2. /\ tk \in [Task -> Call] /\ tk[t] = r
          /\ \A u \in Task \ {t} : tk[u] = s.task[u]
      BY <1>1, <2>1, <2>4
    <3> HIDE DEF sm, tk
    <3>3. s2 \in State /\ s2.port = s.port /\ s2.uart = s.uart /\ s2.sem = sm /\ s2.task = tk
      BY <1>1, <2>2, <3>1, <3>2 DEF State, sm, tk
    <3> QED BY <3>1, <3>2, <3>3
  <2> HIDE DEF s2
  <2>7. QueuesOK(s2)
    <3> SUFFICES ASSUME NEW v \in Semaphore
                 PROVE  /\ QueueOf(s2.sem[v].queue, InQueueOf(s2, v))
                        /\ \A u \in InQueueOf(s2, v) : s2.task[u].at = WaitsAt(v)
                        /\ s2.sem[v].queue # << >> => s2.sem[v].semcnt = 0
      BY DEF QueuesOK
    <3>1. CASE v = which
      <4>1. InQueueOf(s2, v) = S \ {t}
        BY <2>1, <2>5, <2>6, <3>1 DEF InQueueOf, QueueOf
      <4> QED BY <1>1, <1>2, <2>1, <2>5, <2>6, <3>1, <4>1
    <3>2. CASE v # which
      <4>1. /\ InQueueOf(s2, v) = InQueueOf(s, v) /\ s2.sem[v] = s.sem[v]
            /\ QueueOf(s.sem[v].queue, InQueueOf(s, v))
            /\ \A u \in InQueueOf(s, v) : s.task[u].at = WaitsAt(v)
            /\ s.sem[v].queue # << >> => s.sem[v].semcnt = 0
            /\ s.sem[v] \in Sem
        BY <1>1, <2>6, <3>2, StateTypes DEF InQueueOf, Sound, QueuesOK
      <4>2. \A u \in InQueueOf(s, v) : u \in Task
        BY <4>1 DEF Sem, InQueueOf, ToSet
      <4>3. t \notin InQueueOf(s, v)
        BY <2>3, <3>2, <4>1 DEF WaitsAt, Semaphore
      <4> QED BY <2>6, <4>1, <4>2, <4>3
    <3> QED BY <3>1, <3>2
  <2>8. Sound(s2)
    BY <2>1, <2>4, <2>6, <2>7 DEF Sound, SizesOK
  <2>9. SameCalls(s, s2)
    BY <2>1, <2>4, <2>6 DEF SameCalls
  <2>10. Holders(s2, which) = {t}
    BY <2>1, <2>4, <2>6 DEF Holders
  <2>11. ASSUME NEW v \in Semaphore \ {which} PROVE Holders(s2, v) = Holders(s, v)
    BY <2>1, <2>4, <2>6, <2>11 DEF Holders
  <2>12. Right(FALSE, s2.sem[which].semcnt, Holders(s2, which))
    BY <2>1, <2>5, <2>6, <2>10 DEF Right
  <2> QED BY <2>6, <2>8, <2>9, <2>11, <2>12 DEF s2
<1>4. CASE q = << >>
  <2> DEFINE e == [s.sem[which] EXCEPT !.semcnt = 1]
  <2>1. s2 = [s EXCEPT !.sem = [s.sem EXCEPT ![which] = e]]
    <3>1. s.sem[which].semcnt < 1 /\ s.sem[which].semcnt + 1 = 1
      OBVIOUS
    <3> QED BY <1>1, <1>4, <3>1 DEF signal, State
  <2>2. e \in Sem /\ e.semcnt = 1 /\ e.queue = q
    BY <1>1 DEF Sem
  <2> HIDE DEF e
  <2>3. /\ s2 \in State /\ s2.port = s.port /\ s2.uart = s.uart
        /\ s2.sem[which] = e /\ \A v \in Semaphore \ {which} : s2.sem[v] = s.sem[v]
        /\ s2.task = s.task
    BY <1>1, <2>1, <2>2 DEF State
  <2> HIDE DEF s2
  <2>4. \A v \in Semaphore : InQueueOf(s2, v) = InQueueOf(s, v)
    BY <2>2, <2>3 DEF InQueueOf
  <2>5. Sound(s2)
    BY <1>4, <2>2, <2>3, <2>4 DEF Sound, SizesOK, QueuesOK
  <2>6. \A v \in Semaphore : Holders(s2, v) = Holders(s, v)
    BY <2>3 DEF Holders
  <2> QED BY <2>2, <2>3, <2>5, <2>6 DEF SameCalls, Right, s2
<1> QED BY <1>3, <1>4

--------------------------------------------------------------------------
(* Sending. *)

(* What the SIO driver changes: a character goes to the UART, or the       *)
(* interrupt that tells when it can go is enabled.                         *)
Uarted(s, s2) ==
  /\ s2 \in State /\ s2.port = s.port /\ s2.sem = s.sem /\ s2.task = s.task
  /\ s2.uart.opened = s.uart.opened

LEMMA PutChar ==
  ASSUME NEW s \in State, NEW c \in Char
  PROVE  LET s2 == eSIOPort_putChar(s, c)
         IN  /\ Uarted(s, s2) /\ s2.uart.IMSC = s.uart.IMSC
             /\ putready(s.uart) => Len(s2.uart.tx) = Len(s.uart.tx) + 1
             /\ ~putready(s.uart) => s2 = s
<1>1. CASE putready(s.uart)
  <2> DEFINE x  == Append(s.uart.tx, c)
             u  == [s.uart EXCEPT !.tx = x]
             s2 == [s EXCEPT !.uart = u]
  <2>1. s.uart \in Uart /\ s.uart.tx \in Seq(Char)
    BY StateTypes DEF Uart
  <2>2. x \in Seq(Char) /\ Len(x) = Len(s.uart.tx) + 1
    BY <2>1
  <2> HIDE DEF x
  <2>3. /\ u \in Uart /\ u.tx = x /\ u.opened = s.uart.opened /\ u.rx = s.uart.rx
        /\ u.IMSC = s.uart.IMSC
    BY <2>1, <2>2 DEF Uart
  <2>4. eSIOPort_putChar(s, c) = s2
    BY <1>1 DEF eSIOPort_putChar, x, State
  <2> HIDE DEF u
  <2>5. s2 \in State /\ s2.uart = u /\ s2.port = s.port /\ s2.sem = s.sem /\ s2.task = s.task
    BY <2>3 DEF State
  <2> HIDE DEF s2
  <2> QED BY <1>1, <2>2, <2>3, <2>4, <2>5 DEF Uarted
<1>2. CASE ~putready(s.uart)
  BY <1>2 DEF eSIOPort_putChar, Uarted
<1> QED BY <1>1, <1>2

LEMMA Enables ==
  ASSUME NEW s \in State
  PROVE  LET s2 == eSIOPort_enableCBR(s, "TX")
         IN  /\ Uarted(s, s2) /\ s2.uart.tx = s.uart.tx
             /\ s2.uart.IMSC = s.uart.IMSC \cup {"TX"}
<1> DEFINE u  == [s.uart EXCEPT !.IMSC = s.uart.IMSC \cup {"TX"}]
           s2 == [s EXCEPT !.uart = u]
<1>1. s.uart \in Uart
  BY StateTypes
<1>2. /\ u \in Uart /\ u.tx = s.uart.tx /\ u.opened = s.uart.opened /\ u.rx = s.uart.rx
      /\ u.IMSC = s.uart.IMSC \cup {"TX"}
  BY <1>1 DEF Uart
<1>3. eSIOPort_enableCBR(s, "TX") = s2
  BY DEF eSIOPort_enableCBR, State
<1> HIDE DEF u
<1>4. s2 \in State /\ s2.uart = u /\ s2.port = s.port /\ s2.sem = s.sem /\ s2.task = s.task
  BY <1>2 DEF State
<1> HIDE DEF s2
<1> QED BY <1>2, <1>3, <1>4 DEF Uarted

LEMMA Disables ==
  ASSUME NEW s \in State
  PROVE  LET s2 == eSIOPort_disableCBR(s, "TX")
         IN  Uarted(s, s2) /\ s2.uart.tx = s.uart.tx
<1> DEFINE u  == [s.uart EXCEPT !.IMSC = s.uart.IMSC \ {"TX"}]
           s2 == [s EXCEPT !.uart = u]
<1>1. s.uart \in Uart
  BY StateTypes
<1>2. u \in Uart /\ u.tx = s.uart.tx /\ u.opened = s.uart.opened /\ u.rx = s.uart.rx
  BY <1>1 DEF Uart
<1>3. eSIOPort_disableCBR(s, "TX") = s2
  BY DEF eSIOPort_disableCBR, State
<1> HIDE DEF u
<1>4. s2 \in State /\ s2.uart = u /\ s2.port = s.port /\ s2.sem = s.sem /\ s2.task = s.task
  BY <1>2 DEF State
<1> HIDE DEF s2
<1> QED BY <1>2, <1>3, <1>4 DEF Uarted

(* What is told of serialPort_sendChar() where it is used.                 *)
Tries(s, s2) ==
  /\ Uarted(s, s2) /\ Len(s2.uart.tx) <= TxSize
  /\ s.uart.IMSC \subseteq s2.uart.IMSC
  /\ ~putready(s.uart) => "TX" \in s2.uart.IMSC

LEMMA SendChar ==
  ASSUME NEW s \in State, NEW c \in Char, Len(s.uart.tx) <= TxSize
  PROVE  Tries(s, serialPort_sendChar(s, c))
<1>1. Len(s.uart.tx) \in Nat /\ TxSize \in Nat
  BY StateTypes, SizesPositive DEF Uart
<1> DEFINE s2 == serialPort_sendChar(s, c)
<1>2. CASE putready(s.uart)
  <2>1. s2 = eSIOPort_putChar(s, c)
    BY <1>2 DEF serialPort_sendChar
  <2> HIDE DEF s2
  <2>2. /\ Uarted(s, s2) /\ s2.uart.IMSC = s.uart.IMSC
        /\ Len(s2.uart.tx) = Len(s.uart.tx) + 1
    BY <1>2, <2>1, PutChar
  <2>3. Len(s2.uart.tx) <= TxSize
    BY <1>1, <1>2, <2>2 DEF putready
  <2> QED BY <1>2, <2>2, <2>3 DEF Tries, s2
<1>3. CASE ~putready(s.uart)
  <2>1. s2 = eSIOPort_enableCBR(s, "TX")
    BY <1>3 DEF serialPort_sendChar
  <2> HIDE DEF s2
  <2>2. /\ Uarted(s, s2) /\ s2.uart.tx = s.uart.tx
        /\ s2.uart.IMSC = s.uart.IMSC \cup {"TX"}
    BY <2>1, Enables
  <2> QED BY <2>2 DEF Tries, s2
<1> QED BY <1>2, <1>3

(* The parts of the invariant do not depend on the UART.                   *)
LEMMA UartedKeeps ==
  ASSUME NEW s, NEW s2, Sound(s), Uarted(s, s2), Len(s2.uart.tx) <= TxSize
  PROVE  /\ Sound(s2) /\ SameCalls(s, s2)
         /\ \A which \in Semaphore : /\ Holders(s2, which) = Holders(s, which)
                                     /\ Gone(s2, which) = Gone(s, which)
         /\ Rights(s) => Rights(s2)
<1>1. s2.port = s.port /\ s2.sem = s.sem /\ s2.task = s.task /\ s2 \in State
      /\ s2.uart.opened = s.uart.opened
  BY DEF Uarted
<1>2. QueuesOK(s2)
  BY <1>1 DEF Sound, QueuesOK, InQueueOf
<1>3. Sound(s2)
  BY <1>1, <1>2 DEF Sound, SizesOK
<1>4. SameCalls(s, s2)
  BY <1>1 DEF SameCalls
<1>5. \A which \in Semaphore : /\ Holders(s2, which) = Holders(s, which)
                               /\ Gone(s2, which) = Gone(s, which)
  BY <1>1 DEF Holders, Gone, Full, Empty
<1>6. Rights(s) => Rights(s2)
  BY <1>1, <1>5 DEF Rights, RightOK
<1> QED BY <1>3, <1>4, <1>5, <1>6

LEMMA SameCallsTransitive ==
  ASSUME NEW s, NEW s2, NEW s3, SameCalls(s, s2), SameCalls(s2, s3)
  PROVE  SameCalls(s, s3)
BY DEF SameCalls

(* The oldest character of the buffer is sent, and the right to send       *)
(* returned if the buffer was full; or the interrupt is enabled.           *)
Drained(s, s2) ==
  /\ Core(s2) /\ SameCalls(s, s2)
  /\ s2.port.receiveFlowControl = s.port.receiveFlowControl
  /\ s2.port.sendStopped = s.port.sendStopped
  /\ s.uart.IMSC \subseteq s2.uart.IMSC
  /\ IF putready(s.uart) THEN s2.port.sendBuffer = Tail(s.port.sendBuffer)
     ELSE s2.port.sendBuffer = s.port.sendBuffer /\ "TX" \in s2.uart.IMSC

LEMMA SendBuffered ==
  ASSUME NEW s, Core(s), s.port.sendBuffer # << >>
  PROVE  Drained(s, send_buffered(s))
<1> DEFINE b  == s.port.sendBuffer
           c  == Head(b)
           s1 == serialPort_sendChar(s, c)
           s2 == IF Len(b) = sendBufferSize THEN signal(s1, "send") ELSE s1
           s3 == [s2 EXCEPT !.port.sendBuffer = Tail(@)]
<1>1. /\ send_buffered(s) = IF putready(s.uart) THEN s3 ELSE s1
      /\ s \in State /\ Sound(s) /\ Rights(s) /\ Len(s.uart.tx) <= TxSize
      /\ s.port \in Port /\ b \in Seq(Char)
  BY StateTypes DEF send_buffered, Core, Sound, SizesOK, Port
<1>2. /\ c \in Char /\ Tail(b) \in Seq(Char) /\ Len(Tail(b)) = Len(b) - 1
      /\ Len(b) \in Nat
  <2> HIDE DEF b
  <2> QED BY <1>1 DEF b
<1> HIDE DEF b, c
<1>3. Tries(s, s1)
  BY <1>1, <1>2, SendChar
<1> HIDE DEF s1
<1>4. /\ Sound(s1) /\ SameCalls(s, s1) /\ Rights(s1)
      /\ \A which \in Semaphore : /\ Holders(s1, which) = Holders(s, which)
                                  /\ Gone(s1, which) = Gone(s, which)
      /\ s1.port = s.port /\ s1.uart.opened = s.uart.opened
  BY <1>1, <1>3, UartedKeeps DEF Tries, Uarted
<1>5. CASE ~putready(s.uart)
  BY <1>1, <1>3, <1>4, <1>5 DEF Drained, Core, Tries, b
<1>6. CASE putready(s.uart)
  <2>1. /\ Sound(s2) /\ SameCalls(s1, s2) /\ s2.port = s.port /\ s2.uart = s1.uart
        /\ Right(FALSE, s2.sem["send"].semcnt, Holders(s2, "send"))
        /\ s2.sem["receive"].semcnt = s1.sem["receive"].semcnt
        /\ Holders(s2, "receive") = Holders(s1, "receive")
    <3>1. RightOK(s1, "send") /\ "send" \in Semaphore /\ "receive" \in Semaphore \ {"send"}
      BY <1>4 DEF Rights, Semaphore
    <3>2. CASE Len(b) = sendBufferSize
      <4>1. s1.sem["send"].semcnt = 0 /\ Holders(s1, "send") = {}
        BY <1>4, <3>1, <3>2 DEF RightOK, Right, Gone, Full, b
      <4> QED BY <1>4, <3>1, <3>2, <4>1, Signals
    <3>3. CASE Len(b) # sendBufferSize
      <4>1. ~Gone(s1, "send")
        BY <1>4, <3>3 DEF Gone, Full, b
      <4>2. s2 = s1
        BY <3>3
      <4>3. SameCalls(s1, s1)
        BY DEF SameCalls
      <4> HIDE DEF s2
      <4> QED BY <1>4, <3>1, <4>1, <4>2, <4>3 DEF RightOK, Right
    <3> QED BY <3>2, <3>3
  <2> HIDE DEF s2
  <2> DEFINE p == [s.port EXCEPT !.sendBuffer = Tail(b)]
  <2>2. /\ p \in Port /\ p.sendBuffer = Tail(b) /\ p.openFlag = s.port.openFlag
        /\ p.errorFlag = s.port.errorFlag /\ p.receiveBuffer = s.port.receiveBuffer
        /\ p.receiveFlowControl = s.port.receiveFlowControl
        /\ p.sendStopped = s.port.sendStopped
    BY <1>1, <1>2 DEF Port
  <2>3. s3 = [s2 EXCEPT !.port = p]
    BY <2>1 DEF b, Sound, State
  <2> HIDE DEF p, s3
  <2>4. /\ s3 \in State /\ s3.port = p /\ s3.sem = s2.sem /\ s3.uart = s2.uart
        /\ s3.task = s2.task
    BY <2>1, <2>2, <2>3 DEF Sound, State
  <2>5. /\ Len(s3.port.sendBuffer) < sendBufferSize
         /\ s3.port.receiveBuffer = s.port.receiveBuffer
    <3>1. Len(b) <= sendBufferSize
      BY <1>1 DEF Sound, SizesOK, b
    <3>2. Len(Tail(b)) < sendBufferSize
      BY <1>2, <3>1, SizesPositive
    <3> QED BY <2>2, <2>4, <3>2
  <2>6. Sound(s3)
    <3>1. QueuesOK(s3)
      BY <2>1, <2>4 DEF Sound, QueuesOK, InQueueOf
    <3>2. SizesOK(s3)
      <4>1. /\ Len(s2.port.receiveBuffer) <= receiveBufferSize /\ Len(s2.uart.tx) <= TxSize
        BY <2>1 DEF Sound, SizesOK
      <4>2. Len(s3.port.sendBuffer) <= sendBufferSize
        BY <1>2, <2>2, <2>4, <2>5, SizesPositive
      <4> QED BY <2>1, <2>4, <2>5, <4>1, <4>2 DEF SizesOK
    <3> QED BY <1>1, <2>1, <2>2, <2>4, <3>1, <3>2 DEF Sound
  <2>7. \A which \in Semaphore : Holders(s3, which) = Holders(s2, which)
    BY <2>4 DEF Holders
  <2>8. RightOK(s3, "send")
    <3>1. ~Gone(s3, "send")
      <4>1. Len(s3.port.sendBuffer) # sendBufferSize
        BY <1>2, <2>2, <2>4, <2>5, SizesPositive
      <4> QED BY <4>1 DEF Gone, Full
    <3> QED BY <2>1, <2>4, <2>7, <3>1 DEF RightOK, Right, Semaphore
  <2>9. RightOK(s3, "receive")
    <3>1. Gone(s3, "receive") = Gone(s1, "receive")
      BY <1>4, <2>2, <2>4 DEF Gone, Empty
    <3> QED BY <1>4, <2>1, <2>4, <2>7, <3>1 DEF Rights, RightOK, Semaphore
  <2>10. SameCalls(s, s3)
    <3>1. SameCalls(s, s2)
      BY <1>4, <2>1, SameCallsTransitive
    <3> QED BY <2>1, <2>2, <2>4, <3>1 DEF SameCalls
  <2>11. s.uart.IMSC \subseteq s3.uart.IMSC
    BY <1>3, <2>1, <2>4 DEF Tries
  <2>12. Core(s3)
    BY <2>6, <2>8, <2>9 DEF Core, Rights, Semaphore
  <2>13. Drained(s, s3)
    BY <1>6, <2>2, <2>4, <2>10, <2>11, <2>12 DEF Drained, b
  <2> QED BY <1>1, <1>6, <2>13
<1> QED BY <1>5, <1>6

--------------------------------------------------------------------------
(* The variables of the port change; the semaphores and the tasks do not.  *)
LEMMA PortChanges ==
  ASSUME NEW s, Sound(s), NEW p \in Port, p.errorFlag = FALSE,
         Len(p.sendBuffer) <= sendBufferSize, Len(p.receiveBuffer) <= receiveBufferSize
  PROVE  LET s2 == [s EXCEPT !.port = p]
         IN  /\ Sound(s2) /\ (p.openFlag = s.port.openFlag => SameCalls(s, s2))
             /\ s2.port = p /\ s2.sem = s.sem /\ s2.uart = s.uart /\ s2.task = s.task
             /\ \A which \in Semaphore :
                  /\ Holders(s2, which) = Holders(s, which)
                  /\ RightOK(s2, which)
                       <=> Right(Gone(s2, which), s.sem[which].semcnt, Holders(s, which))
<1> DEFINE s2 == [s EXCEPT !.port = p]
<1>1. s \in State
  BY DEF Sound
<1>2. /\ s2 \in State /\ s2.port = p /\ s2.sem = s.sem /\ s2.uart = s.uart
      /\ s2.task = s.task
  BY <1>1 DEF State
<1> HIDE DEF s2
<1>3. QueuesOK(s2) /\ SizesOK(s2)
  BY <1>2 DEF Sound, QueuesOK, SizesOK, InQueueOf
<1>4. Sound(s2)
  BY <1>2, <1>3 DEF Sound
<1>5. \A which \in Semaphore : Holders(s2, which) = Holders(s, which)
  BY <1>2 DEF Holders
<1>6. p.openFlag = s.port.openFlag => SameCalls(s, s2)
  BY <1>2 DEF SameCalls
<1>7. \A which \in Semaphore : RightOK(s2, which)
        <=> Right(Gone(s2, which), s.sem[which].semcnt, Holders(s, which))
  BY <1>2, <1>5 DEF RightOK
<1> QED BY <1>2, <1>4, <1>5, <1>6, <1>7 DEF s2

(* A change of the port that leaves alone what the rights depend on.       *)
LEMMA PortKeeps ==
  ASSUME NEW s, Core(s), NEW p \in Port, p.errorFlag = FALSE,
         p.sendBuffer = s.port.sendBuffer, p.receiveBuffer = s.port.receiveBuffer,
         p.openFlag = s.port.openFlag
  PROVE  LET s2 == [s EXCEPT !.port = p]
         IN  /\ Core(s2) /\ SameCalls(s, s2)
             /\ s2.port = p /\ s2.uart = s.uart
<1> DEFINE s2 == [s EXCEPT !.port = p]
<1>1. Sound(s) /\ Rights(s)
  BY DEF Core
<1>2. /\ Len(p.sendBuffer) <= sendBufferSize /\ Len(p.receiveBuffer) <= receiveBufferSize
  BY <1>1 DEF Sound, SizesOK
<1>3. /\ Sound(s2) /\ SameCalls(s, s2)
      /\ s2.port = p /\ s2.uart = s.uart
      /\ \A which \in Semaphore : RightOK(s2, which)
           <=> Right(Gone(s2, which), s.sem[which].semcnt, Holders(s, which))
  BY <1>1, <1>2, PortChanges
<1> HIDE DEF s2
<1>4. \A which \in Semaphore : Gone(s2, which) = Gone(s, which)
  BY <1>3 DEF Gone, Full, Empty
<1>5. Rights(s2)
  BY <1>1, <1>3, <1>4 DEF Rights, RightOK
<1> QED BY <1>3, <1>5 DEF Core, s2

--------------------------------------------------------------------------
(* restart(): the states of its loop.                                      *)
Tried(s, g, n) ==
  g = [i \in 0..n |-> IF i = 0 THEN [s EXCEPT !.port.sendStopped = FALSE]
                      ELSE send_buffered(g[i - 1])]

LEMMA TriedExists ==
  ASSUME NEW s, NEW n \in Nat
  PROVE  \E g : Tried(s, g, n)
<1> DEFINE s0 == [s EXCEPT !.port.sendStopped = FALSE]
           D(g, i) == g = [j \in 0..i |-> IF j = 0 THEN s0 ELSE send_buffered(g[j - 1])]
           S  == {i \in Nat : ~\E g : D(g, i)}
<1>1. \A g, i : Tried(s, g, i) <=> D(g, i)
  BY DEF Tried
<1> HIDE DEF s0
<1> HIDE DEF D
<1>2. SUFFICES ASSUME S # {} PROVE FALSE
  BY <1>1
<1>3. PICK i \in S : \A j \in S : i <= j
  <2>1. S \subseteq Nat
    OBVIOUS
  <2> HIDE DEF S
  <2> QED BY <1>2, <2>1, LeastNat
<1>4. i \in Nat
  BY <1>3
<1>5. CASE i = 0
  <2> DEFINE g == [j \in 0..0 |-> s0]
  <2>1. D(g, 0)
    BY DEF D
  <2> HIDE DEF g
  <2> QED BY <1>3, <1>5, <2>1
<1>6. CASE i > 0
  <2>1. i - 1 \in Nat /\ i - 1 \notin S
    <3> HIDE DEF S
    <3> QED BY <1>3, <1>4, <1>6
  <2>2. PICK g : D(g, i - 1)
    BY <2>1
  <2> DEFINE x == send_buffered(g[i - 1])
             h == [j \in 0..i |-> IF j = i THEN x ELSE g[j]]
  <2>3. \A j \in 0..i - 1 : h[j] = g[j]
    BY <1>4, <1>6
  <2>4. h[i] = send_buffered(h[i - 1])
    BY <1>4, <1>6, <2>3
  <2>5. \A j \in 0..i : h[j] = IF j = 0 THEN s0 ELSE send_buffered(h[j - 1])
    <3>1. CASE i \in Nat /\ i > 0
      <4> TAKE j \in 0..i
      <4>1. CASE j = i
        BY <2>4, <3>1, <4>1
      <4>2. CASE j # i
        <5>1. j \in 0..i - 1 /\ (j > 0 => j - 1 \in 0..i - 1)
          BY <3>1, <4>2
        <5>2. h[j] = g[j] /\ (j > 0 => h[j - 1] = g[j - 1])
          BY <2>3, <5>1
        <5>3. g[j] = IF j = 0 THEN s0 ELSE send_buffered(g[j - 1])
          BY <2>2, <5>1 DEF D
        <5> HIDE DEF h
        <5> QED BY <5>1, <5>2, <5>3
      <4> QED BY <4>1, <4>2
    <3> QED BY <1>4, <1>6, <3>1
  <2>6. h = [j \in 0..i |-> h[j]]
    OBVIOUS
  <2> HIDE DEF h, x
  <2>7. D(h, i)
    BY <2>5, <2>6 DEF D
  <2> QED BY <1>3, <2>7
<1> QED BY <1>4, <1>5, <1>6

(* After i tries, i characters are sent or the interrupt is enabled.       *)
Restarting(s, s2, i) ==
  /\ Core(s2) /\ SameCalls(s, s2)
  /\ s2.port.receiveFlowControl = s.port.receiveFlowControl
  /\ s2.port.sendStopped = FALSE
  /\ s.uart.IMSC \subseteq s2.uart.IMSC
  /\ Len(s2.port.sendBuffer) >= Len(s.port.sendBuffer) - i
  /\ \/ "TX" \in s2.uart.IMSC
     \/ Len(s2.port.sendBuffer) = Len(s.port.sendBuffer) - i

LEMMA RestartStep ==
  ASSUME NEW s, Len(s.port.sendBuffer) \in Nat, NEW s1, NEW i \in Nat,
         i < Len(s.port.sendBuffer), Restarting(s, s1, i)
  PROVE  Restarting(s, send_buffered(s1), i + 1)
<1> DEFINE n  == Len(s.port.sendBuffer)
           b  == s1.port.sendBuffer
           s2 == send_buffered(s1)
<1>1. b \in Seq(Char) /\ Core(s1)
  BY StateTypes DEF Restarting, Core, Sound, Port
<1>2. Len(b) \in Nat /\ (b # << >> => Len(Tail(b)) = Len(b) - 1) /\ (b = << >> => Len(b) = 0)
  <2> HIDE DEF b
  <2> QED BY <1>1
<1>3. Len(b) >= n - i /\ n \in Nat /\ i < n
  BY DEF Restarting
<1>4. b # << >>
  <2> HIDE DEF n, b
  <2> QED BY <1>2, <1>3
<1>5. Drained(s1, s2)
  BY <1>1, <1>4, SendBuffered
<1> HIDE DEF s2
<1>6. SameCalls(s, s2)
  BY <1>5, SameCallsTransitive DEF Drained, Restarting
<1> DEFINE m == Len(s2.port.sendBuffer)
<1>7. /\ m >= n - (i + 1)
      /\ \/ "TX" \in s2.uart.IMSC
         \/ m = n - (i + 1)
  <2>1. CASE putready(s1.uart)
    <3>1. m = Len(b) - 1
      BY <1>2, <1>4, <1>5, <2>1 DEF Drained
    <3>2. "TX" \in s2.uart.IMSC \/ Len(b) = n - i
      BY <1>5 DEF Drained, Restarting
    <3> HIDE DEF n, m, b
    <3> QED BY <1>2, <1>3, <3>1, <3>2
  <2>2. CASE ~putready(s1.uart)
    <3>1. m = Len(b) /\ "TX" \in s2.uart.IMSC
      BY <1>5, <2>2 DEF Drained
    <3> HIDE DEF n, m, b
    <3> QED BY <1>2, <1>3, <3>1
  <2> QED BY <2>1, <2>2
<1>8. Restarting(s, s2, i + 1)
  BY <1>5, <1>6, <1>7 DEF Restarting, Drained
<1> QED BY <1>8 DEF s2

(* What the callbacks keep.                                                *)
Handled(s, s2) == Core(s2) /\ Enabled(s2) /\ SameCalls(s, s2)

LEMMA Restarts ==
  ASSUME NEW s, Core(s), Enabled(s)
  PROVE  Handled(s, restart(s))
<1> DEFINE n  == Len(s.port.sendBuffer)
           s0 == [s EXCEPT !.port.sendStopped = FALSE]
           s2 == restart(s)
<1>1. s \in State /\ s.port \in Port /\ s.port.errorFlag = FALSE /\ n \in Nat
  <2>1. s \in State /\ s.port \in Port /\ s.port.errorFlag = FALSE
    BY StateTypes DEF Core, Sound
  <2>2. s.port.sendBuffer \in Seq(Char)
    BY <2>1 DEF Port
  <2> QED BY <2>1, <2>2
<1>2. PICK g : Tried(s, g, n) /\ s2 = g[n]
  <2> DEFINE f == CHOOSE g : Tried(s, g, n)
  <2>1. \E g : Tried(s, g, n)
    <3> HIDE DEF n
    <3> QED BY <1>1, TriedExists
  <2>2. s2 = f[n]
    BY DEF restart, Tried
  <2>3. Tried(s, f, n)
    <3> HIDE DEF n
    <3> QED BY <2>1
  <2> QED BY <2>2, <2>3
<1> HIDE DEF s2
<1>3. /\ g[0] = s0
      /\ \A i \in 1..n : g[i] = send_buffered(g[i - 1])
  <2> HIDE DEF s0
  <2>1. g = [i \in 0..n |-> IF i = 0 THEN s0 ELSE send_buffered(g[i - 1])]
    BY <1>2 DEF Tried, s0
  <2> HIDE DEF n
  <2> QED BY <1>1, <2>1
<1>4. Restarting(s, g[0], 0)
  <2> DEFINE p == [s.port EXCEPT !.sendStopped = FALSE]
  <2>1. /\ p \in Port /\ p.errorFlag = FALSE /\ p.sendBuffer = s.port.sendBuffer
        /\ p.receiveBuffer = s.port.receiveBuffer /\ p.openFlag = s.port.openFlag
        /\ p.receiveFlowControl = s.port.receiveFlowControl /\ p.sendStopped = FALSE
    BY <1>1 DEF Port
  <2>2. s0 = [s EXCEPT !.port = p]
    BY <1>1 DEF State
  <2> HIDE DEF p, s0
  <2>3. Core(s0) /\ SameCalls(s, s0) /\ s0.port = p /\ s0.uart = s.uart
    BY <2>1, <2>2, PortKeeps
  <2> QED BY <1>1, <1>3, <2>1, <2>3 DEF Restarting
<1> HIDE DEF s0
<1>5. \A i \in 0..n : Restarting(s, g[i], i)
  <2> DEFINE S == {i \in 0..n : ~Restarting(s, g[i], i)}
  <2>1. SUFFICES ASSUME S # {} PROVE FALSE
    OBVIOUS
  <2>2. PICK i \in S : \A j \in S : i <= j
    <3>1. S \subseteq Nat
      <4> HIDE DEF n
      <4> QED BY <1>1
    <3> HIDE DEF S
    <3> QED BY <2>1, <3>1, LeastNat
  <2>3. i \in 0..n /\ i # 0
    BY <1>4, <2>2
  <2> DEFINE j == i - 1
  <2>4. j \in Nat /\ j \in 0..n /\ j < n /\ i = j + 1 /\ i \in 1..n /\ ~(i <= j)
    <3> HIDE DEF n
    <3> QED BY <1>1, <2>3
  <2>5. Restarting(s, g[j], j)
    BY <2>2, <2>4
  <2>6. g[i] = send_buffered(g[j])
    BY <1>3, <2>4
  <2> HIDE DEF j
  <2>7. Restarting(s, g[i], i)
    BY <1>1, <2>4, <2>5, <2>6, RestartStep
  <2> QED BY <2>2, <2>7
<1>6. Restarting(s, s2, n)
  <2>1. n \in 0..n
    <3> HIDE DEF n
    <3> QED BY <1>1
  <2> QED BY <1>2, <1>5, <2>1
<1>7. s2.port.sendBuffer # << >> => "TX" \in s2.uart.IMSC
  <2> DEFINE b == s2.port.sendBuffer
  <2>1. "TX" \in s2.uart.IMSC \/ Len(b) = n - n
    BY <1>6 DEF Restarting
  <2>2. b \in Seq(Char)
    BY <1>6, StateTypes DEF Restarting, Core, Sound, Port
  <2> HIDE DEF b, n
  <2>3. Len(b) = n - n => b = << >>
    BY <1>1, <2>2
  <2> QED BY <2>1, <2>3 DEF b
<1>8. Enabled(s2)
  BY <1>6, <1>7 DEF Restarting, Enabled
<1> QED BY <1>6, <1>8 DEF Handled, Restarting, s2

--------------------------------------------------------------------------
(* The callbacks. *)

(* What comes with Core(s), for the parts that SMT is given.               *)
LEMMA CoreParts ==
  ASSUME NEW s, Core(s)
  PROVE  /\ Sound(s) /\ Rights(s) /\ s \in State /\ s.port \in Port /\ s.uart \in Uart
         /\ s.port.errorFlag = FALSE
         /\ s.port.sendBuffer \in Seq(Char) /\ s.port.receiveBuffer \in Seq(Char)
         /\ Len(s.port.sendBuffer) <= sendBufferSize
         /\ Len(s.port.receiveBuffer) <= receiveBufferSize
         /\ Len(s.uart.tx) <= TxSize
BY StateTypes DEF Core, Sound, SizesOK, Port

LEMMA ReadySends ==
  ASSUME NEW s, Core(s), Enabled(s), putready(s.uart)
  PROVE  Handled(s, eiSIOCBR_readySend(s))
<1> DEFINE s2 == eiSIOCBR_readySend(s)
<1>1. /\ Sound(s) /\ Rights(s) /\ s \in State /\ s.port \in Port
      /\ s.port.errorFlag = FALSE /\ Len(s.uart.tx) <= TxSize
  BY CoreParts
<1>2. CASE s.port.receiveFlowControl # NULL
  <2> DEFINE c  == s.port.receiveFlowControl
             s1 == eSIOPort_putChar(s, c)
             p  == [s1.port EXCEPT !.receiveFlowControl = NULL]
  <2>1. c \in Char
    BY <1>1, <1>2 DEF Port
  <2>2. /\ Uarted(s, s1) /\ s1.uart.IMSC = s.uart.IMSC
        /\ Len(s1.uart.tx) = Len(s.uart.tx) + 1
    BY <1>1, <2>1, PutChar
  <2>3. s2 = [s1 EXCEPT !.port = p]
    BY <1>2, <2>2 DEF eiSIOCBR_readySend, Uarted, State
  <2> HIDE DEF s1, s2
  <2>4. Len(s1.uart.tx) <= TxSize
    <3>1. Len(s.uart.tx) \in Nat /\ TxSize \in Nat /\ Len(s.uart.tx) < TxSize
      BY <1>1, StateTypes, SizesPositive DEF Uart, putready
    <3> QED BY <2>2, <3>1
  <2>5. Core(s1) /\ SameCalls(s, s1) /\ s1.port = s.port
    BY <1>1, <2>2, <2>4, UartedKeeps DEF Core, Uarted
  <2>6. /\ p \in Port /\ p.errorFlag = FALSE /\ p.sendBuffer = s1.port.sendBuffer
        /\ p.receiveBuffer = s1.port.receiveBuffer /\ p.openFlag = s1.port.openFlag
        /\ p.sendStopped = s.port.sendStopped /\ p.receiveFlowControl = NULL
    BY <1>1, <2>5 DEF Port
  <2> HIDE DEF p
  <2>7. Core(s2) /\ SameCalls(s1, s2) /\ s2.port = p /\ s2.uart = s1.uart
    BY <2>3, <2>5, <2>6, PortKeeps
  <2>8. SameCalls(s, s2)
    BY <2>5, <2>7, SameCallsTransitive
  <2>9. Enabled(s2)
    BY <2>2, <2>5, <2>6, <2>7 DEF Enabled
  <2> QED BY <2>7, <2>8, <2>9 DEF Handled, s2
<1>3. CASE /\ ~(s.port.receiveFlowControl # NULL)
           /\ ~s.port.sendStopped /\ s.port.sendBuffer # << >>
  <2>1. s2 = send_buffered(s)
    BY <1>3 DEF eiSIOCBR_readySend
  <2> HIDE DEF s2
  <2>2. Drained(s, s2)
    BY <1>3, <2>1, SendBuffered
  <2>3. "TX" \in s2.uart.IMSC
    BY <1>3, <2>2 DEF Enabled, Drained
  <2>4. Handled(s, s2)
    BY <2>2, <2>3 DEF Handled, Drained, Enabled
  <2> QED BY <2>4 DEF s2
<1>4. CASE /\ ~(s.port.receiveFlowControl # NULL)
           /\ ~(~s.port.sendStopped /\ s.port.sendBuffer # << >>)
  <2>1. s2 = eSIOPort_disableCBR(s, "TX")
    BY <1>4 DEF eiSIOCBR_readySend
  <2> HIDE DEF s2
  <2>2. Uarted(s, s2) /\ s2.uart.tx = s.uart.tx
    BY <1>1, <2>1, Disables
  <2>3. Core(s2) /\ SameCalls(s, s2) /\ s2.port = s.port
    BY <1>1, <2>2, UartedKeeps DEF Core, Uarted
  <2>4. Enabled(s2)
    BY <1>4, <2>3 DEF Enabled
  <2>5. Handled(s, s2)
    BY <2>3, <2>4 DEF Handled
  <2> QED BY <2>5 DEF s2
<1> QED BY <1>2, <1>3, <1>4

(* Also while the right to receive is on its way.                          *)
LEMMA FlowControlSends ==
  ASSUME NEW s, Sound(s), Enabled(s), NEW c \in {FC_STOP, FC_START}
  PROVE  LET s2 == send_flow_control(s, c)
         IN  /\ Sound(s2) /\ Enabled(s2) /\ SameCalls(s, s2)
             /\ s2.sem = s.sem /\ s2.task = s.task
             /\ s2.port.sendBuffer = s.port.sendBuffer
             /\ s2.port.receiveBuffer = s.port.receiveBuffer
             /\ Rights(s) => Handled(s, s2)
<1> DEFINE s1 == serialPort_sendChar(s, c)
           v  == IF putready(s.uart) THEN s1.port.receiveFlowControl ELSE c
           w  == c = FC_STOP
           p  == [s.port EXCEPT !.receiveFlowControl = v, !.receiveStopped = w]
           s2 == send_flow_control(s, c)
<1>1. /\ s \in State /\ s.port \in Port
      /\ s.port.errorFlag = FALSE /\ Len(s.uart.tx) <= TxSize /\ c \in Char
      /\ Len(s.port.sendBuffer) <= sendBufferSize
      /\ Len(s.port.receiveBuffer) <= receiveBufferSize
  BY StateTypes DEF Char, Sound, SizesOK
<1>2. Tries(s, s1)
  BY <1>1, SendChar
<1> HIDE DEF s1
<1>3. /\ Sound(s1) /\ SameCalls(s, s1) /\ s1.port = s.port /\ s1.sem = s.sem
      /\ s1.task = s.task
  BY <1>1, <1>2, UartedKeeps DEF Tries, Uarted
<1>4. v \in Char \cup {NULL} /\ w \in BOOLEAN
  BY <1>1, <1>3 DEF Port
<1>5. s2 = [s1 EXCEPT !.port = p]
  BY <1>1, <1>2, <1>3 DEF send_flow_control, Tries, Uarted, State, Port, s1
<1>6. putready(s.uart) => v = s.port.receiveFlowControl
  BY <1>3
<1> HIDE DEF v, w, s2
<1>7. /\ p \in Port /\ p.errorFlag = FALSE /\ p.sendBuffer = s.port.sendBuffer
      /\ p.receiveBuffer = s.port.receiveBuffer /\ p.openFlag = s1.port.openFlag
      /\ p.sendStopped = s.port.sendStopped /\ p.receiveFlowControl = v
  BY <1>1, <1>3, <1>4 DEF Port
<1> HIDE DEF p
<1>8. /\ Sound(s2) /\ SameCalls(s1, s2) /\ s2.port = p /\ s2.uart = s1.uart
      /\ s2.sem = s.sem /\ s2.task = s.task
  BY <1>1, <1>3, <1>5, <1>7, PortChanges
<1>9. SameCalls(s, s2)
  BY <1>3, <1>8, SameCallsTransitive
<1>10. Enabled(s2)
  <2>1. CASE putready(s.uart)
    BY <1>2, <1>6, <1>7, <1>8, <2>1 DEF Enabled, Tries
  <2>2. CASE ~putready(s.uart)
    BY <1>2, <1>8, <2>2 DEF Enabled, Tries
  <2> QED BY <2>1, <2>2
<1>11. ASSUME Rights(s) PROVE Rights(s2)
  BY <1>7, <1>8, <1>11 DEF Rights, RightOK, Gone, Full, Empty, Holders
<1>12. Rights(s) => Handled(s, s2)
  BY <1>8, <1>9, <1>10, <1>11 DEF Handled, Core
<1> QED BY <1>7, <1>8, <1>9, <1>10, <1>12 DEF s2

LEMMA Stores ==
  ASSUME NEW s, Core(s), Enabled(s), NEW c \in Char,
         Len(s.port.receiveBuffer) # receiveBufferSize
  PROVE  Handled(s, store_received(s, c))
<1> DEFINE b  == s.port.receiveBuffer
           s1 == IF b = << >> THEN signal(s, "receive") ELSE s
           x  == Append(b, c)
           p  == [s.port EXCEPT !.receiveBuffer = x]
           s2 == store_received(s, c)
<1>1. /\ Sound(s) /\ Rights(s) /\ s \in State /\ s.port \in Port
      /\ s.port.errorFlag = FALSE /\ b \in Seq(Char)
      /\ Len(b) <= receiveBufferSize /\ Len(b) # receiveBufferSize
      /\ Len(s.port.sendBuffer) <= sendBufferSize
  BY CoreParts
<1>2. x \in Seq(Char) /\ Len(x) <= receiveBufferSize /\ x # << >>
  <2> HIDE DEF b
  <2>1. x \in Seq(Char) /\ Len(x) = Len(b) + 1 /\ Len(b) \in Nat
    BY <1>1
  <2> HIDE DEF x
  <2> QED BY <1>1, <2>1, SizesPositive
<1>3. /\ "receive" \in Semaphore /\ "send" \in Semaphore \ {"receive"}
      /\ RightOK(s, "receive") /\ RightOK(s, "send")
  BY <1>1 DEF Rights, Semaphore
<1>4. /\ Sound(s1) /\ SameCalls(s, s1) /\ s1.port = s.port /\ s1.uart = s.uart
      /\ Right(FALSE, s1.sem["receive"].semcnt, Holders(s1, "receive"))
      /\ s1.sem["send"].semcnt = s.sem["send"].semcnt
      /\ Holders(s1, "send") = Holders(s, "send")
  <2>1. CASE b = << >>
    <3>1. s.sem["receive"].semcnt = 0 /\ Holders(s, "receive") = {}
      BY <1>3, <2>1 DEF RightOK, Right, Gone, Empty
    <3> QED BY <1>1, <1>3, <2>1, <3>1, Signals
  <2>2. CASE b # << >>
    <3>1. ~Gone(s, "receive")
      BY <2>2 DEF Gone, Empty
    <3>2. s1 = s /\ SameCalls(s, s)
      BY <2>2 DEF SameCalls
    <3> HIDE DEF s1
    <3> QED BY <1>1, <1>3, <3>1, <3>2 DEF RightOK, Right
  <2> QED BY <2>1, <2>2
<1>5. s2 = [s1 EXCEPT !.port = p]
  BY <1>1, <1>4 DEF store_received, Sound, State
<1> HIDE DEF s1, s2, x
<1>6. /\ p \in Port /\ p.errorFlag = FALSE /\ p.sendBuffer = s.port.sendBuffer
      /\ p.receiveBuffer = x /\ p.openFlag = s1.port.openFlag
      /\ p.sendStopped = s.port.sendStopped
      /\ p.receiveFlowControl = s.port.receiveFlowControl
  BY <1>1, <1>2, <1>4 DEF Port
<1> HIDE DEF p, b
<1>7. Len(p.sendBuffer) <= sendBufferSize /\ Len(p.receiveBuffer) <= receiveBufferSize
  BY <1>1, <1>2, <1>6
<1>8. /\ Sound(s2) /\ SameCalls(s1, s2) /\ s2.port = p /\ s2.uart = s1.uart
      /\ \A which \in Semaphore : RightOK(s2, which)
           <=> Right(Gone(s2, which), s1.sem[which].semcnt, Holders(s1, which))
  BY <1>4, <1>5, <1>6, <1>7, PortChanges
<1>9. RightOK(s2, "receive")
  <2>1. Gone(s2, "receive") = FALSE
    BY <1>2, <1>6, <1>8 DEF Gone, Empty
  <2> QED BY <1>3, <1>4, <1>8, <2>1
<1>10. RightOK(s2, "send")
  <2>1. Gone(s2, "send") = Gone(s, "send")
    BY <1>6, <1>8 DEF Gone, Full
  <2> QED BY <1>3, <1>4, <1>8, <2>1 DEF RightOK
<1>11. Rights(s2)
  BY <1>9, <1>10 DEF Rights, Semaphore
<1>12. SameCalls(s, s2)
  BY <1>4, <1>8, SameCallsTransitive
<1>13. Enabled(s2)
  BY <1>4, <1>6, <1>8 DEF Enabled
<1> QED BY <1>8, <1>11, <1>12, <1>13 DEF Handled, Core, s2

LEMMA Pops ==
  ASSUME NEW s \in State, s.uart.rx # << >>
  PROVE  LET s2 == [s EXCEPT !.uart.rx = Tail(@)]
         IN  /\ Head(s.uart.rx) \in Char
             /\ Uarted(s, s2) /\ s2.uart.IMSC = s.uart.IMSC /\ s2.uart.tx = s.uart.tx
<1> DEFINE b  == s.uart.rx
           x  == Tail(b)
           u  == [s.uart EXCEPT !.rx = x]
           s2 == [s EXCEPT !.uart = u]
<1>1. s.uart \in Uart /\ b \in Seq(Char)
  BY StateTypes DEF Uart
<1>2. x \in Seq(Char) /\ Head(b) \in Char
  <2> HIDE DEF b
  <2> QED BY <1>1 DEF b
<1> HIDE DEF x
<1>3. /\ u \in Uart /\ u.tx = s.uart.tx /\ u.opened = s.uart.opened /\ u.IMSC = s.uart.IMSC
  BY <1>1, <1>2 DEF Uart
<1>4. [s EXCEPT !.uart.rx = Tail(@)] = s2
  BY DEF State, x
<1> HIDE DEF u
<1>5. s2 \in State /\ s2.uart = u /\ s2.port = s.port /\ s2.sem = s.sem /\ s2.task = s.task
  BY <1>3 DEF State
<1> HIDE DEF s2
<1> QED BY <1>2, <1>3, <1>4, <1>5 DEF Uarted

LEMMA HandledTransitive ==
  ASSUME NEW s, NEW s2, NEW s3, SameCalls(s, s2), Handled(s2, s3)
  PROVE  Handled(s, s3)
BY SameCallsTransitive DEF Handled

LEMMA ReadyReceives ==
  ASSUME NEW s0, Core(s0), Enabled(s0), getready(s0.uart)
  PROVE  Handled(s0, eiSIOCBR_readyReceive(s0))
<1> DEFINE c  == Head(s0.uart.rx)
           s  == [s0 EXCEPT !.uart.rx = Tail(@)]
           p  == s.port
           stored == store_received(s, c)
           stopped == [s EXCEPT !.port.sendStopped = TRUE]
           flow == send_flow_control(stored, FC_STOP)
           s2 == eiSIOCBR_readyReceive(s0)
<1>1. /\ Sound(s0) /\ Rights(s0) /\ s0 \in State /\ Len(s0.uart.tx) <= TxSize
      /\ s0.uart.rx # << >>
  BY CoreParts DEF getready
<1>2. /\ c \in Char /\ Uarted(s0, s) /\ s.uart.IMSC = s0.uart.IMSC
      /\ s.uart.tx = s0.uart.tx
  BY <1>1, Pops
<1>3. \/ s2 = stopped \/ s2 = restart(s) \/ s2 = s
      \/ Len(p.receiveBuffer) # receiveBufferSize /\ (s2 = flow \/ s2 = stored)
  BY DEF eiSIOCBR_readyReceive
<1> HIDE DEF s, c, s2
<1>4. Core(s) /\ SameCalls(s0, s) /\ s.port = s0.port
  BY <1>1, <1>2, UartedKeeps DEF Core, Uarted
<1>5. Enabled(s)
  BY <1>2, <1>4 DEF Enabled
<1>6. CASE s2 = stopped
  <2> DEFINE q == [s.port EXCEPT !.sendStopped = TRUE]
  <2>1. s \in State /\ s.port \in Port /\ s.port.errorFlag = FALSE
    BY <1>4, CoreParts
  <2>2. s2 = [s EXCEPT !.port = q]
    BY <1>6, <2>1 DEF State
  <2>3. /\ q \in Port /\ q.errorFlag = FALSE /\ q.sendBuffer = s.port.sendBuffer
        /\ q.receiveBuffer = s.port.receiveBuffer /\ q.openFlag = s.port.openFlag
        /\ q.receiveFlowControl = s.port.receiveFlowControl /\ q.sendStopped = TRUE
    BY <2>1 DEF Port
  <2> HIDE DEF q
  <2>4. Core(s2) /\ SameCalls(s, s2) /\ s2.port = q /\ s2.uart = s.uart
    BY <1>4, <2>2, <2>3, PortKeeps
  <2>5. Enabled(s2)
    BY <1>5, <2>3, <2>4 DEF Enabled
  <2> QED BY <1>4, <2>4, <2>5, HandledTransitive DEF Handled, s2
<1>7. CASE s2 = restart(s)
  <2>1. Handled(s, s2)
    BY <1>4, <1>5, <1>7, Restarts
  <2> QED BY <1>4, <2>1, HandledTransitive DEF s2
<1>8. CASE s2 = s
  BY <1>4, <1>5, <1>8 DEF Handled, s2
<1>9. CASE Len(p.receiveBuffer) # receiveBufferSize /\ (s2 = flow \/ s2 = stored)
  <2>1. Handled(s, stored)
    BY <1>2, <1>4, <1>5, <1>9, Stores
  <2> HIDE DEF stored
  <2>2. Handled(stored, flow)
    BY <2>1, FlowControlSends DEF Handled, Core
  <2> HIDE DEF flow
  <2>3. Handled(s, flow)
    BY <2>1, <2>2, HandledTransitive DEF Handled
  <2> QED BY <1>4, <1>9, <2>1, <2>3, HandledTransitive DEF s2
<1> QED BY <1>3, <1>6, <1>7, <1>8, <1>9

(* Only what SameCalls keeps decides in which phase the port is; a step    *)
(* that keeps it, while the handler may run, keeps the rest of Phases too. *)
LEMMA SamePhases ==
  ASSUME NEW s, NEW s2, SameCalls(s, s2), Phases(s), Live(s), Handled(s, s2)
  PROVE  Inv(s2)
<1>1. Live(s2)
  BY DEF Live, SameCalls
<1>2. Phases(s2)
  BY <1>1 DEF Phases, SameCalls
<1> QED BY <1>1, <1>2 DEF Inv, Handled, Core

LEMMA Becomes ==
  ASSUME NEW s \in State, Become(s)
  PROVE  state' = s
BY DEF Become, state, State

LEMMA StateFields ==
  /\ state.port = port /\ state.sem = sem /\ state.uart = uart /\ state.task = task
BY DEF state

(* Outside the phase in which the port is closed for good, the parts of    *)
(* the invariant that the handler relies on hold.                          *)
LEMMA InvParts ==
  ASSUME NEW s, Inv(s), Live(s) \/ Pending(s.uart)
  PROVE  Live(s) /\ Core(s) /\ Enabled(s) /\ Phases(s)
BY DEF Inv, Core, Phases

LEMMA MainKeeps ==
  ASSUME Inv(state), eiISR_main
  PROVE  Inv(state')
<1> DEFINE s1 == IF getready(uart) THEN eiSIOCBR_readyReceive(state) ELSE state
           s2 == IF putready(s1.uart) THEN eiSIOCBR_readySend(s1) ELSE s1
<1>1. state.uart = uart /\ (IrqPending <=> Pending(state.uart))
  BY StateFields DEF IrqPending, Pending
<1>2. Live(state) /\ Core(state) /\ Enabled(state) /\ Phases(state)
  BY <1>1, InvParts DEF eiISR_main
<1>3. Become(s2)
  BY DEF eiISR_main
<1>4. Handled(state, s1)
  <2>1. CASE getready(uart)
    <3>1. Handled(state, eiSIOCBR_readyReceive(state))
      BY <1>1, <1>2, <2>1, ReadyReceives
    <3> QED BY <2>1, <3>1
  <2>2. CASE ~getready(uart)
    <3>1. s1 = state
      BY <2>2
    <3> HIDE DEF s1
    <3> QED BY <1>2, <3>1 DEF Handled, SameCalls
  <2> QED BY <2>1, <2>2
<1> HIDE DEF s1
<1>5. Handled(state, s2)
  <2>1. CASE putready(s1.uart)
    <3>1. Handled(s1, eiSIOCBR_readySend(s1))
      BY <1>4, <2>1, ReadySends DEF Handled
    <3>2. SameCalls(state, s1)
      BY <1>4 DEF Handled
    <3> QED BY <2>1, <3>1, <3>2, HandledTransitive
  <2>2. CASE ~putready(s1.uart)
    BY <1>4, <2>2
  <2> QED BY <2>1, <2>2
<1> HIDE DEF s2
<1>6. s2 \in State /\ SameCalls(state, s2)
  BY <1>5 DEF Handled, Core, Sound
<1>7. state' = s2
  BY <1>3, <1>6, Becomes
<1>8. Inv(s2)
  BY <1>2, <1>5, <1>6, SamePhases
<1> QED BY <1>7, <1>8

--------------------------------------------------------------------------
(* The calls of the tasks. *)

(* A task that is not in a queue goes on in its call, or ends it.          *)
WithCall(s, t, r) == [s EXCEPT !.task[t] = r]

LEMMA TaskChanges ==
  ASSUME NEW s, Sound(s), NEW t \in Task, NEW r \in Call, CallOK(r),
         \A which \in Semaphore : t \notin InQueueOf(s, which),
         NEW s2, s2 = WithCall(s, t, r)
  PROVE  /\ Sound(s2)
         /\ s2.port = s.port /\ s2.sem = s.sem /\ s2.uart = s.uart
         /\ s2.task[t] = r
         /\ \A u \in Task \ {t} : s2.task[u] = s.task[u]
         /\ \A which \in Semaphore :
              Holders(s2, which) = IF Has(r, which) THEN Holders(s, which) \cup {t}
                                   ELSE Holders(s, which) \ {t}
<1> DEFINE tk == [s.task EXCEPT ![t] = r]
<1>1. s \in State /\ s.task \in [Task -> Call]
  BY StateTypes DEF Sound
<1>2. tk \in [Task -> Call] /\ tk[t] = r /\ \A u \in Task \ {t} : tk[u] = s.task[u]
  BY <1>1
<1>3. s2 = [s EXCEPT !.task = tk]
  BY <1>1 DEF State, WithCall
<1> HIDE DEF tk
<1>4. s2 \in State /\ s2.port = s.port /\ s2.sem = s.sem /\ s2.uart = s.uart /\ s2.task = tk
  BY <1>1, <1>2, <1>3 DEF State
<1>5. QueuesOK(s2)
  <2> SUFFICES ASSUME NEW which \in Semaphore
               PROVE  /\ QueueOf(s2.sem[which].queue, InQueueOf(s2, which))
                      /\ \A u \in InQueueOf(s2, which) : s2.task[u].at = WaitsAt(which)
                      /\ s2.sem[which].queue # << >> => s2.sem[which].semcnt = 0
    BY DEF QueuesOK
  <2>1. /\ InQueueOf(s2, which) = InQueueOf(s, which) /\ s2.sem[which] = s.sem[which]
        /\ QueueOf(s.sem[which].queue, InQueueOf(s, which))
        /\ \A u \in InQueueOf(s, which) : s.task[u].at = WaitsAt(which)
        /\ s.sem[which].queue # << >> => s.sem[which].semcnt = 0
        /\ s.sem[which] \in Sem
    BY <1>1, <1>4, StateTypes DEF InQueueOf, Sound, QueuesOK
  <2>2. \A u \in InQueueOf(s, which) : u \in Task \ {t}
    BY <2>1 DEF Sem, InQueueOf, ToSet
  <2> QED BY <1>2, <1>4, <2>1, <2>2
<1>6. Sound(s2)
  BY <1>2, <1>4, <1>5 DEF Sound, SizesOK
<1>7. \A which \in Semaphore :
        Holders(s2, which) = IF Has(r, which) THEN Holders(s, which) \cup {t}
                             ELSE Holders(s, which) \ {t}
  BY <1>2, <1>4 DEF Holders
<1> QED BY <1>2, <1>3, <1>4, <1>6, <1>7

(* A task is in a queue only where its call waits.                         *)
LEMMA NotWaiting ==
  ASSUME NEW s, Sound(s), NEW t \in Task, s.task[t].at \notin {"wait_send", "wait_receive"}
  PROVE  \A which \in Semaphore : t \notin InQueueOf(s, which)
BY DEF Sound, QueuesOK, WaitsAt

(* While somebody writes or reads, the port is open and nobody closes it.  *)
LEMMA SomebodyCalls ==
  ASSUME NEW s, Phases(s), NEW t \in Task, s.task[t].call \notin {"none", "close"}
  PROVE  s.port.openFlag /\ \A u \in Task : s.task[u].call # "close"
BY DEF Phases

LEMMA OpenPhases ==
  ASSUME NEW s, s.port.openFlag = TRUE, \A u \in Task : s.task[u].call # "close",
         Core(s), Enabled(s)
  PROVE  Inv(s)
BY DEF Inv, Core, Phases, Live

(* A call that has ended.                                                  *)
LEMMA IdleCall ==
  /\ Idle \in Call /\ CallOK(Idle) /\ Idle.call = "none" /\ Idle.at = "idle"
  /\ \A which \in Semaphore : ~Has(Idle, which)
<1> DEFINE e == << >>
<1>1. e \in Seq(Char)
  OBVIOUS
<1> HIDE DEF e
<1>2. Idle = [call |-> "none", at |-> "idle", rest |-> e, cr |-> FALSE,
              n |-> 0, empty |-> FALSE]
  BY DEF Idle, e
<1>3. Idle \in Call /\ Idle.call = "none" /\ Idle.at = "idle"
  BY <1>1, <1>2 DEF Call
<1> QED BY <1>3 DEF CallOK, Has

(* Where a task goes on behind the last character it had to send: it has   *)
(* the right to receive if it had it before.                               *)
LEMMA AfterSendCall ==
  ASSUME NEW r \in Call, r.call \in {"write", "read"}
  PROVE  LET r2 == AfterSend(r)
         IN  /\ r2 \in Call /\ CallOK(r2) /\ r2.call \in {r.call, "none"}
             /\ ~Has(r2, "send")
             /\ Has(r2, "receive") <=> r.call = "read" /\ ~r.empty
<1>1. Idle \in Call /\ Idle.call = "none"
  BY IdleCall
<1>2. CallOK(Idle) /\ ~Has(Idle, "send") /\ ~Has(Idle, "receive")
  BY IdleCall DEF Semaphore
<1> DEFINE a == [r EXCEPT !.at = IF r.empty THEN "wait_receive" ELSE "get"]
           b == [r EXCEPT !.at = "signal_receive"]
<1>3. /\ a \in Call /\ a.call = r.call /\ a.empty = r.empty
      /\ a.at = IF r.empty THEN "wait_receive" ELSE "get"
      /\ b \in Call /\ b.call = r.call /\ b.empty = r.empty /\ b.at = "signal_receive"
  BY DEF Call
<1>4. \/ AfterSend(r) = Idle /\ (r.call = "write" \/ r.empty)
      \/ AfterSend(r) = a /\ r.call = "read"
      \/ AfterSend(r) = b /\ r.call = "read" /\ ~r.empty
  BY DEF AfterSend, AfterGet
<1> HIDE DEF a, b
<1>5. r.call = "read" => CallOK(a) /\ ~Has(a, "send") /\ (Has(a, "receive") <=> ~r.empty)
  BY <1>3 DEF CallOK, Has
<1>6. r.call = "read" /\ ~r.empty => CallOK(b) /\ ~Has(b, "send") /\ Has(b, "receive")
  BY <1>3 DEF CallOK, Has
<1> QED BY <1>1, <1>2, <1>3, <1>4, <1>5, <1>6

(* Behind a character: the task keeps the right to send unless the buffer  *)
(* is full then.                                                           *)
LEMMA AfterPutCall ==
  ASSUME NEW r \in Call, CallOK(r), r.at = "put", NEW full \in BOOLEAN,
         port.ioControl \in SUBSET Control
  PROVE  LET r2 == AfterPut(r, full)
         IN  /\ r2 \in Call /\ CallOK(r2) /\ r2.call \in {r.call, "none"}
             /\ Has(r2, "send") <=> ~full
             /\ Has(r2, "receive") <=> Has(r, "receive")
             /\ NextChar(r) \in Char
<1>1. r.call \in {"write", "read"} /\ r.rest # << >> /\ r.rest \in Seq(Char)
  BY DEF CallOK, Call
<1> DEFINE q  == r.rest
           x  == Tail(q)
<1>2. x \in Seq(Char) /\ Head(q) \in Char
  <2> HIDE DEF q
  <2> QED BY <1>1 DEF q
<1>3. NextChar(r) \in Char
  BY <1>2 DEF NextChar, Char
<1> HIDE DEF x
<1> DEFINE ra == [r EXCEPT !.cr = TRUE]
           rb == [r EXCEPT !.cr = FALSE, !.rest = x]
           r1 == IF PutsCR(r) THEN ra ELSE rb
           r2 == AfterPut(r, full)
<1>4. /\ ra \in Call /\ ra.call = r.call /\ ra.empty = r.empty
      /\ rb \in Call /\ rb.call = r.call /\ rb.empty = r.empty
  BY <1>2 DEF Call
<1>5. r2 = IF r1.rest # << >> THEN [r1 EXCEPT !.at = IF full THEN "wait_send" ELSE "put"]
           ELSE IF full THEN AfterSend(r1)
           ELSE [r1 EXCEPT !.at = "signal_send"]
  BY DEF AfterPut, x, Call
<1> HIDE DEF ra, rb
<1>6. r1 \in Call /\ r1.call = r.call /\ r1.empty = r.empty
  BY <1>4
<1> HIDE DEF r1
<1> DEFINE a == [r1 EXCEPT !.at = IF full THEN "wait_send" ELSE "put"]
           b == [r1 EXCEPT !.at = "signal_send"]
<1>7. /\ a \in Call /\ a.call = r.call /\ a.empty = r.empty /\ a.rest = r1.rest
      /\ a.at = IF full THEN "wait_send" ELSE "put"
      /\ b \in Call /\ b.call = r.call /\ b.empty = r.empty /\ b.at = "signal_send"
  BY <1>6 DEF Call
<1>8. Has(r, "receive") <=> r.call = "read" /\ ~r.empty
  BY DEF Has
<1>9. CASE r1.rest # << >>
  <2>1. r2 = a
    BY <1>5, <1>9
  <2> HIDE DEF a
  <2>2. CallOK(a) /\ (Has(a, "send") <=> ~full) /\ (Has(a, "receive") <=> Has(r, "receive"))
    BY <1>1, <1>7, <1>8, <1>9 DEF CallOK, Has
  <2> HIDE DEF r2
  <2> QED BY <1>3, <1>7, <2>1, <2>2 DEF r2
<1>10. CASE r1.rest = << >> /\ full
  <2>1. r2 = AfterSend(r1)
    BY <1>5, <1>10
  <2> HIDE DEF r2
  <2>2. /\ r2 \in Call /\ CallOK(r2) /\ r2.call \in {r1.call, "none"}
        /\ ~Has(r2, "send")
        /\ Has(r2, "receive") <=> r1.call = "read" /\ ~r1.empty
    BY <1>1, <1>6, <2>1, AfterSendCall
  <2> QED BY <1>3, <1>6, <1>8, <1>10, <2>2 DEF r2
<1>11. CASE r1.rest = << >> /\ ~full
  <2>1. r2 = b
    BY <1>5, <1>11
  <2> HIDE DEF b
  <2>2. CallOK(b) /\ Has(b, "send") /\ (Has(b, "receive") <=> Has(r, "receive"))
    BY <1>1, <1>7, <1>8 DEF CallOK, Has
  <2> HIDE DEF r2
  <2> QED BY <1>3, <1>7, <1>11, <2>1, <2>2 DEF r2
<1> QED BY <1>9, <1>10, <1>11

--------------------------------------------------------------------------
(* Each action keeps the invariant. *)

(* Who has a right has it alone.                                           *)
LEMMA SoleHolder ==
  ASSUME NEW s, Rights(s), NEW t \in Task, NEW which \in Semaphore, Has(s.task[t], which)
  PROVE  ~Gone(s, which) /\ s.sem[which].semcnt = 0 /\ Holders(s, which) = {t}
BY DEF Rights, RightOK, Right, Holders

(* The next state, from a step's primed variables.                         *)
LEMMA NextState ==
  ASSUME NEW s \in State, port' = s.port, sem' = s.sem, uart' = s.uart, task' = s.task
  PROVE  state' = s
BY DEF state, State

LEMMA WriteCharKeeps ==
  ASSUME Inv(state), NEW t \in Task, serialPort_writeChar(t)
  PROVE  Inv(state')
<1> DEFINE r      == task[t]
           c      == NextChar(r)
           b      == port.sendBuffer
           direct == b = << >> /\ ~port.sendStopped
           s1     == IF direct THEN serialPort_sendChar(state, c) ELSE state
           full   == Len(b) + 1 = sendBufferSize
           x      == Append(b, c)
           ra     == AfterPut(r, FALSE)
           rb     == AfterPut(r, full)
           sa     == [s1 EXCEPT !.task[t] = ra]
           p      == [s1.port EXCEPT !.sendBuffer = x]
           s2     == [s1 EXCEPT !.port = p]
           sb     == [s2 EXCEPT !.task[t] = rb]
<1>1. /\ Sound(state) /\ Phases(state) /\ Enabled(state) /\ state \in State
      /\ r \in Call /\ CallOK(r) /\ r.at = "put" /\ state.task[t] = r
  BY StateFields, StateTypes DEF Inv, Sound, serialPort_writeChar
<1>2. r.call \notin {"none", "close"}
  BY <1>1 DEF CallOK
<1>3. port.openFlag /\ \A u \in Task : task[u].call # "close"
  BY <1>1, <1>2, SomebodyCalls, StateFields
<1>4. Core(state) /\ Rights(state)
  BY <1>1, <1>3, StateFields DEF Inv, Live, Core
<1>5. /\ state.port = port /\ port \in Port /\ b \in Seq(Char) /\ Len(b) <= sendBufferSize
      /\ Len(port.receiveBuffer) <= receiveBufferSize /\ Len(uart.tx) <= TxSize
      /\ port.errorFlag = FALSE /\ port.ioControl \in SUBSET Control
  BY <1>1, <1>4, CoreParts, StateFields DEF Port, Sound, SizesOK
<1>6. ASSUME NEW f \in BOOLEAN
      PROVE  /\ AfterPut(r, f) \in Call /\ CallOK(AfterPut(r, f))
             /\ AfterPut(r, f).call \in {r.call, "none"}
             /\ Has(AfterPut(r, f), "send") <=> ~f
             /\ Has(AfterPut(r, f), "receive") <=> Has(r, "receive")
             /\ NextChar(r) \in Char
  BY <1>1, <1>5, <1>6, AfterPutCall
<1>7. c \in Char
  BY <1>6
<1>8. /\ Has(r, "send") /\ ~Gone(state, "send") /\ state.sem["send"].semcnt = 0
      /\ Holders(state, "send") = {t} /\ "send" \in Semaphore /\ "receive" \in Semaphore
  <2>1. Has(r, "send") /\ "send" \in Semaphore /\ "receive" \in Semaphore
    BY <1>1 DEF Has, Semaphore
  <2> QED BY <1>1, <1>4, <2>1, SoleHolder
<1>9. Len(b) # sendBufferSize
  BY <1>5, <1>8 DEF Gone, Full
<1>10. /\ Sound(s1) /\ s1.port = port /\ s1.sem = state.sem /\ s1.task = state.task
       /\ state.uart.IMSC \subseteq s1.uart.IMSC
       /\ direct /\ ~putready(uart) => "TX" \in s1.uart.IMSC
       /\ \A which \in Semaphore : /\ Holders(s1, which) = Holders(state, which)
                                   /\ Gone(s1, which) = Gone(state, which)
       /\ Rights(s1)
  <2>1. CASE direct
    <3>1. Tries(state, s1)
      <4>1. s1 = serialPort_sendChar(state, c)
        BY <2>1
      <4> HIDE DEF s1, c
      <4> QED BY <1>1, <1>5, <1>7, <4>1, StateFields, SendChar
    <3> HIDE DEF s1
    <3> QED BY <1>1, <1>4, <1>5, <3>1, UartedKeeps, StateFields DEF Tries, Uarted
  <2>2. CASE ~direct
    <3>1. s1 = state
      BY <2>2
    <3> HIDE DEF s1
    <3> QED BY <1>1, <1>4, <1>5, <2>2, <3>1
  <2> QED BY <2>1, <2>2
<1>11. \A which \in Semaphore : t \notin InQueueOf(s1, which)
  BY <1>1, <1>10, NotWaiting
<1>12. s1 \in State /\ s1.port \in Port
  BY <1>10, StateTypes DEF Sound
<1> HIDE DEF s1, c
<1>13. \/ direct /\ putready(uart) /\ Become(sa)
       \/ ~(direct /\ putready(uart)) /\ Become(sb)
  <2> DEFINE sc == [s1 EXCEPT !.task[t] = AfterPut(@, FALSE)]
             sd == [s1 EXCEPT !.port.sendBuffer = Append(@, c),
                              !.task[t] = AfterPut(@, Len(port.sendBuffer) + 1 = sendBufferSize)]
  <2>1. \/ direct /\ putready(uart) /\ Become(sc)
        \/ ~(direct /\ putready(uart)) /\ Become(sd)
    BY DEF serialPort_writeChar, s1, c
  <2>2. s1.task[t] = r /\ s1.port.sendBuffer = b
    BY <1>1, <1>10
  <2>3. sc = sa
    BY <2>2
  <2>4. sd = sb
    BY <1>12, <2>2 DEF State
  <2> QED BY <2>1, <2>3, <2>4
<1>14. /\ \A u \in Task : s1.task[u] = task[u]
       /\ s1.sem["send"].semcnt = 0 /\ Holders(s1, "send") = {t}
       /\ ~Gone(s1, "send")
  BY <1>8, <1>10, StateFields
<1>15. CASE direct /\ putready(uart)
  <2>1. ra \in Call /\ CallOK(ra) /\ ra.call \in {r.call, "none"} /\ Has(ra, "send")
        /\ (Has(ra, "receive") <=> Has(r, "receive"))
    BY <1>6
  <2> HIDE DEF ra
  <2>2. sa = WithCall(s1, t, ra)
    BY DEF WithCall
  <2> HIDE DEF sa
  <2>3. /\ Sound(sa) /\ sa.port = s1.port /\ sa.sem = s1.sem /\ sa.uart = s1.uart
        /\ sa.task[t] = ra /\ \A u \in Task \ {t} : sa.task[u] = s1.task[u]
        /\ \A which \in Semaphore :
             Holders(sa, which) = IF Has(ra, which) THEN Holders(s1, which) \cup {t}
                                  ELSE Holders(s1, which) \ {t}
    BY <1>10, <1>11, <2>1, <2>2, TaskChanges
  <2>4. \A which \in Semaphore : Gone(sa, which) = Gone(s1, which)
    BY <2>3 DEF Gone, Full, Empty
  <2>5. RightOK(sa, "send")
    BY <1>8, <1>14, <2>1, <2>3, <2>4 DEF RightOK, Right
  <2>6. Holders(sa, "receive") = Holders(s1, "receive")
    BY <1>1, <1>8, <1>10, <2>1, <2>3 DEF Holders
  <2>7. RightOK(sa, "receive")
    BY <1>8, <1>10, <2>3, <2>4, <2>6 DEF Rights, RightOK
  <2>8. Enabled(sa)
    BY <1>1, <1>10, <2>3, <1>15, StateFields DEF Enabled
  <2>9. Core(sa)
    BY <2>3, <2>5, <2>7 DEF Core, Rights, Semaphore
  <2>10. Inv(sa)
    <3>1. \A u \in Task : sa.task[u].call # "close"
      BY <1>3, <1>14, <2>1, <2>3
    <3>2. sa.port.openFlag = TRUE
      BY <1>3, <1>5, <1>10, <2>3 DEF Port
    <3> QED BY <2>8, <2>9, <3>1, <3>2, OpenPhases
  <2>11. Become(sa)
    BY <1>13, <1>15
  <2> QED BY <2>3, <2>10, <2>11, Becomes DEF Sound
<1>16. CASE ~(direct /\ putready(uart))
  <2>1. full \in BOOLEAN
    OBVIOUS
  <2>2. /\ x \in Seq(Char) /\ Len(x) = Len(b) + 1 /\ Len(x) <= sendBufferSize
        /\ Len(b) \in Nat /\ (Len(x) = sendBufferSize <=> full)
    <3> HIDE DEF b
    <3>1. x \in Seq(Char) /\ Len(x) = Len(b) + 1 /\ Len(b) \in Nat
      BY <1>5, <1>7
    <3> HIDE DEF x
    <3> QED BY <1>5, <1>9, <3>1, SizesPositive
  <2> HIDE DEF full
  <2>3. rb \in Call /\ CallOK(rb) /\ rb.call \in {r.call, "none"}
        /\ (Has(rb, "send") <=> ~full)
        /\ (Has(rb, "receive") <=> Has(r, "receive"))
    BY <1>6, <2>1
  <2> HIDE DEF rb, x
  <2>4. /\ p \in Port /\ p.errorFlag = FALSE /\ p.sendBuffer = x
        /\ p.receiveBuffer = port.receiveBuffer /\ p.openFlag = port.openFlag
        /\ p.sendStopped = port.sendStopped
        /\ p.receiveFlowControl = port.receiveFlowControl
    BY <1>5, <1>10, <1>12, <2>2 DEF Port
  <2> HIDE DEF p
  <2>5. /\ Sound(s2) /\ s2.port = p /\ s2.sem = s1.sem /\ s2.uart = s1.uart
        /\ s2.task = s1.task
        /\ \A which \in Semaphore : Holders(s2, which) = Holders(s1, which)
    BY <1>5, <1>10, <2>2, <2>4, PortChanges
  <2> HIDE DEF s2
  <2>6. \A which \in Semaphore : t \notin InQueueOf(s2, which)
    BY <1>11, <2>5 DEF InQueueOf
  <2>7. sb = WithCall(s2, t, rb)
    BY DEF WithCall
  <2> HIDE DEF sb
  <2>8. /\ Sound(sb) /\ sb.port = s2.port /\ sb.sem = s2.sem /\ sb.uart = s2.uart
        /\ sb.task[t] = rb /\ \A u \in Task \ {t} : sb.task[u] = s2.task[u]
        /\ \A which \in Semaphore :
             Holders(sb, which) = IF Has(rb, which) THEN Holders(s2, which) \cup {t}
                                  ELSE Holders(s2, which) \ {t}
    BY <2>3, <2>5, <2>6, <2>7, TaskChanges
  <2>9. RightOK(sb, "send")
    <3>1. Gone(sb, "send") = full
      BY <2>1, <2>2, <2>4, <2>5, <2>8 DEF Gone, Full
    <3>2. sb.sem["send"].semcnt = 0
      BY <1>14, <2>5, <2>8
    <3>3. Holders(sb, "send") = IF full THEN {} ELSE {t}
      BY <1>8, <1>14, <2>3, <2>5, <2>8
    <3> QED BY <2>1, <3>1, <3>2, <3>3 DEF RightOK, Right
  <2>10. RightOK(sb, "receive")
    <3>1. Gone(sb, "receive") = Gone(s1, "receive")
      BY <1>10, <2>4, <2>5, <2>8 DEF Gone, Empty
    <3>2. Holders(sb, "receive") = Holders(s1, "receive")
      BY <1>1, <1>8, <1>10, <2>3, <2>5, <2>8 DEF Holders
    <3> QED BY <1>8, <1>10, <2>5, <2>8, <3>1, <3>2 DEF Rights, RightOK
  <2>11. Enabled(sb)
    <3>1. CASE direct
      BY <1>10, <1>16, <2>5, <2>8, <3>1 DEF Enabled
    <3>2. CASE ~direct
      <4>1. (b # << >> /\ ~port.sendStopped) \/ port.receiveFlowControl # NULL
              => "TX" \in s1.uart.IMSC
        BY <1>1, <1>10, StateFields DEF Enabled
      <4> QED BY <2>4, <2>5, <2>8, <3>2, <4>1 DEF Enabled
    <3> QED BY <3>1, <3>2
  <2>12. Core(sb)
    BY <2>8, <2>9, <2>10 DEF Core, Rights, Semaphore
  <2>13. Inv(sb)
    <3>1. \A u \in Task : sb.task[u].call # "close"
      BY <1>3, <1>14, <2>3, <2>5, <2>8
    <3>2. sb.port.openFlag = TRUE
      BY <1>3, <1>5, <2>4, <2>5, <2>8 DEF Port
    <3> QED BY <2>11, <2>12, <3>1, <3>2, OpenPhases
  <2>14. Become(sb)
    BY <1>13, <1>16
  <2> QED BY <2>8, <2>13, <2>14, Becomes DEF Sound
<1> QED BY <1>15, <1>16

LEMMA ReadCharKeeps ==
  ASSUME Inv(state), NEW t \in Task, serialPort_readChar(t)
  PROVE  Inv(state')
<1> DEFINE r0    == task[t]
           b     == port.receiveBuffer
           c     == Head(b)
           count == Len(b) - 1
           x     == Tail(b)
           p     == [port EXCEPT !.receiveBuffer = x]
           s1    == [state EXCEPT !.port = p]
           s2    == IF port.receiveStopped /\ count <= BUFCNT_START
                    THEN send_flow_control(s1, FC_START) ELSE s1
           last  == count = 0
           r     == [r0 EXCEPT !.n = @ - 1, !.empty = last]
           re    == [r EXCEPT !.at = "wait_send", !.rest = <<c>>]
           r2    == IF "ECHO" \in port.ioControl THEN re ELSE AfterGet(r)
           s3    == [s2 EXCEPT !.task[t] = r2]
<1>1. /\ Sound(state) /\ Phases(state) /\ Enabled(state) /\ state \in State
      /\ r0 \in Call /\ CallOK(r0) /\ r0.at = "get" /\ state.task[t] = r0
  BY StateFields, StateTypes DEF Inv, Sound, serialPort_readChar
<1>2. r0.call = "read"
  BY <1>1 DEF CallOK
<1>3. port.openFlag /\ \A u \in Task : task[u].call # "close"
  BY <1>1, <1>2, SomebodyCalls, StateFields
<1>4. Core(state) /\ Rights(state)
  BY <1>1, <1>3, StateFields DEF Inv, Live, Core
<1>5. /\ state.port = port /\ port \in Port /\ b \in Seq(Char)
      /\ Len(port.sendBuffer) <= sendBufferSize
      /\ Len(b) <= receiveBufferSize
      /\ port.errorFlag = FALSE
  BY <1>1, <1>4, CoreParts, StateFields DEF Port, Sound, SizesOK
<1>6. /\ Has(r0, "receive") /\ ~Gone(state, "receive") /\ state.sem["receive"].semcnt = 0
      /\ Holders(state, "receive") = {t} /\ "send" \in Semaphore /\ "receive" \in Semaphore
      /\ ~Has(r0, "send")
  <2>1. Has(r0, "receive") /\ "send" \in Semaphore /\ "receive" \in Semaphore /\ ~Has(r0, "send")
    BY <1>1 DEF Has, Semaphore
  <2> QED BY <1>1, <1>4, <2>1, SoleHolder
<1>7. b # << >>
  BY <1>5, <1>6 DEF Gone, Empty
<1>8. /\ x \in Seq(Char) /\ c \in Char /\ Len(x) = count /\ Len(x) <= receiveBufferSize
      /\ count \in Nat /\ (x = << >> <=> last)
  <2> HIDE DEF b
  <2>1. x \in Seq(Char) /\ c \in Char /\ Len(x) = Len(b) - 1 /\ Len(b) \in Nat
    BY <1>5, <1>7
  <2> HIDE DEF x
  <2>2. Len(x) \in Nat /\ (Len(x) = 0 <=> x = << >>)
    BY <2>1
  <2> QED BY <1>5, <2>1, <2>2, SizesPositive
<1>9. Become(s3)
  <2> DEFINE sx == [state EXCEPT !.port.receiveBuffer = Tail(@)]
  <2>1. sx = s1
    BY DEF state
  <2> HIDE DEF sx
  <2>2. Become([IF port.receiveStopped /\ count <= BUFCNT_START
                THEN send_flow_control(sx, FC_START) ELSE sx EXCEPT !.task[t] = r2])
    BY DEF serialPort_readChar, sx
  <2> QED BY <2>1, <2>2
<1> HIDE DEF x
<1>10. /\ p \in Port /\ p.errorFlag = FALSE /\ p.sendBuffer = port.sendBuffer
       /\ p.receiveBuffer = x /\ p.openFlag = port.openFlag
       /\ p.sendStopped = port.sendStopped
       /\ p.receiveFlowControl = port.receiveFlowControl
  BY <1>5, <1>8 DEF Port
<1> HIDE DEF p
<1>11. /\ Sound(s1) /\ SameCalls(state, s1) /\ s1.port = p /\ s1.sem = state.sem
       /\ s1.uart = state.uart /\ s1.task = state.task
  BY <1>1, <1>5, <1>8, <1>10, PortChanges
<1>12. Enabled(s1)
  BY <1>1, <1>5, <1>10, <1>11 DEF Enabled
<1> HIDE DEF s1
<1>13. /\ Sound(s2) /\ Enabled(s2) /\ SameCalls(s1, s2)
       /\ s2.sem = state.sem /\ s2.task = state.task
       /\ s2.port.sendBuffer = port.sendBuffer
       /\ s2.port.receiveBuffer = x
  <2>1. CASE port.receiveStopped /\ count <= BUFCNT_START
    <3>1. s2 = send_flow_control(s1, FC_START)
      BY <2>1
    <3> HIDE DEF s2
    <3> QED BY <1>10, <1>11, <1>12, <3>1, FlowControlSends
  <2>2. CASE ~(port.receiveStopped /\ count <= BUFCNT_START)
    <3>1. s2 = s1 /\ SameCalls(s1, s1)
      BY <2>2 DEF SameCalls
    <3> HIDE DEF s2
    <3> QED BY <1>10, <1>11, <1>12, <3>1
  <2> QED BY <2>1, <2>2
<1>14. s2.port.openFlag = TRUE /\ \A u \in Task : s2.task[u].call # "close"
  <2>1. s2.port.openFlag = port.openFlag
    BY <1>10, <1>11, <1>13 DEF SameCalls
  <2> QED BY <1>3, <1>5, <1>13, <2>1, StateFields DEF Port
<1> HIDE DEF s2
<1>15. /\ r2 \in Call /\ CallOK(r2) /\ r2.call \in {r0.call, "none"}
       /\ ~Has(r2, "send") /\ (Has(r2, "receive") <=> ~last)
  <2>1. last \in BOOLEAN
    OBVIOUS
  <2> HIDE DEF last
  <2> DEFINE m == r0.n - 1
  <2>2. m \in Int
    BY <1>1 DEF Call
  <2> HIDE DEF m
  <2>3. r = [r0 EXCEPT !.n = m, !.empty = last]
    BY DEF m
  <2>4. r \in Call /\ r.call = "read" /\ r.empty = last
    BY <1>1, <1>2, <2>1, <2>2, <2>3 DEF Call
  <2> HIDE DEF r
  <2>5. CASE "ECHO" \in port.ioControl
    <3> DEFINE q == <<c>>
    <3>1. q \in Seq(Char) /\ q # << >>
      <4> HIDE DEF c
      <4> QED BY <1>8
    <3> HIDE DEF q
    <3>2. re = [r EXCEPT !.at = "wait_send", !.rest = q]
      BY DEF q
    <3>3. /\ re \in Call /\ re.call = "read" /\ re.empty = last /\ re.at = "wait_send"
          /\ re.rest = q
      BY <2>4, <3>1, <3>2 DEF Call
    <3> HIDE DEF re
    <3>4. CallOK(re) /\ ~Has(re, "send") /\ (Has(re, "receive") <=> ~last)
      BY <3>1, <3>3 DEF CallOK, Has
    <3>5. r2 = re
      BY <2>5
    <3> QED BY <1>2, <3>3, <3>4, <3>5
  <2>6. CASE "ECHO" \notin port.ioControl
    <3>1. r2 = AfterSend(r)
      BY <2>4, <2>6 DEF AfterSend
    <3> HIDE DEF r2
    <3> QED BY <1>2, <2>4, <3>1, AfterSendCall
  <2> QED BY <2>5, <2>6
<1> HIDE DEF r2, last
<1>16. s3 = WithCall(s2, t, r2)
  BY DEF WithCall
<1> HIDE DEF s3
<1>17. \A which \in Semaphore : t \notin InQueueOf(s2, which)
  BY <1>1, <1>13, NotWaiting
<1>18. /\ Sound(s3) /\ s3.port = s2.port /\ s3.sem = s2.sem /\ s3.uart = s2.uart
       /\ s3.task[t] = r2 /\ \A u \in Task \ {t} : s3.task[u] = s2.task[u]
       /\ \A which \in Semaphore :
            Holders(s3, which) = IF Has(r2, which) THEN Holders(s2, which) \cup {t}
                                 ELSE Holders(s2, which) \ {t}
  BY <1>13, <1>15, <1>16, <1>17, TaskChanges
<1>19. \A which \in Semaphore : Holders(s2, which) = Holders(state, which)
  BY <1>13 DEF Holders
<1>20. RightOK(s3, "receive")
  <2>1. Gone(s3, "receive") <=> last
    BY <1>8, <1>13, <1>18 DEF Gone, Empty
  <2>2. Holders(s3, "receive") = IF last THEN {} ELSE {t}
    BY <1>6, <1>15, <1>18, <1>19
  <2>3. s3.sem["receive"].semcnt = 0
    BY <1>6, <1>13, <1>18
  <2> QED BY <2>1, <2>2, <2>3 DEF RightOK, Right
<1>21. RightOK(s3, "send")
  <2>1. Gone(s3, "send") = Gone(state, "send")
    BY <1>5, <1>13, <1>18 DEF Gone, Full
  <2>2. Holders(s3, "send") = Holders(state, "send")
    BY <1>1, <1>6, <1>15, <1>18, <1>19 DEF Holders
  <2> QED BY <1>4, <1>6, <1>13, <1>18, <2>1, <2>2 DEF Rights, RightOK
<1>22. Enabled(s3)
  BY <1>13, <1>18 DEF Enabled
<1>23. Core(s3)
  BY <1>18, <1>20, <1>21 DEF Core, Rights, Semaphore
<1>24. \A u \in Task : s3.task[u].call # "close"
  BY <1>2, <1>14, <1>15, <1>18
<1>25. Inv(s3)
  BY <1>14, <1>18, <1>22, <1>23, <1>24, OpenPhases
<1>26. state' = s3
  BY <1>9, <1>18, Becomes DEF Sound
<1> QED BY <1>25, <1>26

(* The sig_sem() of a call: the task gives its right up, and somebody or   *)
(* the semaphore gets it.                                                  *)
LEMMA GivesUp ==
  ASSUME Inv(state), NEW t \in Task, NEW which \in Semaphore, Has(task[t], which),
         task[t].call \in {"write", "read"},
         task[t].at \notin {"wait_send", "wait_receive"},
         NEW r \in Call, CallOK(r), r.call \in {task[t].call, "none"}, ~Has(r, which),
         \A v \in Semaphore \ {which} : Has(r, v) <=> Has(task[t], v),
         Become(signal(WithCall(state, t, r), which))
  PROVE  Inv(state')
<1> DEFINE s1 == WithCall(state, t, r)
           s2 == signal(s1, which)
<1>1. /\ Sound(state) /\ Phases(state) /\ Enabled(state) /\ state \in State
      /\ state.port = port /\ state.task = task
  BY StateFields DEF Inv, Sound
<1>2. port.openFlag /\ \A u \in Task : task[u].call # "close"
  BY <1>1, SomebodyCalls
<1>3. Core(state) /\ Rights(state)
  BY <1>1, <1>2 DEF Inv, Live, Core
<1>4. /\ ~Gone(state, which) /\ state.sem[which].semcnt = 0
      /\ Holders(state, which) = {t}
  BY <1>1, <1>3, SoleHolder
<1>5. \A v \in Semaphore : t \notin InQueueOf(state, v)
  BY <1>1, NotWaiting
<1> HIDE DEF s1
<1>6. /\ Sound(s1) /\ s1.port = port /\ s1.sem = state.sem /\ s1.uart = state.uart
      /\ s1.task[t] = r /\ \A u \in Task \ {t} : s1.task[u] = task[u]
      /\ \A v \in Semaphore :
           Holders(s1, v) = IF Has(r, v) THEN Holders(state, v) \cup {t}
                            ELSE Holders(state, v) \ {t}
  <2>1. s1 = WithCall(state, t, r)
    BY DEF s1
  <2> QED BY <1>1, <1>5, <2>1, TaskChanges
<1>7. \A v \in Semaphore \ {which} : Holders(s1, v) = Holders(state, v)
  BY <1>1, <1>6 DEF Holders
<1>8. Holders(s1, which) = {} /\ s1.sem[which].semcnt = 0
  BY <1>4, <1>6
<1>9. /\ Sound(s2) /\ SameCalls(s1, s2) /\ s2.port = port /\ s2.uart = state.uart
      /\ Right(FALSE, s2.sem[which].semcnt, Holders(s2, which))
      /\ \A v \in Semaphore \ {which} :
           /\ s2.sem[v].semcnt = state.sem[v].semcnt
           /\ Holders(s2, v) = Holders(state, v)
  <2>1. /\ Sound(s2) /\ SameCalls(s1, s2) /\ s2.port = s1.port /\ s2.uart = s1.uart
        /\ Right(FALSE, s2.sem[which].semcnt, Holders(s2, which))
        /\ \A v \in Semaphore \ {which} :
             /\ s2.sem[v].semcnt = s1.sem[v].semcnt
             /\ Holders(s2, v) = Holders(s1, v)
    <3>1. Sound(s1) /\ s1.sem[which].semcnt = 0 /\ Holders(s1, which) = {}
      BY <1>6, <1>8
    <3> QED BY ONLY <3>1, Signals
  <2> HIDE DEF s2
  <2> QED BY <1>6, <1>7, <2>1
<1>10. Become(s2)
  BY DEF s1
<1> HIDE DEF s2
<1>11. \A v \in Semaphore : Gone(s2, v) = Gone(state, v)
  BY <1>1, <1>9 DEF Gone, Full, Empty
<1>12. Gone(state, which) = FALSE
  BY <1>4 DEF Gone, Full, Empty
<1>13. Rights(s2)
  BY <1>3, <1>9, <1>11, <1>12 DEF Rights, RightOK
<1>14. Enabled(s2)
  BY <1>1, <1>9 DEF Enabled
<1>15. \A u \in Task : s2.task[u].call # "close"
  <2>1. \A u \in Task : s1.task[u].call # "close"
    BY <1>2, <1>6
  <2> QED BY <1>9, <2>1 DEF SameCalls
<1>16. s2.port.openFlag = TRUE
  BY <1>1, <1>2, <1>9, StateTypes DEF Port
<1>17. Inv(s2)
  BY <1>9, <1>13, <1>14, <1>15, <1>16, OpenPhases DEF Core
<1> QED BY <1>9, <1>10, <1>17, Becomes DEF Sound

LEMMA SignalSendKeeps ==
  ASSUME Inv(state), NEW t \in Task, signal_send(t)
  PROVE  Inv(state')
<1> DEFINE r == AfterSend(task[t])
           s1 == WithCall(state, t, r)
<1>1. task[t] \in Call /\ CallOK(task[t]) /\ task[t].at = "signal_send"
  BY StateFields, StateTypes DEF Inv, Sound, signal_send
<1>2. task[t].call \in {"write", "read"}
  BY <1>1 DEF CallOK
<1>3. /\ r \in Call /\ CallOK(r) /\ r.call \in {task[t].call, "none"}
      /\ ~Has(r, "send")
      /\ Has(r, "receive") <=> task[t].call = "read" /\ ~task[t].empty
  BY <1>1, <1>2, AfterSendCall
<1>4. Become(signal(s1, "send"))
  BY StateFields DEF signal_send, WithCall
<1> HIDE DEF r
<1>5. /\ "send" \in Semaphore /\ Has(task[t], "send")
      /\ \A v \in Semaphore \ {"send"} : Has(r, v) <=> Has(task[t], v)
  BY <1>1, <1>3 DEF Semaphore, Has
<1> QED BY <1>1, <1>2, <1>3, <1>4, <1>5, GivesUp

LEMMA SignalReceiveKeeps ==
  ASSUME Inv(state), NEW t \in Task, signal_receive(t)
  PROVE  Inv(state')
<1> DEFINE s1 == WithCall(state, t, Idle)
<1>1. task[t] \in Call /\ CallOK(task[t]) /\ task[t].at = "signal_receive"
  BY StateFields, StateTypes DEF Inv, Sound, signal_receive
<1>2. task[t].call \in {"write", "read"}
  BY <1>1 DEF CallOK
<1>3. Become(signal(s1, "receive"))
  BY DEF signal_receive, WithCall
<1>4. /\ "receive" \in Semaphore /\ Has(task[t], "receive")
      /\ \A v \in Semaphore \ {"receive"} : ~Has(task[t], v)
  BY <1>1 DEF Semaphore, Has
<1>5. /\ Idle \in Call /\ CallOK(Idle) /\ Idle.call = "none"
      /\ \A v \in Semaphore : ~Has(Idle, v)
  BY IdleCall
<1> QED BY <1>1, <1>2, <1>3, <1>4, <1>5, GivesUp

(* The queue and the count of a semaphore change; the calls do not.        *)
LEMMA SemChanges ==
  ASSUME NEW s \in State, NEW sm \in [Semaphore -> Sem],
         NEW s2, s2 = [s EXCEPT !.sem = sm]
  PROVE  /\ s2 \in State /\ s2.port = s.port /\ s2.sem = sm /\ s2.uart = s.uart
         /\ s2.task = s.task /\ SameCalls(s, s2)
         /\ \A which \in Semaphore : Holders(s2, which) = Holders(s, which)
<1>1. /\ s2 \in State /\ s2.port = s.port /\ s2.sem = sm /\ s2.uart = s.uart
      /\ s2.task = s.task
  BY DEF State
<1> QED BY <1>1 DEF SameCalls, Holders

LEMMA WaitKeeps ==
  ASSUME Inv(state), NEW t \in Task, NEW which \in Semaphore, wait(t, which)
  PROVE  Inv(state')
<1> DEFINE r == task[t]
           q == sem[which].queue
<1>1. /\ Sound(state) /\ Phases(state) /\ Enabled(state) /\ state \in State
      /\ r \in Call /\ CallOK(r) /\ r.at = WaitsAt(which) /\ state.task[t] = r
      /\ sem \in [Semaphore -> Sem] /\ task \in [Task -> Call]
      /\ state.port = port /\ state.sem = sem /\ state.uart = uart /\ state.task = task
      /\ QueuesOK(state) /\ sem[which] \in Sem
  BY StateFields, StateTypes DEF Inv, Sound, wait, WaitsAt
<1>2. r.call \notin {"none", "close"}
  BY <1>1 DEF CallOK, WaitsAt, Semaphore
<1>3. port.openFlag /\ \A u \in Task : task[u].call # "close"
  BY <1>1, <1>2, SomebodyCalls
<1>4. Core(state) /\ Rights(state)
  BY <1>1, <1>3 DEF Inv, Live, Core
<1>5. \A v \in Semaphore : t \notin InQueueOf(state, v)
  BY <1>1 DEF wait, Turn, InQueue, InQueueOf
<1>6. port.openFlag = TRUE
  BY <1>1, <1>3, StateTypes DEF Port
<1>7. CASE sem[which].semcnt > 0
  <2> DEFINE e  == [sem[which] EXCEPT !.semcnt = 0]
             sm == [sem EXCEPT ![which] = e]
             r2 == Resumed(r)
             s1 == [state EXCEPT !.sem = sm]
             s2 == WithCall(s1, t, r2)
  <2>1. sem[which].semcnt = 1
    BY <1>1, <1>7 DEF Sem
  <2>2. q = << >>
    BY <1>1, <2>1 DEF QueuesOK
  <2>3. e \in Sem /\ e.semcnt = 0 /\ e.queue = q
    BY <1>1 DEF Sem
  <2>4. /\ sem' = sm /\ task' = [task EXCEPT ![t] = r2] /\ port' = port /\ uart' = uart
    <3>1. sem[which].semcnt - 1 = 0
      BY <2>1
    <3> QED BY <1>7, <3>1 DEF wait
  <2> HIDE DEF e
  <2>5. /\ sm \in [Semaphore -> Sem] /\ sm[which] = e
        /\ \A v \in Semaphore \ {which} : sm[v] = sem[v]
    BY <1>1, <2>3
  <2> HIDE DEF sm
  <2>6. /\ s1 \in State /\ s1.port = port /\ s1.sem = sm /\ s1.uart = uart
        /\ s1.task = task
        /\ \A v \in Semaphore : Holders(s1, v) = Holders(state, v)
    BY <1>1, <2>5, SemChanges
  <2>7. /\ r2 \in Call /\ CallOK(r2) /\ Has(r2, which) /\ ~Has(r, which)
        /\ \A v \in Semaphore \ {which} : Has(r2, v) <=> Has(r, v)
        /\ r2.call = r.call
    BY <1>1, ResumedCall
  <2> HIDE DEF r2, s1
  <2>8. \A v \in Semaphore : InQueueOf(s1, v) = InQueueOf(state, v)
    BY <1>1, <2>3, <2>5, <2>6 DEF InQueueOf
  <2>9. Sound(s1)
    <3>1. QueuesOK(s1)
      BY <1>1, <2>2, <2>3, <2>5, <2>6, <2>8 DEF QueuesOK
    <3> QED BY <1>1, <2>6, <3>1 DEF Sound, SizesOK
  <2>10. s2 = WithCall(s1, t, r2)
    OBVIOUS
  <2> HIDE DEF s2
  <2>11. /\ Sound(s2) /\ s2.port = port /\ s2.sem = sm /\ s2.uart = uart
         /\ s2.task[t] = r2 /\ \A u \in Task \ {t} : s2.task[u] = task[u]
         /\ \A v \in Semaphore :
              Holders(s2, v) = IF Has(r2, v) THEN Holders(s1, v) \cup {t}
                               ELSE Holders(s1, v) \ {t}
    BY <1>5, <2>6, <2>7, <2>8, <2>9, <2>10, TaskChanges
  <2>12. \A v \in Semaphore : Gone(s2, v) = Gone(state, v)
    BY <1>1, <2>11 DEF Gone, Full, Empty
  <2>13. RightOK(s2, which)
    <3>1. ~Gone(state, which) /\ Holders(state, which) = {}
      BY <1>1, <1>4, <2>1 DEF Rights, RightOK, Right
    <3>2. Holders(s2, which) = {t}
      BY <2>6, <2>7, <2>11, <3>1
    <3>3. s2.sem[which].semcnt = 0
      BY <2>3, <2>5, <2>11
    <3> QED BY <2>12, <3>1, <3>2, <3>3 DEF RightOK, Right
  <2>14. ASSUME NEW v \in Semaphore \ {which} PROVE RightOK(s2, v)
    <3>1. Holders(s2, v) = Holders(state, v)
      BY <1>1, <2>6, <2>7, <2>11 DEF Holders
    <3>2. s2.sem[v] = state.sem[v]
      BY <1>1, <2>5, <2>11
    <3> QED BY <1>4, <2>12, <3>1, <3>2 DEF Rights, RightOK
  <2>15. Core(s2)
    BY <2>11, <2>13, <2>14 DEF Core, Rights
  <2>16. Enabled(s2)
    BY <1>1, <2>11 DEF Enabled
  <2>17. \A u \in Task : s2.task[u].call # "close"
    BY <1>3, <2>7, <2>11
  <2>18. Inv(s2)
    BY <1>6, <2>11, <2>15, <2>16, <2>17, OpenPhases
  <2>19. s2.task = task'
    BY <1>1, <2>4, <2>6, <2>10 DEF WithCall, State
  <2>20. state' = s2
    BY <2>4, <2>11, <2>19, NextState DEF Sound
  <2> QED BY <2>18, <2>20
<1>8. CASE ~(sem[which].semcnt > 0)
  <2> DEFINE S  == InQueueOf(state, which)
             x  == Append(q, t)
             e  == [sem[which] EXCEPT !.queue = x]
             sm == [sem EXCEPT ![which] = e]
             s2 == [state EXCEPT !.sem = sm]
  <2>1. sem[which].semcnt = 0
    BY <1>1, <1>8 DEF Sem
  <2>2. QueueOf(q, S) /\ t \notin S /\ S \subseteq Task
    <3>1. QueueOf(q, S) /\ t \notin S
      BY <1>1, <1>5 DEF QueuesOK
    <3>2. S \subseteq Task
      BY <1>1 DEF Sem, InQueueOf, ToSet
    <3> QED BY <3>1, <3>2
  <2> HIDE DEF S
  <2>3. QueueOf(x, S \cup {t}) /\ x # << >>
    BY <2>2, QueueAppend
  <2>4. x \in Seq(Task)
    BY <1>1 DEF Sem
  <2>5. sem' = sm /\ task' = task /\ port' = port /\ uart' = uart
    BY <1>8 DEF wait
  <2> HIDE DEF x
  <2>6. e \in Sem /\ e.semcnt = 0 /\ e.queue = x
    BY <1>1, <2>1, <2>4 DEF Sem
  <2> HIDE DEF e
  <2>7. /\ sm \in [Semaphore -> Sem] /\ sm[which] = e
        /\ \A v \in Semaphore \ {which} : sm[v] = sem[v]
    BY <1>1, <2>6
  <2> HIDE DEF sm
  <2>8. /\ s2 \in State /\ s2.port = port /\ s2.sem = sm /\ s2.uart = uart
        /\ s2.task = task /\ SameCalls(state, s2)
        /\ \A v \in Semaphore : Holders(s2, v) = Holders(state, v)
    BY <1>1, <2>7, SemChanges
  <2> HIDE DEF s2
  <2>9. QueuesOK(s2)
    <3> SUFFICES ASSUME NEW v \in Semaphore
                 PROVE  /\ QueueOf(s2.sem[v].queue, InQueueOf(s2, v))
                        /\ \A u \in InQueueOf(s2, v) : s2.task[u].at = WaitsAt(v)
                        /\ s2.sem[v].queue # << >> => s2.sem[v].semcnt = 0
      BY DEF QueuesOK
    <3>1. CASE v = which
      <4>1. InQueueOf(s2, v) = S \cup {t} /\ s2.sem[v].queue = x
        BY <2>3, <2>6, <2>7, <2>8, <3>1 DEF InQueueOf, QueueOf
      <4>2. \A u \in S : task[u].at = WaitsAt(v)
        BY <1>1, <3>1 DEF QueuesOK, S
      <4> QED BY <1>1, <2>3, <2>6, <2>7, <2>8, <3>1, <4>1, <4>2
    <3>2. CASE v # which
      BY <1>1, <2>7, <2>8, <3>2 DEF QueuesOK, InQueueOf
    <3> QED BY <3>1, <3>2
  <2>10. Sound(s2)
    BY <1>1, <2>8, <2>9 DEF Sound, SizesOK
  <2>11. Rights(s2)
    <3>1. \A v \in Semaphore : Gone(s2, v) = Gone(state, v)
      BY <1>1, <2>8 DEF Gone, Full, Empty
    <3>2. \A v \in Semaphore : s2.sem[v].semcnt = state.sem[v].semcnt
      BY <1>1, <2>1, <2>6, <2>7, <2>8
    <3> QED BY <1>4, <2>8, <3>1, <3>2 DEF Rights, RightOK
  <2>12. Enabled(s2)
    BY <1>1, <2>8 DEF Enabled
  <2>13. Inv(s2)
    BY <1>3, <1>6, <2>8, <2>10, <2>11, <2>12, OpenPhases DEF Core
  <2>14. state' = s2
    BY <2>5, <2>8, NextState
  <2> QED BY <2>13, <2>14
<1> QED BY <1>7, <1>8

(* Taking a task from a queue it is not in changes nothing.                *)
LEMMA RemovesNobody ==
  ASSUME NEW q \in Seq(Task), NEW t, t \notin ToSet(q)
  PROVE  RemoveFirst(q, t) = q
<1>1. ~\E i \in 1..Len(q) : q[i] = t
  BY LenProperties DEF ToSet
<1> QED BY <1>1 DEF RemoveFirst

LEMMA ReleaseKeeps ==
  ASSUME Inv(state), NEW t \in Task, rel_wai(t), ~ReleasesEcho
  PROVE  Inv(state')
<1> DEFINE r  == task[t]
           sm == [which \in Semaphore |->
                    [sem[which] EXCEPT !.queue = RemoveFirst(@, t)]]
           s1 == [state EXCEPT !.sem = sm]
           s2 == WithCall(s1, t, Idle)
<1>1. /\ Sound(state) /\ Phases(state) /\ Enabled(state) /\ state \in State
      /\ r \in Call /\ CallOK(r) /\ state.task[t] = r
      /\ sem \in [Semaphore -> Sem] /\ task \in [Task -> Call]
      /\ state.port = port /\ state.sem = sem /\ state.uart = uart /\ state.task = task
      /\ QueuesOK(state)
  BY StateFields, StateTypes DEF Inv, Sound
<1>2. /\ sem' = sm /\ task' = [task EXCEPT ![t] = Idle] /\ port' = port /\ uart' = uart
      /\ ~(r.call = "read" /\ r.at = "wait_send")
  BY DEF rel_wai
<1>3. PICK which \in Semaphore : t \in InQueueOf(state, which)
  BY <1>1 DEF rel_wai, InQueue, InQueueOf
<1>4. r.at = WaitsAt(which)
  BY <1>1, <1>3 DEF QueuesOK
<1>5. r.call \notin {"none", "close"} /\ \A v \in Semaphore : ~Has(r, v)
  BY <1>1, <1>2, <1>4 DEF CallOK, WaitsAt, Semaphore, Has
<1>6. port.openFlag /\ \A u \in Task : task[u].call # "close"
  BY <1>1, <1>5, SomebodyCalls
<1>7. Core(state) /\ Rights(state) /\ port.openFlag = TRUE
  BY <1>1, <1>6, StateTypes DEF Inv, Live, Core, Port
<1>8. ASSUME NEW v \in Semaphore
      PROVE  LET q == RemoveFirst(sem[v].queue, t)
                 S == InQueueOf(state, v)
             IN  /\ sem[v] \in Sem /\ S \subseteq Task
                 /\ QueueOf(q, S \ {t}) /\ q \in Seq(Task)
                 /\ sem[v].queue # << >> => sem[v].semcnt = 0
                 /\ sem[v].queue = << >> => q = << >>
  <2> DEFINE q0 == sem[v].queue
             q  == RemoveFirst(q0, t)
             S  == InQueueOf(state, v)
  <2>1. /\ sem[v] \in Sem /\ q0 \in Seq(Task) /\ QueueOf(q0, S)
        /\ (q0 # << >> => sem[v].semcnt = 0) /\ S = ToSet(q0)
    BY <1>1 DEF QueuesOK, Sem, InQueueOf
  <2>2. S \subseteq Task
    BY <2>1 DEF ToSet
  <2> HIDE DEF S
  <2>3. CASE t \in S
    <3>1. QueueOf(q, S \ {t})
      BY <2>1, <2>3, QueueRemove
    <3> HIDE DEF q
    <3> DEFINE T == S \ {t}
    <3>2. QueueOf(q, T) /\ T \subseteq Task
      BY <2>2, <3>1
    <3> HIDE DEF T
    <3>3. q \in Seq(Task)
      BY <3>2, QueueIn
    <3>4. q0 # << >>
      BY <2>1, <2>3, QueueHead
    <3> QED BY <2>1, <2>2, <3>1, <3>3, <3>4 DEF q, S
  <2>4. CASE t \notin S
    <3>1. q = q0
      BY <2>1, <2>4, RemovesNobody
    <3>2. S \ {t} = S
      BY <2>4
    <3> HIDE DEF q
    <3> QED BY <2>1, <2>2, <3>1, <3>2 DEF q, S
  <2> QED BY <2>3, <2>4
<1>9. /\ sm \in [Semaphore -> Sem]
      /\ \A v \in Semaphore : /\ sm[v].queue = RemoveFirst(sem[v].queue, t)
                              /\ sm[v].semcnt = sem[v].semcnt
  <2> SUFFICES ASSUME NEW v \in Semaphore
               PROVE  /\ sm[v] \in Sem /\ sm[v].queue = RemoveFirst(sem[v].queue, t)
                      /\ sm[v].semcnt = sem[v].semcnt
    OBVIOUS
  <2> DEFINE q == RemoveFirst(sem[v].queue, t)
  <2>1. sm[v] = [sem[v] EXCEPT !.queue = q]
    OBVIOUS
  <2>2. sem[v] \in Sem /\ q \in Seq(Task)
    BY <1>8
  <2> HIDE DEF q, sm
  <2>3. sm[v] \in Sem /\ sm[v].queue = q /\ sm[v].semcnt = sem[v].semcnt
    BY <2>1, <2>2 DEF Sem
  <2> QED BY <2>3 DEF q
<1> HIDE DEF sm
<1>10. /\ s1 \in State /\ s1.port = port /\ s1.sem = sm /\ s1.uart = uart
       /\ s1.task = task
       /\ \A v \in Semaphore : Holders(s1, v) = Holders(state, v)
  BY <1>1, <1>9, SemChanges
<1> HIDE DEF s1
<1>11. \A v \in Semaphore : InQueueOf(s1, v) = InQueueOf(state, v) \ {t}
  BY <1>8, <1>9, <1>10 DEF InQueueOf, QueueOf
<1>12. Sound(s1)
  <2>1. QueuesOK(s1)
    <3> SUFFICES ASSUME NEW v \in Semaphore
                 PROVE  /\ QueueOf(s1.sem[v].queue, InQueueOf(s1, v))
                        /\ \A u \in InQueueOf(s1, v) : s1.task[u].at = WaitsAt(v)
                        /\ s1.sem[v].queue # << >> => s1.sem[v].semcnt = 0
      BY DEF QueuesOK
    <3> DEFINE q == RemoveFirst(sem[v].queue, t)
               S == InQueueOf(state, v)
    <3>1. /\ QueueOf(q, S \ {t}) /\ (sem[v].queue # << >> => sem[v].semcnt = 0)
          /\ (sem[v].queue = << >> => q = << >>)
          /\ S \subseteq Task
      BY <1>8
    <3>2. s1.sem[v].queue = q /\ s1.sem[v].semcnt = sem[v].semcnt
          /\ InQueueOf(s1, v) = S \ {t}
      BY <1>9, <1>10, <1>11
    <3>3. \A u \in S : s1.task[u].at = WaitsAt(v)
      BY <1>1, <1>10 DEF QueuesOK
    <3> HIDE DEF q, S
    <3> QED BY <3>1, <3>2, <3>3
  <2> QED BY <1>1, <1>10, <2>1 DEF Sound, SizesOK
<1>13. s2 = WithCall(s1, t, Idle)
  OBVIOUS
<1>14. /\ Idle \in Call /\ CallOK(Idle) /\ Idle.call = "none"
       /\ \A v \in Semaphore : ~Has(Idle, v)
  BY IdleCall
<1> HIDE DEF s2
<1>15. /\ Sound(s2) /\ s2.port = port /\ s2.sem = sm /\ s2.uart = uart
       /\ s2.task[t] = Idle /\ \A u \in Task \ {t} : s2.task[u] = task[u]
       /\ \A v \in Semaphore : Holders(s2, v) = Holders(s1, v) \ {t}
  BY <1>10, <1>11, <1>12, <1>13, <1>14, TaskChanges
<1>16. Rights(s2)
  <2>1. \A v \in Semaphore : Gone(s2, v) = Gone(state, v)
    BY <1>1, <1>15 DEF Gone, Full, Empty
  <2>2. \A v \in Semaphore : Holders(s2, v) = Holders(state, v)
    BY <1>1, <1>5, <1>10, <1>15 DEF Holders
  <2> QED BY <1>1, <1>7, <1>9, <1>15, <2>1, <2>2 DEF Rights, RightOK
<1>17. Enabled(s2)
  BY <1>1, <1>15 DEF Enabled
<1>18. \A u \in Task : s2.task[u].call # "close"
  BY <1>6, <1>14, <1>15
<1>19. Inv(s2)
  BY <1>7, <1>15, <1>16, <1>17, <1>18, OpenPhases DEF Core
<1>20. s2.task = task'
  BY <1>1, <1>2, <1>10, <1>13 DEF WithCall, State
<1>21. state' = s2
  BY <1>2, <1>15, <1>20, NextState DEF Sound
<1> QED BY <1>19, <1>21

(* Who is in no call, or closes the port, has no right.                    *)
LEMMA NoRight ==
  ASSUME NEW r, CallOK(r), r.call \in {"none", "close"}
  PROVE  /\ \A which \in Semaphore : ~Has(r, which)
         /\ r.at \notin {"wait_send", "wait_receive", "put", "get"}
BY DEF CallOK, Has

(* A call begins: eSerialPort_write(), _read() and _close().               *)
LEMMA Begins ==
  ASSUME Inv(state), NEW t \in Task, task[t].call = "none", port.openFlag,
         NEW r \in Call, CallOK(r), \A which \in Semaphore : ~Has(r, which),
         task' = [task EXCEPT ![t] = r], UNCHANGED <<port, sem, uart>>
  PROVE  /\ state' = WithCall(state, t, r)
         /\ Core(state') /\ Enabled(state')
         /\ state'.port = port /\ state'.uart = uart /\ port.openFlag = TRUE
         /\ state'.task[t] = r /\ \A u \in Task \ {t} : state'.task[u] = task[u]
<1> DEFINE s2 == WithCall(state, t, r)
<1>1. /\ Sound(state) /\ Enabled(state) /\ state \in State
      /\ CallOK(task[t]) /\ task \in [Task -> Call]
      /\ state.port = port /\ state.sem = sem /\ state.uart = uart /\ state.task = task
  BY StateFields, StateTypes DEF Inv, Sound
<1>2. Rights(state) /\ port.openFlag = TRUE
  BY <1>1, StateTypes DEF Inv, Live, Port
<1>3. \A which \in Semaphore : t \notin InQueueOf(state, which)
  BY <1>1, NoRight, NotWaiting
<1>4. s2 = WithCall(state, t, r)
  OBVIOUS
<1> HIDE DEF s2
<1>5. /\ Sound(s2) /\ s2.port = port /\ s2.sem = sem /\ s2.uart = uart
      /\ s2.task[t] = r /\ \A u \in Task \ {t} : s2.task[u] = task[u]
      /\ \A which \in Semaphore : Holders(s2, which) = Holders(state, which) \ {t}
  BY <1>1, <1>3, <1>4, TaskChanges
<1>6. \A which \in Semaphore : Holders(s2, which) = Holders(state, which)
  BY <1>1, <1>5, NoRight DEF Holders
<1>7. Rights(s2)
  BY <1>1, <1>2, <1>5, <1>6 DEF Rights, RightOK, Gone, Full, Empty
<1>8. Enabled(s2)
  BY <1>1, <1>5 DEF Enabled
<1>9. state' = s2
  <2>1. s2.task = task'
    BY <1>1, <1>4 DEF WithCall, State
  <2> QED BY <1>5, <2>1, NextState DEF Sound
<1> QED BY <1>2, <1>4, <1>5, <1>7, <1>8, <1>9 DEF Core

LEMMA WriteKeeps ==
  ASSUME Inv(state), NEW t \in Writer, NEW text \in Text, eSerialPort_write(t, text)
  PROVE  Inv(state')
<1> DEFINE r == [Idle EXCEPT !.call = "write", !.at = "wait_send", !.rest = text]
<1>1. t \in Task /\ text \in Seq(Char) /\ text # << >>
  BY SerialPortAssumption, TextChar
<1>2. Idle \in Call
  BY IdleCall
<1>3. /\ r \in Call /\ r.call = "write" /\ r.at = "wait_send" /\ r.rest = text
  BY <1>1, <1>2 DEF Call
<1>4. /\ task[t].call = "none" /\ port.openFlag /\ task' = [task EXCEPT ![t] = r]
      /\ UNCHANGED <<port, sem, uart>>
      /\ \A u \in Task \ {t} : task[u].call # "close"
  BY DEF eSerialPort_write, Turn
<1> HIDE DEF r
<1>5. CallOK(r) /\ \A which \in Semaphore : ~Has(r, which)
  BY <1>1, <1>3 DEF CallOK, Has
<1>6. /\ Core(state') /\ Enabled(state')
      /\ state'.port = port /\ port.openFlag = TRUE
      /\ state'.task[t] = r /\ \A u \in Task \ {t} : state'.task[u] = task[u]
  BY <1>1, <1>3, <1>4, <1>5, Begins
<1> DEFINE s2 == state'
<1>7. s2.port.openFlag = TRUE /\ \A u \in Task : s2.task[u].call # "close"
  BY <1>3, <1>4, <1>6
<1>8. Core(s2) /\ Enabled(s2)
  BY <1>6
<1> HIDE DEF s2
<1>9. Inv(s2)
  BY <1>7, <1>8, OpenPhases
<1> QED BY <1>9 DEF s2

LEMMA ReadKeeps ==
  ASSUME Inv(state), NEW t \in Reader, NEW length \in Length, eSerialPort_read(t, length)
  PROVE  Inv(state')
<1> DEFINE r == [Idle EXCEPT !.call = "read", !.at = "wait_receive",
                             !.n = length, !.empty = TRUE]
<1>1. t \in Task /\ length \in Int
  BY SerialPortAssumption
<1>2. Idle \in Call
  BY IdleCall
<1>3. r \in Call /\ r.call = "read" /\ r.at = "wait_receive" /\ r.empty = TRUE
  BY <1>1, <1>2 DEF Call
<1>4. /\ task[t].call = "none" /\ port.openFlag /\ task' = [task EXCEPT ![t] = r]
      /\ UNCHANGED <<port, sem, uart>>
      /\ \A u \in Task \ {t} : task[u].call # "close"
  BY DEF eSerialPort_read, Turn
<1> HIDE DEF r
<1>5. CallOK(r) /\ \A which \in Semaphore : ~Has(r, which)
  BY <1>3 DEF CallOK, Has
<1>6. /\ Core(state') /\ Enabled(state')
      /\ state'.port = port /\ port.openFlag = TRUE
      /\ state'.task[t] = r /\ \A u \in Task \ {t} : state'.task[u] = task[u]
  BY <1>1, <1>3, <1>4, <1>5, Begins
<1> DEFINE s2 == state'
<1>7. s2.port.openFlag = TRUE /\ \A u \in Task : s2.task[u].call # "close"
  BY <1>3, <1>4, <1>6
<1>8. Core(s2) /\ Enabled(s2)
  BY <1>6
<1> HIDE DEF s2
<1>9. Inv(s2)
  BY <1>7, <1>8, OpenPhases
<1> QED BY <1>9 DEF s2

LEMMA CloseKeeps ==
  ASSUME Inv(state), ~ClosesInUse, NEW t \in Closer, eSerialPort_close(t)
  PROVE  Inv(state')
<1> DEFINE r == [Idle EXCEPT !.call = "close", !.at = "close"]
<1>1. t \in Task /\ Idle \in Call
  BY SerialPortAssumption, IdleCall
<1>2. r \in Call /\ r.call = "close" /\ r.at = "close"
  BY <1>1 DEF Call
<1>3. /\ task[t].call = "none" /\ port.openFlag /\ task' = [task EXCEPT ![t] = r]
      /\ UNCHANGED <<port, sem, uart>>
      /\ \A u \in Task : task[u].call = "none"
  BY DEF eSerialPort_close
<1> HIDE DEF r
<1>4. CallOK(r) /\ \A which \in Semaphore : ~Has(r, which)
  BY <1>2 DEF CallOK, Has
<1>5. /\ Core(state') /\ Enabled(state')
      /\ state'.port = port /\ port.openFlag = TRUE
      /\ state'.task[t] = r /\ \A u \in Task \ {t} : state'.task[u] = task[u]
  BY <1>1, <1>2, <1>3, <1>4, Begins
<1> DEFINE s2 == state'
<1>6. /\ s2.port.openFlag = TRUE /\ s2.task[t] = r
      /\ \A u \in Task \ {t} : s2.task[u].call = "none"
  BY <1>3, <1>5
<1>7. Core(s2) /\ Enabled(s2)
  BY <1>5
<1> HIDE DEF s2
<1>8. Phases(s2) /\ Live(s2)
  BY <1>2, <1>6 DEF Phases, Live
<1>9. Inv(s2)
  BY <1>7, <1>8 DEF Inv, Core
<1> QED BY <1>9 DEF s2

LEMMA ControlKeeps ==
  ASSUME Inv(state), NEW t \in Manager, NEW ioctl \in IoControl,
         eSerialPort_control(t, ioctl)
  PROVE  Inv(state')
<1> DEFINE p  == [port EXCEPT !.ioControl = ioctl]
           s2 == [state EXCEPT !.port = p]
<1>1. /\ Sound(state) /\ Phases(state) /\ Enabled(state) /\ state \in State
      /\ port \in Port /\ port.errorFlag = FALSE /\ Live(state)
      /\ state.port = port /\ state.sem = sem /\ state.uart = uart /\ state.task = task
  BY StateFields, StateTypes DEF Inv, Sound, Live, eSerialPort_control
<1>2. Core(state)
  BY <1>1 DEF Inv, Core
<1>3. ioctl \in SUBSET Control
  BY SerialPortAssumption DEF Control
<1>4. port' = p /\ sem' = sem /\ uart' = uart /\ task' = task
  BY DEF eSerialPort_control
<1>5. /\ p \in Port /\ p.errorFlag = FALSE /\ p.sendBuffer = port.sendBuffer
      /\ p.receiveBuffer = port.receiveBuffer /\ p.openFlag = port.openFlag
      /\ p.sendStopped = port.sendStopped
      /\ p.receiveFlowControl = port.receiveFlowControl
  BY <1>1, <1>3 DEF Port
<1> HIDE DEF p
<1>6. Core(s2) /\ SameCalls(state, s2) /\ s2.port = p /\ s2.uart = uart
  BY <1>1, <1>2, <1>5, PortKeeps
<1>7. s2.sem = sem /\ s2.task = task
  BY <1>1 DEF State
<1> HIDE DEF s2
<1>8. Enabled(s2)
  BY <1>1, <1>5, <1>6 DEF Enabled
<1>9. Inv(s2)
  BY <1>1, <1>6, <1>8, SamePhases DEF Handled
<1>10. state' = s2
  BY <1>4, <1>6, <1>7, NextState DEF Core, Sound
<1> QED BY <1>9, <1>10

LEMMA ClosePortKeeps ==
  ASSUME Inv(state), NEW t \in Task, close_port(t)
  PROVE  Inv(state')
<1> DEFINE p  == [port EXCEPT !.openFlag = FALSE]
           u  == [uart EXCEPT !.opened = FALSE]
           r  == [task[t] EXCEPT !.at = "initialize"]
           s1 == [state EXCEPT !.port = p]
           s2 == [s1 EXCEPT !.uart = u]
           s3 == WithCall(s2, t, r)
<1>1. /\ Sound(state) /\ Phases(state) /\ Enabled(state) /\ state \in State
      /\ port \in Port /\ port.errorFlag = FALSE /\ uart \in Uart /\ Len(uart.tx) <= TxSize
      /\ Len(port.sendBuffer) <= sendBufferSize
      /\ Len(port.receiveBuffer) <= receiveBufferSize
      /\ state.port = port /\ state.sem = sem /\ state.uart = uart /\ state.task = task
      /\ task[t] \in Call /\ CallOK(task[t]) /\ task \in [Task -> Call]
  BY StateFields, StateTypes DEF Inv, Sound, SizesOK
<1>2. task[t].at = "close" /\ task[t].call = "close"
  BY <1>1 DEF close_port, CallOK
<1>3. Rights(state)
  BY <1>1, <1>2 DEF Inv, Live
<1>4. \A v \in Task \ {t} : task[v].call = "none"
  BY <1>1, <1>2 DEF Phases
<1>5. /\ port' = p /\ uart' = u /\ sem' = sem /\ task' = [task EXCEPT ![t] = r]
  BY DEF close_port
<1>6. /\ p \in Port /\ p.errorFlag = FALSE /\ p.sendBuffer = port.sendBuffer
      /\ p.receiveBuffer = port.receiveBuffer /\ p.openFlag = FALSE
      /\ p.sendStopped = port.sendStopped
      /\ p.receiveFlowControl = port.receiveFlowControl
  BY <1>1 DEF Port
<1>7. u \in Uart /\ u.opened = FALSE /\ u.IMSC = uart.IMSC /\ u.tx = uart.tx
  BY <1>1 DEF Uart
<1>8. r \in Call /\ r.call = "close" /\ r.at = "initialize"
  BY <1>1, <1>2 DEF Call
<1> HIDE DEF p, u, r
<1>9. CallOK(r) /\ \A which \in Semaphore : ~Has(r, which) /\ ~Has(task[t], which)
  BY <1>1, <1>2, <1>8 DEF CallOK, Has
<1>10. /\ Sound(s1) /\ s1.port = p /\ s1.sem = sem /\ s1.uart = uart /\ s1.task = task
       /\ \A which \in Semaphore : Holders(s1, which) = Holders(state, which)
  <2>1. /\ Sound(state) /\ p \in Port /\ p.errorFlag = FALSE
        /\ Len(p.sendBuffer) <= sendBufferSize /\ Len(p.receiveBuffer) <= receiveBufferSize
    BY <1>1, <1>6
  <2>2. /\ Sound(s1) /\ s1.port = p /\ s1.sem = state.sem /\ s1.uart = state.uart
        /\ s1.task = state.task
        /\ \A which \in Semaphore : Holders(s1, which) = Holders(state, which)
    BY ONLY <2>1, PortChanges
  <2> HIDE DEF s1
  <2> QED BY <1>1, <2>2
<1> HIDE DEF s1
<1>11. /\ Sound(s2) /\ s2.port = p /\ s2.sem = sem /\ s2.uart = u /\ s2.task = task
       /\ \A which \in Semaphore : Holders(s2, which) = Holders(state, which)
  <2>1. s1 \in State
    BY <1>10 DEF Sound
  <2>2. s2 \in State /\ s2.port = p /\ s2.sem = sem /\ s2.uart = u /\ s2.task = task
    BY <1>7, <1>10, <2>1 DEF State
  <2> HIDE DEF s2
  <2>3. QueuesOK(s2) /\ SizesOK(s2)
    BY <1>1, <1>7, <1>10, <2>2 DEF Sound, QueuesOK, SizesOK, InQueueOf
  <2> QED BY <1>10, <2>2, <2>3 DEF Sound, Holders
<1>12. \A which \in Semaphore : t \notin InQueueOf(s2, which)
  BY <1>2, <1>11, NotWaiting
<1>13. s3 = WithCall(s2, t, r)
  OBVIOUS
<1> HIDE DEF s2, s3
<1>14. /\ Sound(s3) /\ s3.port = p /\ s3.sem = sem /\ s3.uart = u
       /\ s3.task[t] = r /\ \A v \in Task \ {t} : s3.task[v] = task[v]
       /\ \A which \in Semaphore : Holders(s3, which) = Holders(state, which) \ {t}
  BY <1>8, <1>9, <1>11, <1>12, <1>13, TaskChanges
<1>15. Rights(s3)
  <2>1. \A which \in Semaphore : Gone(s3, which) = Gone(state, which)
    BY <1>1, <1>6, <1>14 DEF Gone, Full, Empty
  <2>2. \A which \in Semaphore : Holders(s3, which) = Holders(state, which)
    BY <1>1, <1>9, <1>14 DEF Holders
  <2> QED BY <1>1, <1>3, <1>14, <2>1, <2>2 DEF Rights, RightOK
<1>16. Enabled(s3)
  BY <1>1, <1>6, <1>7, <1>14 DEF Enabled
<1>17. Phases(s3) /\ Live(s3)
  BY <1>4, <1>6, <1>7, <1>8, <1>14 DEF Phases, Live
<1>18. state' = s3
  <2>1. s3.task = task'
    BY <1>5, <1>11, <1>13 DEF WithCall, Sound, State
  <2> QED BY <1>5, <1>14, <2>1, NextState DEF Sound
<1>19. Inv(s3)
  BY <1>14, <1>15, <1>16, <1>17 DEF Inv
<1> QED BY <1>18, <1>19

LEMMA InitializeKeeps ==
  ASSUME Inv(state), NEW t \in Task, initialize_semaphores(t)
  PROVE  Inv(state')
<1> DEFINE tk == [u \in Task |->
                    IF \E which \in Semaphore : u \in ToSet(state.sem[which].queue)
                    THEN Idle ELSE task[u]]
           tk2 == [tk EXCEPT ![t] = Idle]
           s2  == [port |-> port, sem |-> InitialSem, uart |-> uart, task |-> tk2]
<1>1. /\ Sound(state) /\ Phases(state) /\ Enabled(state) /\ state \in State
      /\ state.port = port /\ state.sem = sem /\ state.uart = uart /\ state.task = task
      /\ task \in [Task -> Call] /\ CallOK(task[t]) /\ port \in Port /\ uart \in Uart
      /\ \A u \in Task : task[u] \in Call /\ CallOK(task[u])
      /\ SizesOK(state) /\ port.errorFlag = FALSE
  BY StateFields, StateTypes DEF Inv, Sound
<1>2. task[t].at = "initialize" /\ ~IrqPending
  BY DEF initialize_semaphores, Turn
<1>3. task[t].call = "close" /\ ~port.openFlag /\ ~uart.opened /\ ~Pending(uart)
  <2>1. task[t].call = "close"
    BY <1>1, <1>2 DEF CallOK
  <2>2. ~port.openFlag
    BY <1>1, <1>2, <2>1 DEF Phases
  <2>3. ~uart.opened
    BY <1>1, <2>2 DEF Phases
  <2>4. ~Pending(uart)
    BY <1>2 DEF IrqPending, Pending
  <2> QED BY <2>1, <2>2, <2>3, <2>4
<1>4. \A u \in Task \ {t} : task[u].call = "none"
  BY <1>1, <1>3 DEF Phases
<1>5. Idle \in Call /\ CallOK(Idle) /\ Idle.call = "none"
  BY IdleCall
<1>6. /\ tk2 \in [Task -> Call]
      /\ \A u \in Task : CallOK(tk2[u]) /\ tk2[u].call = "none"
  BY <1>1, <1>4, <1>5
<1>7. /\ port' = port /\ sem' = InitialSem /\ uart' = uart /\ task' = tk2
  BY <1>1 DEF initialize_semaphores, initialize, Become, State
<1> HIDE DEF tk2
<1>8. InitialSem \in [Semaphore -> Sem]
      /\ \A which \in Semaphore : InitialSem[which].queue = << >>
  BY DEF InitialSem, Sem
<1>9. s2 \in State /\ s2.port = port /\ s2.sem = InitialSem /\ s2.uart = uart /\ s2.task = tk2
  BY <1>1, <1>6, <1>8 DEF State
<1> HIDE DEF s2
<1>10. QueuesOK(s2)
  <2>1. \A which \in Semaphore : InQueueOf(s2, which) = {} /\ s2.sem[which].queue = << >>
    BY <1>8, <1>9, QueueEmpty DEF InQueueOf, QueueOf
  <2> QED BY <2>1, QueueEmpty DEF QueuesOK
<1>11. Sound(s2)
  BY <1>1, <1>6, <1>9, <1>10 DEF Sound, SizesOK
<1>12. ~Live(s2)
  BY <1>3, <1>6, <1>9 DEF Live
<1>13. Phases(s2)
  BY <1>3, <1>6, <1>9 DEF Phases
<1>14. Enabled(s2)
  BY <1>1, <1>9 DEF Enabled
<1>15. Inv(s2)
  BY <1>11, <1>12, <1>13, <1>14 DEF Inv
<1>16. state' = s2
  BY <1>7, <1>9, NextState
<1> QED BY <1>15, <1>16

(* With the semaphores as initialized, the port is opened.                 *)
LEMMA OpenKeeps ==
  ASSUME Inv(state), NEW t \in Manager, eSerialPort_open(t)
  PROVE  Inv(state')
<1> DEFINE e == << >>
           p == [port EXCEPT
                   !.openFlag = TRUE, !.errorFlag = FALSE,
                   !.ioControl = {"ECHO", "CRLF", "FCSND", "FCRCV"},
                   !.receiveBuffer = e, !.receiveFlowControl = NULL, !.receiveStopped = FALSE,
                   !.sendBuffer = e, !.sendStopped = FALSE]
           u == [uart EXCEPT !.opened = TRUE, !.rx = e, !.IMSC = @ \cup {"RX"}]
           s1 == [state EXCEPT !.port = p]
           s2 == [s1 EXCEPT !.uart = u]
<1>1. /\ Sound(state) /\ Phases(state) /\ state \in State
      /\ state.port = port /\ state.sem = sem /\ state.uart = uart /\ state.task = task
      /\ port \in Port /\ uart \in Uart /\ Len(uart.tx) <= TxSize
      /\ \A v \in Task : CallOK(task[v])
  BY StateFields, StateTypes DEF Inv, Sound, SizesOK
<1>2. /\ \A v \in Task : task[v].call # "close"
      /\ ~port.openFlag
      /\ port' = p /\ uart' = u /\ sem' = sem /\ task' = task
  BY DEF eSerialPort_open, Turn
<1>3. sem = InitialSem
  BY <1>1, <1>2 DEF Phases, Live
<1>4. \A v \in Task : task[v].call = "none"
  BY <1>1, <1>2 DEF Phases
<1>5. e \in Seq(Char) /\ Len(e) = 0 /\ e = << >>
  OBVIOUS
<1> HIDE DEF e
<1>6. /\ p \in Port /\ p.errorFlag = FALSE /\ p.openFlag = TRUE
      /\ p.sendBuffer = e /\ p.receiveBuffer = e /\ p.receiveFlowControl = NULL
  BY <1>1, <1>5 DEF Port, Control
<1>7. u \in Uart /\ u.tx = uart.tx
  BY <1>1, <1>5 DEF Uart
<1> HIDE DEF p, u
<1>8. Len(p.sendBuffer) <= sendBufferSize /\ Len(p.receiveBuffer) <= receiveBufferSize
  BY <1>5, <1>6, SizesPositive
<1>9. /\ Sound(s1) /\ s1.port = p /\ s1.sem = state.sem /\ s1.uart = state.uart
      /\ s1.task = state.task
  BY ONLY <1>1, <1>6, <1>8, PortChanges
<1> HIDE DEF s1
<1>10. s2 \in State /\ s2.port = p /\ s2.sem = sem /\ s2.uart = u /\ s2.task = task
  BY <1>1, <1>7, <1>9 DEF Sound, State
<1> HIDE DEF s2
<1>11. Sound(s2)
  <2>1. QueuesOK(s2) /\ SizesOK(s2)
    BY <1>1, <1>7, <1>8, <1>9, <1>10 DEF Sound, QueuesOK, SizesOK, InQueueOf
  <2> QED BY <1>1, <1>6, <1>10, <2>1 DEF Sound
<1>12. Rights(s2)
  <2>1. \A which \in Semaphore : Holders(s2, which) = {}
    BY <1>1, <1>4, <1>10, NoRight DEF Holders
  <2>2. ~Gone(s2, "send") /\ Gone(s2, "receive")
    BY <1>5, <1>6, <1>10, SizesPositive DEF Gone, Full, Empty
  <2>3. s2.sem["send"].semcnt = 1 /\ s2.sem["receive"].semcnt = 0
    BY <1>3, <1>10 DEF InitialSem, Semaphore
  <2> QED BY <2>1, <2>2, <2>3 DEF Rights, RightOK, Right, Semaphore
<1>13. Enabled(s2)
  BY <1>5, <1>6, <1>10 DEF Enabled
<1>14. Inv(s2)
  BY <1>2, <1>6, <1>10, <1>11, <1>12, <1>13, OpenPhases DEF Core
<1>15. state' = s2
  BY <1>2, <1>10, NextState
<1> QED BY <1>14, <1>15

(* The line: what it changes is the handler's to see.                      *)
LEMMA LineKeeps ==
  ASSUME Inv(state), uart.opened, NEW u \in Uart, u.opened = uart.opened,
         u.IMSC = uart.IMSC, Len(u.tx) <= TxSize,
         uart' = u, UNCHANGED <<port, sem, task>>
  PROVE  Inv(state')
<1> DEFINE s2 == [state EXCEPT !.uart = u]
<1>1. /\ Sound(state) /\ Phases(state) /\ Enabled(state) /\ state \in State
      /\ state.port = port /\ state.sem = sem /\ state.uart = uart /\ state.task = task
  BY StateFields DEF Inv, Sound
<1>2. Live(state)
  BY <1>1 DEF Phases, Live
<1>3. s2 \in State /\ s2.port = port /\ s2.sem = sem /\ s2.uart = u /\ s2.task = task
  BY <1>1 DEF State
<1> HIDE DEF s2
<1>4. Uarted(state, s2) /\ Len(s2.uart.tx) <= TxSize
  BY <1>1, <1>3 DEF Uarted
<1>5. Core(state)
  BY <1>2 DEF Inv, Core
<1>6. Core(s2) /\ SameCalls(state, s2)
  BY <1>1, <1>4, <1>5, UartedKeeps DEF Core
<1>7. Enabled(s2)
  BY <1>1, <1>3 DEF Enabled
<1>8. Inv(s2)
  BY <1>1, <1>2, <1>6, <1>7, SamePhases DEF Handled
<1>9. state' = s2
  BY <1>3, NextState
<1> QED BY <1>8, <1>9

LEMMA TransmitKeeps ==
  ASSUME Inv(state), transmit
  PROVE  Inv(state')
<1> DEFINE b == uart.tx
           x == Tail(b)
           u == [uart EXCEPT !.tx = x]
<1>1. /\ uart \in Uart /\ b \in Seq(Char) /\ Len(b) <= TxSize /\ b # << >>
      /\ uart.opened /\ uart' = u /\ UNCHANGED <<port, sem, task>>
  BY StateFields, StateTypes DEF Inv, Sound, SizesOK, Uart, transmit
<1>2. x \in Seq(Char) /\ Len(x) <= TxSize
  <2> HIDE DEF b
  <2>1. x \in Seq(Char) /\ Len(x) = Len(b) - 1 /\ Len(b) \in Nat
    BY <1>1
  <2> HIDE DEF x
  <2> QED BY <1>1, <2>1, SizesPositive
<1> HIDE DEF x
<1>3. u \in Uart /\ u.opened = uart.opened /\ u.IMSC = uart.IMSC /\ u.tx = x
  BY <1>1, <1>2 DEF Uart
<1> HIDE DEF u
<1> QED BY <1>1, <1>2, <1>3, LineKeeps

LEMMA ArriveKeeps ==
  ASSUME Inv(state), NEW c \in Input \cup {FC_STOP, FC_START}, arrive(c)
  PROVE  Inv(state')
<1> DEFINE x == Append(uart.rx, c)
           u == [uart EXCEPT !.rx = x]
<1>1. /\ uart \in Uart /\ Len(uart.tx) <= TxSize
      /\ uart.opened /\ uart' = u /\ UNCHANGED <<port, sem, task>>
  BY StateFields, StateTypes DEF Inv, Sound, SizesOK, arrive
<1>2. x \in Seq(Char)
  BY <1>1 DEF Uart, Char
<1> HIDE DEF x
<1>3. u \in Uart /\ u.opened = uart.opened /\ u.IMSC = uart.IMSC /\ u.tx = uart.tx
  BY <1>1, <1>2 DEF Uart
<1> HIDE DEF u
<1> QED BY <1>1, <1>3, LineKeeps

--------------------------------------------------------------------------
(* The invariant. *)

LEMMA InitKeeps ==
  ASSUME Init
  PROVE  Inv(state)
<1> DEFINE e == << >>
<1>1. e \in Seq(Char) /\ Len(e) = 0 /\ e = << >>
  OBVIOUS
<1> HIDE DEF e
<1>2. /\ port = [openFlag |-> FALSE, errorFlag |-> FALSE, ioControl |-> {},
                 receiveBuffer |-> e, receiveFlowControl |-> NULL, receiveStopped |-> FALSE,
                 sendBuffer |-> e, sendStopped |-> FALSE]
      /\ sem = InitialSem
      /\ uart = [opened |-> FALSE, IMSC |-> {}, tx |-> e, rx |-> e]
      /\ task = [t \in Task |-> Idle]
  BY DEF Init, e
<1>3. /\ port \in Port /\ port.errorFlag = FALSE /\ port.openFlag = FALSE
      /\ port.sendBuffer = e /\ port.receiveBuffer = e /\ port.receiveFlowControl = NULL
  BY <1>1, <1>2 DEF Port
<1>4. uart \in Uart /\ uart.opened = FALSE /\ uart.IMSC = {} /\ uart.tx = e
  BY <1>1, <1>2 DEF Uart
<1>5. /\ task \in [Task -> Call]
      /\ \A t \in Task : CallOK(task[t]) /\ task[t].call = "none"
  BY <1>2, IdleCall
<1>6. /\ InitialSem \in [Semaphore -> Sem]
      /\ \A which \in Semaphore : InitialSem[which].queue = << >>
  BY DEF InitialSem, Sem
<1>7. /\ state \in State /\ state.port = port /\ state.sem = sem /\ state.uart = uart
      /\ state.task = task
  BY <1>2, <1>3, <1>4, <1>5, <1>6, StateFields DEF state, State
<1>8. QueuesOK(state)
  <2>1. \A which \in Semaphore :
          InQueueOf(state, which) = {} /\ state.sem[which].queue = << >>
    BY <1>2, <1>6, <1>7, QueueEmpty DEF InQueueOf, QueueOf
  <2> QED BY <2>1, QueueEmpty DEF QueuesOK
<1>9. SizesOK(state)
  BY <1>1, <1>3, <1>4, <1>7, SizesPositive DEF SizesOK
<1>10. Sound(state)
  BY <1>3, <1>5, <1>7, <1>8, <1>9 DEF Sound
<1>11. Enabled(state)
  BY <1>1, <1>3, <1>7 DEF Enabled
<1>12. ~Live(state) /\ ~Pending(state.uart)
  BY <1>3, <1>4, <1>5, <1>7 DEF Live, Pending
<1>13. Phases(state)
  BY <1>2, <1>3, <1>4, <1>5, <1>7, <1>12 DEF Phases
<1> QED BY <1>10, <1>11, <1>12, <1>13 DEF Inv

LEMMA NextKeeps ==
  ASSUME ~ClosesInUse, ~ReleasesEcho, Inv(state), [Next]_vars
  PROVE  Inv(state')
<1>1. ASSUME UNCHANGED <<port, sem, uart, task>> PROVE Inv(state')
  <2>1. state' = state
    BY <1>1 DEF state
  <2> QED BY <2>1
<1>2. CASE UNCHANGED vars
  BY <1>1, <1>2 DEF vars
<1>3. ASSUME NEW t \in Task, Proceed(t) PROVE Inv(state')
  <2>1. CASE loc_cpu(t)
    BY <1>1, <2>1 DEF loc_cpu
  <2>2. CASE serialPort_writeChar(t)
    BY <2>2, WriteCharKeeps
  <2>3. CASE serialPort_readChar(t)
    BY <2>3, ReadCharKeeps
  <2>4. CASE \E which \in Semaphore : wait(t, which)
    BY <2>4, WaitKeeps
  <2>5. CASE signal_send(t)
    BY <2>5, SignalSendKeeps
  <2>6. CASE signal_receive(t)
    BY <2>6, SignalReceiveKeeps
  <2>7. CASE close_port(t)
    BY <2>7, ClosePortKeeps
  <2>8. CASE initialize_semaphores(t)
    BY <2>8, InitializeKeeps
  <2> QED BY <1>3, <2>1, <2>2, <2>3, <2>4, <2>5, <2>6, <2>7, <2>8 DEF Proceed
<1>4. ASSUME NEW t \in Task, rel_wai(t) PROVE Inv(state')
  BY <1>4, ReleaseKeeps
<1>5. ASSUME NEW t \in Writer, NEW text \in Text, eSerialPort_write(t, text)
      PROVE  Inv(state')
  BY <1>5, WriteKeeps
<1>6. ASSUME NEW t \in Reader, NEW length \in Length, eSerialPort_read(t, length)
      PROVE  Inv(state')
  BY <1>6, ReadKeeps
<1>7. ASSUME NEW t \in Closer, eSerialPort_close(t) PROVE Inv(state')
  BY <1>7, CloseKeeps
<1>8. ASSUME NEW t \in Manager, eSerialPort_open(t) PROVE Inv(state')
  BY <1>8, OpenKeeps
<1>9. ASSUME NEW t \in Manager, NEW ioctl \in IoControl, eSerialPort_control(t, ioctl)
      PROVE  Inv(state')
  BY <1>9, ControlKeeps
<1>10. CASE eiISR_main
  BY <1>10, MainKeeps
<1>11. CASE transmit
  BY <1>11, TransmitKeeps
<1>12. ASSUME NEW c \in Input \cup {FC_STOP, FC_START}, arrive(c) PROVE Inv(state')
  BY <1>12, ArriveKeeps
<1> QED BY <1>2, <1>3, <1>4, <1>5, <1>6, <1>7, <1>8, <1>9, <1>10, <1>11, <1>12 DEF Next

LEMMA InvAlways ==
  ASSUME ~ClosesInUse, ~ReleasesEcho
  PROVE  SafeSpec => []Inv(state)
<1>1. Init => Inv(state)
  BY InitKeeps
<1>2. Inv(state) /\ [Next]_vars => Inv(state)'
  <2> SUFFICES ASSUME Inv(state), [Next]_vars PROVE Inv(state)'
    OBVIOUS
  <2>1. Inv(state')
    BY NextKeeps
  <2> QED BY <2>1 DEF Inv, Sound, Rights, Enabled, Phases, Live, state
<1> QED BY <1>1, <1>2, PTL DEF SafeSpec

(* The holders as SerialPort counts them.                                  *)
LEMMA HoldersCounted ==
  ASSUME Sound(state)
  PROVE  /\ SendHolders = Holders(state, "send")
         /\ ReceiveHolders = Holders(state, "receive")
<1>1. \A t \in Task : task[t].at \notin {"wait_send", "wait_receive"} => ~InQueue(t)
  BY StateFields, NotWaiting DEF InQueue, InQueueOf
<1> QED BY <1>1, StateFields DEF SendHolders, ReceiveHolders, Holds, Holders, Has

LEMMA RightCounted ==
  ASSUME NEW gone \in BOOLEAN, NEW semcnt, NEW H, Right(gone, semcnt, H)
  PROVE  semcnt + Cardinality(H) = IF gone THEN 0 ELSE 1
<1>1. Cardinality({}) = 0
  BY FS_EmptySet
<1>2. \A t : Cardinality({t}) = 1
  BY FS_Singleton
<1>3. \/ gone /\ semcnt = 0 /\ Cardinality(H) = 0
      \/ ~gone /\ semcnt = 1 /\ Cardinality(H) = 0
      \/ ~gone /\ semcnt = 0 /\ Cardinality(H) = 1
  BY <1>1, <1>2 DEF Right
<1> QED BY <1>3

(* For any writers and readers, and any sizes of the buffers: the right to *)
(* send and the right to receive are never lost or doubled between         *)
(* serialPort_writeChar() and _readChar(), their semaphores, rel_wai() and *)
(* the callbacks of the interrupt handler; no sig_sem() finds its          *)
(* semaphore full, and the port never comes into its error state.          *)
THEOREM TokensCorrect ==
  ASSUME ~ClosesInUse, ~ReleasesEcho
  PROVE  SafeSpec => []TokensOK
<1>1. ASSUME Inv(state) PROVE TokensOK
  <2>1. Sound(state)
    BY <1>1 DEF Inv
  <2>2. /\ \A which \in Semaphore : sem[which].queue # << >> => sem[which].semcnt = 0
        /\ ~port.errorFlag
    BY <2>1, StateFields DEF Sound, QueuesOK
  <2>3. ASSUME port.openFlag
        PROVE  /\ sem["send"].semcnt + Cardinality(SendHolders)
                    = (IF Len(port.sendBuffer) = sendBufferSize THEN 0 ELSE 1)
               /\ sem["receive"].semcnt + Cardinality(ReceiveHolders)
                    = (IF port.receiveBuffer = << >> THEN 0 ELSE 1)
    <3>1. RightOK(state, "send") /\ RightOK(state, "receive")
      BY <1>1, <2>3, StateFields DEF Inv, Live, Rights, Semaphore
    <3>2. /\ Right(Full(state), sem["send"].semcnt, SendHolders)
          /\ Right(Empty(state), sem["receive"].semcnt, ReceiveHolders)
      BY <2>1, <3>1, HoldersCounted, StateFields DEF RightOK, Gone
    <3>3. /\ Full(state) \in BOOLEAN /\ Empty(state) \in BOOLEAN
          /\ (Full(state) <=> Len(port.sendBuffer) = sendBufferSize)
          /\ (Empty(state) <=> port.receiveBuffer = << >>)
      BY StateFields DEF Full, Empty
    <3>4. sem["send"].semcnt + Cardinality(SendHolders) = IF Full(state) THEN 0 ELSE 1
      BY <3>2, <3>3, RightCounted
    <3>5. sem["receive"].semcnt + Cardinality(ReceiveHolders)
            = IF Empty(state) THEN 0 ELSE 1
      BY <3>2, <3>3, RightCounted
    <3> QED BY <3>3, <3>4, <3>5
  <2> QED BY <2>2, <2>3 DEF TokensOK
<1>2. Inv(state) => TokensOK
  BY <1>1
<1> QED BY <1>2, InvAlways, PTL

(* For any writers and readers, and any sizes of the buffers: what waits   *)
(* in the send buffer while the peer accepts it, or a STOP or START that   *)
(* waits for room in the UART, always has the transmit interrupt enabled,  *)
(* whoever put it there, and no buffer is overfilled.                      *)
THEOREM NothingStrandedCorrect ==
  ASSUME ~ClosesInUse, ~ReleasesEcho
  PROVE  SafeSpec => []NothingStranded
<1>1. Inv(state) => NothingStranded
  BY StateFields DEF Inv, Sound, SizesOK, Enabled, NothingStranded
<1> QED BY <1>1, InvAlways, PTL
==========================================================================
