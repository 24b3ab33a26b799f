---------------------------- MODULE SerialPort ---------------------------
(***************************************************************************)
(* The serial interface driver (syssvc/tSerialPortMain.c) over the simple  *)
(* SIO driver of a PL011 UART (arch/arm_gcc/common/tUartPL011.c): tasks    *)
(* that open, close, read, write and control a port, the interrupt handler *)
(* that fills and drains its buffers, the UART and its peer.               *)
(*                                                                         *)
(* Tasks take turns in any order, one section between loc_cpu() and        *)
(* unl_cpu() at a time.  An interrupt waits for the end of the section,    *)
(* and then comes before the next step of any task.  A service call that   *)
(* is rejected (E_CTX, E_ID, E_OBJ, E_SYS) changes nothing and is left     *)
(* out.  The kernel's semaphores are modelled as the driver uses them.     *)
(***************************************************************************)
EXTENDS Naturals, FiniteSets, SequencesExt

CONSTANTS
  Task, NULL,
  Writer, Reader, Manager,  \* the tasks that write, read, and open and control
  Closer,                   \* the tasks that close the port
  LF, CR, FC_STOP, FC_START,
  Text,                     \* what is written by one call
  Input,                    \* the characters that the peer sends
  Length,                   \* how much is read by one call
  IoControl,                \* the settings used
  sendBufferSize, receiveBufferSize,
  TxSize, RxSize,           \* the sizes of the FIFOs of the UART
  ReleasesEcho,             \* whether rel_wai() is used on a task that echoes
  ClosesInUse               \* whether the port is closed while tasks wait for it

ASSUME SerialPortAssumption ==
  /\ {sendBufferSize, receiveBufferSize, TxSize, RxSize} \cup Length \subseteq Nat \ {0}
  /\ \A ioctl \in IoControl : ioctl \subseteq {"ECHO", "CRLF", "FCSND", "FCANY", "FCRCV"}
  /\ Writer \cup Reader \cup Manager \cup Closer \subseteq Task
  /\ \A text \in Text : text \in Seq(ToSet(text)) \ {<< >>}

VARIABLES
  port,      \* the variables of tSerialPortMain; a ring, with its pointers and
             \* its count, is the sequence of the characters in it
  sem,       \* its semaphores, with the tasks that wait
  uart,      \* the UART and its driver: tx, rx, the mask IMSC
  locker,    \* the task between loc_cpu() and unl_cpu(), or NULL
  task,      \* the calls of the tasks
  peer       \* whether either side has told the other to stop

vars == <<port, sem, uart, locker, task, peer>>

(* A task: the call it is in, where, what it has still to send (rest),     *)
(* the CR of whose first is sent (cr), how much it has still to read (n),  *)
(* and whether the receive buffer was empty after the last (empty).        *)
Idle == [call |-> "none", at |-> "idle", rest |-> << >>, cr |-> FALSE,
         n |-> 0, empty |-> FALSE]

(* ini_sem() of both semaphores: one right to send, nothing received.      *)
Semaphore == {"send", "receive"}

InitialSem == [which \in Semaphore |->
  [semcnt |-> IF which = "send" THEN 1 ELSE 0, queue |-> << >>]]

Init ==
  /\ port = [openFlag |-> FALSE, errorFlag |-> FALSE, ioControl |-> {},
             receiveBuffer |-> << >>, receiveFlowControl |-> NULL, receiveStopped |-> FALSE,
             sendBuffer |-> << >>, sendStopped |-> FALSE]
  /\ sem = InitialSem
  /\ uart = [opened |-> FALSE, IMSC |-> {}, tx |-> << >>, rx |-> << >>]
  /\ locker = NULL
  /\ task = [t \in Task |-> Idle]
  /\ peer = [stopped |-> FALSE, stops |-> FALSE]

(* All but the locker and the peer, for what several parts change.         *)
state == [port |-> port, sem |-> sem, uart |-> uart, task |-> task]

Become(s) == port' = s.port /\ sem' = s.sem /\ uart' = s.uart /\ task' = s.task

--------------------------------------------------------------------------
(* The SIO driver. *)

getready(u) == u.rx # << >>
putready(u) == Len(u.tx) < TxSize

eSIOPort_enableCBR(s, cbrtn)  == [s EXCEPT !.uart.IMSC = @ \cup {cbrtn}]
eSIOPort_disableCBR(s, cbrtn) == [s EXCEPT !.uart.IMSC = @ \ {cbrtn}]

(* Without effect if the FIFO is full. *)
eSIOPort_putChar(s, c) ==
  IF putready(s.uart) THEN [s EXCEPT !.uart.tx = Append(@, c)] ELSE s

IrqPending ==
  \/ "RX" \in uart.IMSC /\ getready(uart)
  \/ "TX" \in uart.IMSC /\ putready(uart)

--------------------------------------------------------------------------
(* The kernel, as the driver uses it. *)

(* The task goes on behind its wai_sem(). *)
Resumed(r) == [r EXCEPT !.at = IF @ = "wait_send" THEN "put" ELSE "get"]

(* sig_sem(); E_QOVR puts the port into its error state.                   *)
signal(s, which) ==
  LET q == s.sem[which].queue IN
  IF q # << >>
  THEN [s EXCEPT !.sem[which].queue = Tail(@), !.task[Head(q)] = Resumed(@)]
  ELSE IF s.sem[which].semcnt < 1 THEN [s EXCEPT !.sem[which].semcnt = @ + 1]
  ELSE [s EXCEPT !.port.errorFlag = TRUE]

(* ini_sem(), for both; the tasks that wait get E_DLT and return.          *)
initialize(s) ==
  [s EXCEPT !.sem = InitialSem,
            !.task = [t \in Task |->
                        IF \E which \in Semaphore : t \in ToSet(s.sem[which].queue)
                        THEN Idle ELSE s.task[t]]]

InQueue(t) == \E which \in Semaphore : t \in ToSet(sem[which].queue)

(* The task may make a step: no section is open, no interrupt pending, and *)
(* nobody has disabled dispatching to close the port.                      *)
Turn(t) ==
  /\ locker = NULL /\ ~IrqPending
  /\ ~InQueue(t)
  /\ \A u \in Task \ {t} : task[u].call # "close"

loc_cpu(t) ==
  /\ Turn(t)
  /\ task[t].at \in {"put", "get", "close"}
  /\ locker' = t
  /\ UNCHANGED <<port, sem, uart, task, peer>>

--------------------------------------------------------------------------
(* Sending. *)

(* The character waits for its turn, but nobody will be told of it. *)
bug_serialPort_sendChar(s, c) == eSIOPort_putChar(s, c)

serialPort_sendChar(s, c) ==
  IF putready(s.uart) THEN eSIOPort_putChar(s, c) ELSE eSIOPort_enableCBR(s, "TX")

(* The oldest character of the buffer goes to the UART, if there is room.  *)
send_buffered(s) ==
  LET s1 == serialPort_sendChar(s, Head(s.port.sendBuffer))
      s2 == IF Len(s.port.sendBuffer) = sendBufferSize THEN signal(s1, "send") ELSE s1
  IN  IF putready(s.uart) THEN [s2 EXCEPT !.port.sendBuffer = Tail(@)] ELSE s1

(* Where a task goes on that has sent all that it had to: a write ends, a  *)
(* read goes on with the next character.                                   *)
AfterGet(r) ==
  IF r.n > 0 THEN [r EXCEPT !.at = IF r.empty THEN "wait_receive" ELSE "get"]
  ELSE IF r.empty THEN Idle ELSE [r EXCEPT !.at = "signal_receive"]

AfterSend(r) == IF r.call = "write" THEN Idle ELSE AfterGet(r)

(* The character next to send: LF goes behind a CR, if so set.             *)
PutsCR(r) == Head(r.rest) = LF /\ ~r.cr /\ "CRLF" \in port.ioControl
NextChar(r) == IF PutsCR(r) THEN CR ELSE Head(r.rest)

AfterPut(r, buffer_full) ==
  LET r1 == IF PutsCR(r) THEN [r EXCEPT !.cr = TRUE]
                         ELSE [r EXCEPT !.cr = FALSE, !.rest = Tail(@)]
  IN  IF r1.rest # << >> THEN [r1 EXCEPT !.at = IF buffer_full THEN "wait_send" ELSE "put"]
      ELSE IF buffer_full THEN AfterSend(r1)
      ELSE [r1 EXCEPT !.at = "signal_send"]

(* Into the UART although others wait in the buffer.                       *)
bug_serialPort_writeChar(t) ==
  LET c == NextChar(task[t])
      s == serialPort_sendChar(state, c)
  IN  /\ locker = t /\ task[t].at = "put"
      /\ IF ~port.sendStopped /\ putready(uart)
         THEN Become([s EXCEPT !.task[t] = AfterPut(@, FALSE)])
         ELSE Become([(IF port.sendBuffer = << >> /\ ~port.sendStopped THEN s ELSE state)
                EXCEPT !.port.sendBuffer = Append(@, c),
                       !.task[t] = AfterPut(@, Len(port.sendBuffer) + 1 = sendBufferSize)])
      /\ locker' = NULL /\ UNCHANGED peer

(* Forgotten when the UART is full. *)
bug_lost_writeChar(t) ==
  LET c      == NextChar(task[t])
      direct == port.sendBuffer = << >> /\ ~port.sendStopped
      s      == IF direct THEN serialPort_sendChar(state, c) ELSE state
  IN  /\ locker = t /\ task[t].at = "put"
      /\ IF direct
         THEN Become([s EXCEPT !.task[t] = AfterPut(@, FALSE)])
         ELSE Become([s EXCEPT
                !.port.sendBuffer = Append(@, c),
                !.task[t] = AfterPut(@, Len(port.sendBuffer) + 1 = sendBufferSize)])
      /\ locker' = NULL /\ UNCHANGED peer

serialPort_writeChar(t) ==
  LET c      == NextChar(task[t])
      direct == port.sendBuffer = << >> /\ ~port.sendStopped
      s      == IF direct THEN serialPort_sendChar(state, c) ELSE state
  IN  /\ locker = t /\ task[t].at = "put"
      /\ IF direct /\ putready(uart)
         THEN Become([s EXCEPT !.task[t] = AfterPut(@, FALSE)])
         ELSE Become([s EXCEPT
                !.port.sendBuffer = Append(@, c),
                !.task[t] = AfterPut(@, Len(port.sendBuffer) + 1 = sendBufferSize)])
      /\ locker' = NULL /\ UNCHANGED peer

--------------------------------------------------------------------------
(* Receiving. *)

BUFCNT_STOP  == (receiveBufferSize * 3) \div 4
BUFCNT_START == receiveBufferSize \div 2

(* STOP or START goes to the UART, or becomes the one that is to be sent.  *)
send_flow_control(s, c) ==
  LET s1 == serialPort_sendChar(s, c) IN
  [IF putready(s.uart) THEN s1 ELSE [s1 EXCEPT !.port.receiveFlowControl = c]
     EXCEPT !.port.receiveStopped = (c = FC_STOP)]

serialPort_readChar(t) ==
  LET c     == Head(port.receiveBuffer)
      count == Len(port.receiveBuffer) - 1
      s     == [state EXCEPT !.port.receiveBuffer = Tail(@)]
      r     == [task[t] EXCEPT !.n = @ - 1, !.empty = (count = 0)]
  IN  /\ locker = t /\ task[t].at = "get"
      /\ Become([IF port.receiveStopped /\ count <= BUFCNT_START
                 THEN send_flow_control(s, FC_START) ELSE s
                   EXCEPT !.task[t] = IF "ECHO" \in port.ioControl
                                      THEN [r EXCEPT !.at = "wait_send", !.rest = <<c>>]
                                      ELSE AfterGet(r)])
      /\ locker' = NULL /\ UNCHANGED peer

--------------------------------------------------------------------------
(* The callbacks, and the interrupt handler that calls them. *)

eiSIOCBR_readySend(s) ==
  IF s.port.receiveFlowControl # NULL
  THEN [eSIOPort_putChar(s, s.port.receiveFlowControl) EXCEPT !.port.receiveFlowControl = NULL]
  ELSE IF ~s.port.sendStopped /\ s.port.sendBuffer # << >> THEN send_buffered(s)
  ELSE eSIOPort_disableCBR(s, "TX")

(* The sender is restarted but nothing is sent. *)
bug_restart(s) == [s EXCEPT !.port.sendStopped = FALSE]

(* The restarted sender tries to send as many characters as it has; once   *)
(* the UART is full, trying again changes nothing.                         *)
restart(s) ==
  LET tried[i \in 0..Len(s.port.sendBuffer)] ==
        IF i = 0 THEN [s EXCEPT !.port.sendStopped = FALSE]
        ELSE send_buffered(tried[i - 1])
  IN  tried[Len(s.port.sendBuffer)]

(* The reader is told of every character. *)
bug_store_received(s, c) ==
  [signal(s, "receive") EXCEPT !.port.receiveBuffer = Append(@, c)]

(* The character that ends the wait of the reader is not stored. *)
bug_lost_received(s, c) ==
  IF s.port.receiveBuffer = << >> THEN signal(s, "receive")
  ELSE [s EXCEPT !.port.receiveBuffer = Append(@, c)]

store_received(s, c) ==
  [(IF s.port.receiveBuffer = << >> THEN signal(s, "receive") ELSE s)
     EXCEPT !.port.receiveBuffer = Append(@, c)]

eiSIOCBR_readyReceive(s0) ==
  LET c == Head(s0.uart.rx)
      s == [s0 EXCEPT !.uart.rx = Tail(@)]
      p == s.port
      stored == store_received(s, c)
  IN  IF "FCSND" \in p.ioControl /\ c = FC_STOP THEN [s EXCEPT !.port.sendStopped = TRUE]
      ELSE IF p.sendStopped /\ (c = FC_START \/ "FCANY" \in p.ioControl) THEN restart(s)
      ELSE IF "FCSND" \in p.ioControl /\ c = FC_START THEN s
      ELSE IF Len(p.receiveBuffer) = receiveBufferSize THEN s
      ELSE IF /\ "FCRCV" \in p.ioControl /\ ~p.receiveStopped
              /\ Len(p.receiveBuffer) + 1 >= BUFCNT_STOP
           THEN send_flow_control(stored, FC_STOP)
      ELSE stored

eiISR_main ==
  LET s == IF getready(uart) THEN eiSIOCBR_readyReceive(state) ELSE state IN
  /\ locker = NULL /\ IrqPending
  /\ Become(IF putready(s.uart) THEN eiSIOCBR_readySend(s) ELSE s)
  /\ UNCHANGED <<locker, peer>>

--------------------------------------------------------------------------
(* The services. *)

eSerialPort_open(t) ==
  /\ Turn(t) /\ task[t].call = "none"
  /\ ~port.openFlag
  /\ port' = [port EXCEPT
       !.openFlag = TRUE, !.errorFlag = FALSE,
       !.ioControl = {"ECHO", "CRLF", "FCSND", "FCRCV"},
       !.receiveBuffer = << >>, !.receiveFlowControl = NULL, !.receiveStopped = FALSE,
       !.sendBuffer = << >>, !.sendStopped = FALSE]
  /\ uart' = [uart EXCEPT !.opened = TRUE, !.rx = << >>, !.IMSC = @ \cup {"RX"}]
  /\ UNCHANGED <<sem, locker, task, peer>>

(* With dispatching disabled until the semaphores are initialized.  Nobody *)
(* is in a call, or (ClosesInUse) whoever is waits for a semaphore.        *)
eSerialPort_close(t) ==
  /\ Turn(t) /\ task[t].call = "none"
  /\ port.openFlag
  /\ \A u \in Task : task[u].call = "none" \/ (ClosesInUse /\ InQueue(u))
  /\ task' = [task EXCEPT ![t] = [Idle EXCEPT !.call = "close", !.at = "close"]]
  /\ UNCHANGED <<port, sem, uart, locker, peer>>

close_port(t) ==
  /\ locker = t /\ task[t].at = "close"
  /\ uart' = [uart EXCEPT !.opened = FALSE]
  /\ port' = [port EXCEPT !.openFlag = FALSE]
  /\ task' = [task EXCEPT ![t].at = "initialize"]
  /\ locker' = NULL
  /\ UNCHANGED <<sem, peer>>

initialize_semaphores(t) ==
  /\ Turn(t) /\ task[t].at = "initialize"
  /\ Become([initialize(state) EXCEPT !.task[t] = Idle])
  /\ UNCHANGED <<locker, peer>>

eSerialPort_write(t, text) ==
  /\ Turn(t) /\ task[t].call = "none"
  /\ port.openFlag /\ ~port.errorFlag
  /\ task' = [task EXCEPT ![t] = [Idle EXCEPT !.call = "write", !.at = "wait_send",
                                              !.rest = text]]
  /\ UNCHANGED <<port, sem, uart, locker, peer>>

eSerialPort_read(t, length) ==
  /\ Turn(t) /\ task[t].call = "none"
  /\ port.openFlag /\ ~port.errorFlag
  /\ task' = [task EXCEPT ![t] = [Idle EXCEPT !.call = "read", !.at = "wait_receive",
                                              !.n = length, !.empty = TRUE]]
  /\ UNCHANGED <<port, sem, uart, locker, peer>>

eSerialPort_control(t, ioctl) ==
  /\ Turn(t) /\ task[t].call = "none"
  /\ port.openFlag /\ ~port.errorFlag
  /\ port' = [port EXCEPT !.ioControl = ioctl]
  /\ UNCHANGED <<sem, uart, locker, task, peer>>

(* The wai_sem() of a call. *)
wait(t, which) ==
  /\ Turn(t) /\ task[t].at = IF which = "send" THEN "wait_send" ELSE "wait_receive"
  /\ IF sem[which].semcnt > 0
     THEN /\ sem' = [sem EXCEPT ![which].semcnt = @ - 1]
          /\ task' = [task EXCEPT ![t] = Resumed(@)]
     ELSE /\ sem' = [sem EXCEPT ![which].queue = Append(@, t)]
          /\ UNCHANGED task
  /\ UNCHANGED <<port, uart, locker, peer>>

(* The sig_sem() of a call. *)
signal_send(t) ==
  /\ Turn(t) /\ task[t].at = "signal_send"
  /\ Become(signal([state EXCEPT !.task[t] = AfterSend(@)], "send"))
  /\ UNCHANGED <<locker, peer>>

signal_receive(t) ==
  /\ Turn(t) /\ task[t].at = "signal_receive"
  /\ Become(signal([state EXCEPT !.task[t] = Idle], "receive"))
  /\ UNCHANGED <<locker, peer>>

(* rel_wai(), from an interrupt handler: E_RLWAI, and the call returns.    *)
rel_wai(t) ==
  /\ locker = NULL
  /\ InQueue(t)
  /\ task[t].call = "read" /\ task[t].at = "wait_send" => ReleasesEcho
  /\ sem' = [which \in Semaphore |->
               [sem[which] EXCEPT !.queue = RemoveFirst(@, t)]]
  /\ task' = [task EXCEPT ![t] = Idle]
  /\ UNCHANGED <<port, uart, locker, peer>>

--------------------------------------------------------------------------
(* The line, and a peer that obeys STOP and ends each of its own by START. *)

transmit ==
  /\ uart.opened /\ uart.tx # << >>
  /\ uart' = [uart EXCEPT !.tx = Tail(@)]
  /\ peer' = [peer EXCEPT !.stopped = IF Head(uart.tx) = FC_STOP THEN TRUE
                                      ELSE IF Head(uart.tx) = FC_START THEN FALSE ELSE @]
  /\ UNCHANGED <<port, sem, locker, task>>

arrive(c) ==
  /\ uart.opened /\ Len(uart.rx) < RxSize
  /\ c \in Input => ~peer.stopped
  /\ c = FC_STOP => ~peer.stops
  /\ c = FC_START => peer.stops
  /\ uart' = [uart EXCEPT !.rx = Append(@, c)]
  /\ peer' = [peer EXCEPT !.stops = IF c \in Input THEN @ ELSE c = FC_STOP]
  /\ UNCHANGED <<port, sem, locker, task>>

--------------------------------------------------------------------------

(* What a call does on its way. *)
Proceed(t) ==
  \/ loc_cpu(t) \/ serialPort_writeChar(t) \/ serialPort_readChar(t)
  \/ (\E which \in Semaphore : wait(t, which))
  \/ signal_send(t) \/ signal_receive(t)
  \/ close_port(t) \/ initialize_semaphores(t)

Next ==
  \/ \E t \in Task : Proceed(t) \/ rel_wai(t)
  \/ \E t \in Writer, text \in Text : eSerialPort_write(t, text)
  \/ \E t \in Reader, length \in Length : eSerialPort_read(t, length)
  \/ \E t \in Closer : eSerialPort_close(t)
  \/ \E t \in Manager : \/ eSerialPort_open(t)
                        \/ \E ioctl \in IoControl : eSerialPort_control(t, ioctl)
  \/ eiISR_main
  \/ transmit
  \/ \E c \in Input \cup {FC_STOP, FC_START} : arrive(c)

(* Every call in progress goes on, however often interrupts come between;  *)
(* the interrupt handler runs, the line works, and a peer that said STOP   *)
(* says START again.                                                       *)
Fairness ==
  /\ \A t \in Task : SF_vars(Proceed(t))
  /\ WF_vars(eiISR_main) /\ WF_vars(transmit) /\ SF_vars(arrive(FC_START))

SafeSpec == Init /\ [][Next]_vars

Spec == SafeSpec /\ Fairness

--------------------------------------------------------------------------
(* Properties. *)

(* What has been written and not sent, START and STOP apart.               *)
Unsent == SelectSeq(uart.tx, LAMBDA c : c \notin {FC_STOP, FC_START})
          \o port.sendBuffer

Holds(t, at) == task[t].at \in at /\ ~InQueue(t)
SendHolders    == {t \in Task : Holds(t, {"put", "signal_send"})}
ReceiveHolders == {t \in Task :
  \/ Holds(t, {"get", "signal_receive"})
  \/ task[t].call = "read" /\ ~task[t].empty /\ task[t].at \in {"wait_send", "put", "signal_send"}}

(* The right to send is in one place: the semaphore, one task, or the full *)
(* buffer, from which the interrupt handler returns it; the right to       *)
(* receive, while there is anything to receive, is in the semaphore or     *)
(* with one task.  So nobody overfills the send buffer or reads an empty   *)
(* one, no semaphore overflows, and the port does not fail.                *)
TokensOK ==
  /\ port.openFlag =>
       /\ sem["send"].semcnt + Cardinality(SendHolders)
            = (IF Len(port.sendBuffer) = sendBufferSize THEN 0 ELSE 1)
       /\ sem["receive"].semcnt + Cardinality(ReceiveHolders)
            = (IF port.receiveBuffer = << >> THEN 0 ELSE 1)
  /\ \A which \in Semaphore : sem[which].queue # << >> => sem[which].semcnt = 0
  /\ ~port.errorFlag

(* What is to be sent will be: the buffer unless the peer said STOP, and a *)
(* STOP or START, have the interrupt that sends them enabled.  And no      *)
(* buffer is overfilled.                                                   *)
NothingStranded ==
  port.openFlag =>
    /\ (port.sendBuffer # << >> /\ ~port.sendStopped) \/ port.receiveFlowControl # NULL
         => "TX" \in uart.IMSC
    /\ Len(port.sendBuffer) <= sendBufferSize
    /\ Len(port.receiveBuffer) <= receiveBufferSize

(* What a step does to the characters on their way: the one that the task  *)
(* at the end of its section has put, the one that the line takes, the one *)
(* that the task has got, and the one that the handler has taken from the  *)
(* UART, if there is room for it and it is not for the flow control.       *)
LeavesSection(at) == locker # NULL /\ task[locker].at = at /\ locker' = NULL

ForFlowControl(c) ==
  \/ "FCSND" \in port.ioControl /\ c \in {FC_STOP, FC_START}
  \/ port.sendStopped /\ (c = FC_START \/ "FCANY" \in port.ioControl)

CharPut  == IF LeavesSection("put") THEN <<NextChar(task[locker])>> ELSE << >>
CharSent == IF transmit /\ Head(uart.tx) \notin {FC_STOP, FC_START}
            THEN <<Head(uart.tx)>> ELSE << >>
CharGot  == IF LeavesSection("get") THEN <<Head(port.receiveBuffer)>> ELSE << >>
CharReceived ==
  IF /\ Len(uart'.rx) < Len(uart.rx)
     /\ Len(port.receiveBuffer) < receiveBufferSize
     /\ ~ForFlowControl(Head(uart.rx))
  THEN <<Head(uart.rx)>> ELSE << >>

(* While the port is open no character is lost, doubled or overtaken,      *)
(* whichever way it takes: directly or over the buffer, from a task, the   *)
(* interrupt handler or the restart after a STOP.  What a task puts is     *)
(* behind all that is still unsent, also if the UART is full just then,    *)
(* and leaves only over the line; what comes is behind all that is still   *)
(* unread, unless the buffer is full or it is for the flow control, and    *)
(* leaves only to the task that reads it.                                  *)
CharactersInOrder ==
  [][~(~port.openFlag /\ port'.openFlag) =>
       /\ Unsent \o CharPut = CharSent \o Unsent'
       /\ port.receiveBuffer \o CharReceived = CharGot \o port'.receiveBuffer]_vars

(* Every write returns: no wakeup is lost between the writers, the handler *)
(* that drains the buffer, and a peer that stops and restarts the line.    *)
WriteReturns == \A t \in Writer : task[t].call = "write" ~> task[t].call # "write"

(* doc/user.txt on IOCTL_FCRCV: STOP is sent when the receive buffer runs  *)
(* full, START when there is room again.  What the driver believes to have *)
(* told the peer is what was told last, or is about to be.                 *)
FlowControlAgrees ==
  LET told == SelectSeq(uart.tx, LAMBDA c : c \in {FC_STOP, FC_START})
      last == IF port.receiveFlowControl # NULL THEN port.receiveFlowControl
              ELSE IF told # << >> THEN Last(told)
              ELSE IF peer.stopped THEN FC_STOP ELSE FC_START
  IN  port.openFlag => (port.receiveStopped <=> last = FC_STOP)
==========================================================================
