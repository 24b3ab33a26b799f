---------------------------- MODULE MsgChannel ---------------------------
(***************************************************************************)
(* What a message buffer promises, without its tasks, queues and bytes: a  *)
(* channel for messages of different sizes, in whose capacity each takes   *)
(* its cost.  What does not fit is offered, in a line; the line moves on   *)
(* as soon as the first in it fits, whatever made that so.                 *)
(***************************************************************************)
EXTENDS SequencesExt, Naturals

CONSTANTS
  Message, Cost(_),   \* messages, and the cost of each
  Cap

VARIABLES
  ch,       \* the messages accepted, in that order
  offers,   \* the messages that wait to be, in the order of arrival
  got       \* the message received last

vars == <<ch, offers, got>>

Init == ch = << >> /\ offers = << >> /\ got = << >>

Fit(c) == FoldLeft(LAMBDA sum, m : sum + Cost(m), 0, c) <= Cap

(* With the accepted messages c and the line o, as many enter as fit.      *)
MoveOn(c, o) ==
  \E n \in 0..Len(o) :
    /\ offers' = SubSeq(o, n + 1, Len(o))
    /\ ch' = c \o SubSeq(o, 1, n)
    /\ n > 0 => Fit(ch')
    /\ n < Len(o) => ~Fit(Append(ch', o[n + 1]))

Reset == UNCHANGED got /\ offers' = << >> /\ ch' = << >>

(* To a receiver that waited. *)
HandOver(m) == got' = m /\ ch = << >> /\ offers = << >> /\ UNCHANGED <<ch, offers>>

Send(m) == UNCHANGED got /\ MoveOn(ch, Append(offers, m))

Withdraw(i) == UNCHANGED got /\ MoveOn(ch, RemoveAt(offers, i))

Receive ==
  LET line == ch \o offers IN
  /\ line # << >>
  /\ got' = Head(line)
  /\ MoveOn(IF ch = << >> THEN ch ELSE Tail(ch), IF ch = << >> THEN Tail(offers) ELSE offers)

Next ==
  \/ Reset \/ Receive
  \/ \E m \in Message : HandOver(m) \/ Send(m)
  \/ \E i \in DOMAIN offers : Withdraw(i)

Spec == Init /\ [][Next]_vars
==========================================================================
