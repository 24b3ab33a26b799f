----------------------------- MODULE Channel -----------------------------
(***************************************************************************)
(* What a data queue promises, without its tasks, queues and buffer: a     *)
(* bounded channel.  An item is accepted at once or, when the channel is   *)
(* full, offered by a task that waits; what is offered is accepted when    *)
(* an item leaves, or withdrawn.  Items leave in the order in which they   *)
(* were accepted, each once.                                               *)
(***************************************************************************)
EXTENDS Sequences, Naturals

CONSTANTS Sender, Data, Nothing, MaxCap

VARIABLES
  cap,      \* capacity, 0 for a channel that only hands over
  ch,       \* the items accepted
  offered,  \* the item every waiting sender offers, or Nothing
  got       \* the item that was received last

vars == <<cap, ch, offered, got>>

NoOffer == [s \in Sender |-> Nothing]

Init == cap = 0 /\ ch = << >> /\ offered = NoOffer /\ got = Nothing

(* Created, reinitialized or deleted.                                      *)
Reset(n) == cap' = n /\ ch' = << >> /\ offered' = NoOffer /\ UNCHANGED got

(* Nobody is overtaken: nothing is accepted while another item is offered. *)
Accept(d) ==
  /\ Len(ch) < cap /\ offered = NoOffer
  /\ ch' = Append(ch, d)
  /\ UNCHANGED <<cap, offered, got>>

(* The oldest item makes room.                                             *)
Force(d) ==
  /\ cap > 0 /\ Len(ch) = cap
  /\ ch' = Append(Tail(ch), d)
  /\ UNCHANGED <<cap, offered, got>>

Offer(s, d) ==
  /\ Len(ch) = cap /\ offered[s] = Nothing
  /\ offered' = [offered EXCEPT ![s] = d]
  /\ UNCHANGED <<cap, ch, got>>

Withdraw(s) ==
  /\ offered[s] # Nothing
  /\ offered' = [offered EXCEPT ![s] = Nothing]
  /\ UNCHANGED <<cap, ch, got>>

(* To a receiver that waited.                                              *)
HandOver(d) ==
  /\ ch = << >> /\ offered = NoOffer
  /\ got' = d
  /\ UNCHANGED <<cap, ch, offered>>

Receive ==
  /\ offered = NoOffer /\ ch # << >>
  /\ got' = Head(ch) /\ ch' = Tail(ch)
  /\ UNCHANGED <<cap, offered>>

(* The item of a waiting sender enters, or with no capacity is received.   *)
ReceiveAndAccept(s) ==
  /\ offered[s] # Nothing
  /\ got' = Head(Append(ch, offered[s]))
  /\ ch' = Tail(Append(ch, offered[s]))
  /\ offered' = [offered EXCEPT ![s] = Nothing]
  /\ UNCHANGED cap

Next ==
  \/ \E n \in 0..MaxCap : Reset(n)
  \/ \E d \in Data : Accept(d) \/ Force(d) \/ HandOver(d)
  \/ \E s \in Sender : Withdraw(s) \/ ReceiveAndAccept(s) \/ \E d \in Data : Offer(s, d)
  \/ Receive

Spec == Init /\ [][Next]_vars
==========================================================================
