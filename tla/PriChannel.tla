---------------------------- MODULE PriChannel ----------------------------
(***************************************************************************)
(* What a priority data queue promises: a bounded channel with a first-in  *)
(* first-out lane for every data priority.  An item is accepted at once    *)
(* or, when the channel is full, offered by a task that waits.  The item   *)
(* that leaves is the oldest of the highest priority (the lowest number)   *)
(* among those accepted; offers do not compete with them.                  *)
(***************************************************************************)
EXTENDS Sequences, Naturals, FiniteSetsExt

CONSTANTS Sender, Item, Nothing, MaxCap

VARIABLES
  cap,      \* capacity, 0 for a channel that only hands over
  lanes,    \* the data accepted, for every priority
  offered,  \* the item every waiting sender offers, or Nothing
  got       \* the item that was received last

vars == <<cap, lanes, offered, got>>

DPri == {item.datapri : item \in Item}

NoOffer  == [s \in Sender |-> Nothing]
NoData   == [p \in DPri |-> << >>]
Accepted == MapThenSumSet(LAMBDA p : Len(lanes[p]), DPri)

Add(item) == [lanes EXCEPT ![item.datapri] = Append(@, item.data)]

BestPri   == Min({p \in DPri : lanes[p] # << >>})
BestItem  == [datapri |-> BestPri, data |-> Head(lanes[BestPri])]
RemoveBest == [lanes EXCEPT ![BestPri] = Tail(@)]

Init == cap = 0 /\ lanes = NoData /\ offered = NoOffer /\ got = Nothing

(* Created, reinitialized or deleted.                                      *)
Reset(n) == cap' = n /\ lanes' = NoData /\ offered' = NoOffer /\ UNCHANGED got

Accept(item) ==
  /\ offered = NoOffer /\ Accepted < cap
  /\ lanes' = Add(item)
  /\ UNCHANGED <<cap, offered, got>>

Offer(s, item) ==
  /\ offered[s] = Nothing
  /\ offered' = [offered EXCEPT ![s] = item]
  /\ Accepted = cap
  /\ UNCHANGED <<cap, lanes, got>>

Withdraw(s) ==
  /\ offered[s] # Nothing
  /\ offered' = [offered EXCEPT ![s] = Nothing]
  /\ UNCHANGED <<cap, lanes, got>>

(* To a receiver that waited.                                              *)
HandOver(item) ==
  /\ offered = NoOffer
  /\ got' = item
  /\ lanes = NoData
  /\ UNCHANGED <<cap, lanes, offered>>

Receive ==
  /\ offered = NoOffer /\ lanes # NoData
  /\ got' = BestItem /\ lanes' = RemoveBest
  /\ UNCHANGED <<cap, offered>>

(* The item of a waiting sender enters where another left, or is received  *)
(* when nothing is held.                                                   *)
ReceiveAndAccept(s) ==
  /\ offered[s] # Nothing
  /\ offered' = [offered EXCEPT ![s] = Nothing]
  /\ \/ /\ lanes # NoData
        /\ got' = BestItem
        /\ lanes' = [RemoveBest EXCEPT ![offered[s].datapri] =
                       Append(@, offered[s].data)]
     \/ /\ lanes = NoData
        /\ got' = offered[s]
        /\ UNCHANGED lanes
  /\ UNCHANGED cap

Next ==
  \/ \E n \in 0..MaxCap : Reset(n)
  \/ \E item \in Item : Accept(item) \/ HandOver(item)
  \/ \E s \in Sender :
       Withdraw(s) \/ ReceiveAndAccept(s) \/ \E item \in Item : Offer(s, item)
  \/ Receive

Spec == Init /\ [][Next]_vars
==========================================================================
