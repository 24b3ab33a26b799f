--------------------------- MODULE QueueLemmas ---------------------------
(***************************************************************************)
(* The queues of the kernel and of the driver: sequences that hold every   *)
(* element of a set once.  Whatever is done to one either inserts an       *)
(* element at some place or removes the element at some place.             *)
(***************************************************************************)
EXTENDS Integers, SequencesExt, SequenceTheorems, FiniteSetTheorems,
        WellFoundedInduction, TLAPS

(* q holds every element of S once, and nothing else.                      *)
QueueOf(q, S) ==
  /\ q \in Seq(S)
  /\ IsInjective(q)
  /\ ToSet(q) = S

(* r is q with t inserted at the place i.                                  *)
Inserted(q, r, i, t) ==
  /\ i \in 1..Len(q) + 1
  /\ Len(r) = Len(q) + 1
  /\ r[i] = t
  /\ \A j \in 1..Len(q) : j < i => r[j] = q[j]
  /\ \A j \in 1..Len(q) : i <= j => r[j + 1] = q[j]

(* r is q without what is at the place i.                                  *)
Removed(q, r, i) ==
  /\ i \in 1..Len(q)
  /\ Len(r) = Len(q) - 1
  /\ \A j \in 1..Len(q) - 1 : r[j] = IF j < i THEN q[j] ELSE q[j + 1]

--------------------------------------------------------------------------
(* A set of natural numbers that is not empty has a least element.         *)
LEMMA LeastNat ==
  ASSUME NEW S, S \subseteq Nat, S # {}
  PROVE  \E n \in S : \A m \in S : n <= m
<1>1. PICK n \in S : \A m \in S : ~(<<m, n>> \in OpToRel(<, Nat))
  BY NatLessThanWellFounded, WFMin
<1>2. \A m \in S : ~(m < n)
  BY <1>1 DEF OpToRel
<1>3. \A m \in S : n <= m
  BY <1>2
<1> QED BY <1>3

(* Min of such a set.                                                      *)
LEMMA MinNat ==
  ASSUME NEW S, S \subseteq Nat, S # {}
  PROVE  Min(S) \in S /\ \A m \in S : Min(S) <= m
<1> QED BY LeastNat DEF Min

--------------------------------------------------------------------------
(* The elements of a queue by their places.                                *)
LEMMA QueueIndex ==
  ASSUME NEW S, NEW q, QueueOf(q, S)
  PROVE  /\ Len(q) \in Nat
         /\ DOMAIN q = 1..Len(q)
         /\ \A i \in 1..Len(q) : q[i] \in S
         /\ \A x \in S : \E i \in 1..Len(q) : q[i] = x
         /\ \A i, j \in 1..Len(q) : q[i] = q[j] => i = j
<1>1. Len(q) \in Nat /\ DOMAIN q = 1..Len(q)
  BY LenProperties DEF QueueOf
<1> QED BY <1>1 DEF QueueOf, ToSet, IsInjective

(* Conversely, a sequence with such places is a queue.                     *)
LEMMA QueueByIndex ==
  ASSUME NEW S, NEW q \in Seq(S),
         \A x \in S : \E i \in 1..Len(q) : q[i] = x,
         \A i, j \in 1..Len(q) : q[i] = q[j] => i = j
  PROVE  QueueOf(q, S)
<1>1. Len(q) \in Nat /\ DOMAIN q = 1..Len(q) /\ \A i \in 1..Len(q) : q[i] \in S
  BY LenProperties, ElementOfSeq
<1>2. IsInjective(q)
  BY <1>1 DEF IsInjective
<1>3. ToSet(q) = S
  BY <1>1 DEF ToSet
<1> QED BY <1>2, <1>3 DEF QueueOf

LEMMA QueueFrom ==
  ASSUME NEW T, NEW q \in Seq(T), IsInjective(q)
  PROVE  QueueOf(q, ToSet(q))
<1>1. Len(q) \in Nat /\ DOMAIN q = 1..Len(q)
  BY LenProperties
<1>2. q = [i \in 1..Len(q) |-> q[i]]
  BY LenProperties
<1>3. q \in [1..Len(q) -> ToSet(q)]
  BY <1>1, <1>2 DEF ToSet
<1>4. q \in Seq(ToSet(q))
  BY <1>1, <1>3, SeqDef
<1> QED BY <1>4 DEF QueueOf

(* A queue is a sequence over every larger set.                            *)
LEMMA QueueIn ==
  ASSUME NEW S, NEW T, S \subseteq T, NEW q, QueueOf(q, S)
  PROVE  q \in Seq(T)
<1> QED BY SeqMonotonic DEF QueueOf

(* The empty sequence is the queue of nobody.                              *)
LEMMA QueueEmpty == QueueOf(<< >>, {})
<1>1. << >> \in Seq({}) /\ Len(<< >>) = 0
  BY EmptySeq
<1> DEFINE e == << >>
<1>2. e \in Seq({}) /\ \A i \in 1..Len(e) : FALSE
  BY <1>1
<1> HIDE DEF e
<1>3. QueueOf(e, {})
  BY <1>2, QueueByIndex
<1> QED BY <1>3 DEF e

(* A queue is empty when it has no elements; otherwise its head is one.    *)
LEMMA QueueHead ==
  ASSUME NEW S, NEW q, QueueOf(q, S)
  PROVE  /\ q = << >> <=> S = {}
         /\ q # << >> => Head(q) \in S /\ Head(q) = q[1] /\ Len(q) > 0
         /\ \A t \in S : S = {t} => Head(q) = t
<1>1. /\ Len(q) \in Nat
      /\ \A i \in 1..Len(q) : q[i] \in S
      /\ \A x \in S : \E i \in 1..Len(q) : q[i] = x
  BY QueueIndex
<1>2. ASSUME q = << >> PROVE S = {}
  <2>1. Len(q) = 0
    BY <1>2, EmptySeq
  <2> QED BY <1>1, <2>1
<1>3. ASSUME q # << >>
      PROVE  S # {} /\ Head(q) \in S /\ Head(q) = q[1] /\ Len(q) > 0
  <2>1. Len(q) \in Nat \ {0}
    BY <1>3, EmptySeq DEF QueueOf
  <2>2. Head(q) = q[1]
    BY <1>3 DEF QueueOf
  <2> QED BY <1>1, <2>1, <2>2
<1> QED BY <1>2, <1>3

--------------------------------------------------------------------------
(* Inserting an element that is not in the queue.                          *)
LEMMA QueueInserted ==
  ASSUME NEW S, NEW q, QueueOf(q, S), NEW t, t \notin S,
         NEW i, NEW r \in Seq(S \cup {t}), Inserted(q, r, i, t)
  PROVE  QueueOf(r, S \cup {t})
<1>1. /\ Len(q) \in Nat
      /\ \A j \in 1..Len(q) : q[j] \in S
      /\ \A x \in S : \E j \in 1..Len(q) : q[j] = x
      /\ \A j, m \in 1..Len(q) : q[j] = q[m] => j = m
  BY QueueIndex
<1>2. i \in 1..Len(q) + 1 /\ Len(r) = Len(q) + 1 /\ r[i] = t
  BY DEF Inserted
<1> DEFINE from(j) == IF j < i THEN j ELSE j - 1
<1>3. \A j \in 1..Len(r) : j # i => from(j) \in 1..Len(q) /\ r[j] = q[from(j)]
  <2> SUFFICES ASSUME NEW j \in 1..Len(r), j # i
               PROVE  from(j) \in 1..Len(q) /\ r[j] = q[from(j)]
    OBVIOUS
  <2>1. CASE j < i
    BY <1>1, <1>2, <2>1 DEF Inserted
  <2>2. CASE j > i
    <3>1. j - 1 \in 1..Len(q) /\ i <= j - 1 /\ (j - 1) + 1 = j
      BY <1>1, <1>2, <2>2
    <3>2. r[(j - 1) + 1] = q[j - 1]
      BY <3>1 DEF Inserted
    <3> QED BY <1>1, <1>2, <2>2, <3>1, <3>2
  <2> QED BY <1>1, <1>2, <2>1, <2>2
<1>4. \A j, m \in 1..Len(r) : j # i /\ m # i /\ from(j) = from(m) => j = m
  BY <1>1, <1>2
<1> HIDE DEF from
<1>5. ASSUME NEW x \in S \cup {t} PROVE \E j \in 1..Len(r) : r[j] = x
  <2>1. CASE x = t
    BY <1>1, <1>2, <2>1
  <2>2. CASE x \in S
    <3>1. PICK j \in 1..Len(q) : q[j] = x
      BY <1>1, <2>2
    <3>2. j \in 1..Len(r) /\ j + 1 \in 1..Len(r)
      BY <1>1, <1>2
    <3>3. r[j] = x \/ r[j + 1] = x
      BY <1>1, <1>2, <3>1 DEF Inserted
    <3> QED BY <3>2, <3>3
  <2> QED BY <2>1, <2>2
<1>6. ASSUME NEW j \in 1..Len(r), NEW m \in 1..Len(r), r[j] = r[m] PROVE j = m
  <2>1. \A n \in 1..Len(r) : n # i => r[n] # t
    BY <1>1, <1>3
  <2>2. CASE j = i \/ m = i
    BY <1>2, <1>6, <2>1, <2>2
  <2>3. CASE j # i /\ m # i
    <3>1. from(j) = from(m)
      BY <1>1, <1>3, <1>6, <2>3
    <3> QED BY <1>4, <2>3, <3>1
  <2> QED BY <2>2, <2>3
<1> QED BY <1>5, <1>6, QueueByIndex

(* Removing an element by its place.                                       *)
LEMMA QueueRemoved ==
  ASSUME NEW S, NEW q, QueueOf(q, S),
         NEW i, NEW r \in Seq(S), Removed(q, r, i)
  PROVE  QueueOf(r, S \ {q[i]})
<1>1. /\ Len(q) \in Nat
      /\ \A j \in 1..Len(q) : q[j] \in S
      /\ \A x \in S : \E j \in 1..Len(q) : q[j] = x
      /\ \A j, m \in 1..Len(q) : q[j] = q[m] => j = m
  BY QueueIndex
<1>2. i \in 1..Len(q) /\ Len(r) = Len(q) - 1
  BY DEF Removed
<1> DEFINE from(j) == IF j < i THEN j ELSE j + 1
<1>3. \A j \in 1..Len(r) : from(j) \in 1..Len(q) \ {i} /\ r[j] = q[from(j)]
  BY <1>1, <1>2 DEF Removed
<1>4. \A j, m \in 1..Len(r) : from(j) = from(m) => j = m
  BY <1>1, <1>2
<1> HIDE DEF from
<1>5. r \in Seq(S \ {q[i]})
  <2>1. Len(r) \in Nat /\ \A j \in 1..Len(r) : r[j] \in S \ {q[i]}
    BY <1>1, <1>2, <1>3
  <2>2. r = [j \in 1..Len(r) |-> r[j]]
    BY LenProperties
  <2>3. r \in [1..Len(r) -> S \ {q[i]}]
    BY <2>1, <2>2
  <2> QED BY <2>1, <2>3, SeqDef
<1>6. ASSUME NEW x \in S \ {q[i]} PROVE \E j \in 1..Len(r) : r[j] = x
  <2>1. PICK j \in 1..Len(q) : q[j] = x
    BY <1>1
  <2>2. j # i
    BY <2>1
  <2>3. CASE j < i
    <3>1. j \in 1..Len(r)
      BY <1>1, <1>2, <2>3
    <3> QED BY <1>2, <2>1, <2>3, <3>1 DEF Removed
  <2>4. CASE j > i
    <3>1. j - 1 \in 1..Len(r) /\ ~(j - 1 < i) /\ (j - 1) + 1 = j
      BY <1>1, <1>2, <2>4
    <3>2. r[j - 1] = x
      BY <1>1, <1>2, <2>1, <3>1 DEF Removed
    <3> QED BY <3>1, <3>2
  <2> QED BY <1>1, <1>2, <2>2, <2>3, <2>4
<1>7. ASSUME NEW j \in 1..Len(r), NEW m \in 1..Len(r), r[j] = r[m] PROVE j = m
  <2>1. from(j) \in 1..Len(q) /\ from(m) \in 1..Len(q) /\ q[from(j)] = q[from(m)]
    BY <1>3, <1>7
  <2>2. from(j) = from(m)
    BY <1>1, <2>1
  <2> QED BY <1>4, <2>2
<1> QED BY <1>5, <1>6, <1>7, QueueByIndex

--------------------------------------------------------------------------
(* Appending an element that is not in the queue.                          *)
LEMMA QueueAppend ==
  ASSUME NEW S, NEW q, QueueOf(q, S), NEW t, t \notin S
  PROVE  /\ QueueOf(Append(q, t), S \cup {t})
         /\ Append(q, t) # << >>
         /\ Head(Append(q, t)) = IF q = << >> THEN t ELSE Head(q)
         /\ Inserted(q, Append(q, t), Len(q) + 1, t)
<1> DEFINE r == Append(q, t)
           T == S \cup {t}
<1>1. Len(q) \in Nat /\ q \in Seq(T) /\ t \in T
  BY QueueIndex, QueueIn
<1>2. /\ r \in Seq(T)
      /\ r # << >>
      /\ Len(r) = Len(q) + 1
      /\ \A i \in 1..Len(q) : r[i] = q[i]
      /\ r[Len(q) + 1] = t
  <2> HIDE DEF T
  <2> QED BY <1>1, AppendProperties
<1>3. Head(r) = IF q = << >> THEN t ELSE Head(q)
  BY <1>1, HeadTailAppend
<1> HIDE DEF r
<1>4. Inserted(q, r, Len(q) + 1, t)
  BY <1>1, <1>2 DEF Inserted
<1>5. QueueOf(r, T)
  BY <1>2, <1>4, QueueInserted
<1> QED BY <1>2, <1>3, <1>4, <1>5 DEF r

(* Inserting an element that is not in the queue before one that is.       *)
LEMMA QueueInsertAt ==
  ASSUME NEW S, NEW q, QueueOf(q, S), NEW t, t \notin S, NEW i \in 1..Len(q)
  PROVE  /\ QueueOf(InsertAt(q, i, t), S \cup {t})
         /\ Inserted(q, InsertAt(q, i, t), i, t)
<1> DEFINE T == S \cup {t}
           a == SubSeq(q, 1, i - 1)
           b == SubSeq(q, i, Len(q))
           c == a \o <<t>>
           r == c \o b
<1>1. /\ Len(q) \in Nat /\ i \in Nat /\ 1 <= i /\ i <= Len(q)
      /\ \A j \in 1..Len(q) : q[j] \in T
      /\ t \in T
  BY QueueIndex
<1> HIDE DEF T
<1>2. a \in Seq(T) /\ Len(a) = i - 1 /\ \A j \in 1..i - 1 : a[j] = q[j]
  <2>1. 1 \in Int /\ i - 1 \in Int /\ \A j \in 1..i - 1 : q[j] \in T
    BY <1>1
  <2>2. /\ a \in Seq(T)
        /\ Len(a) = IF 1 <= i - 1 THEN i - 1 - 1 + 1 ELSE 0
        /\ \A j \in 1..i - 1 - 1 + 1 : a[j] = q[1 + j - 1]
    BY <2>1, SubSeqProperties
  <2> QED BY <1>1, <2>2
<1>3. /\ b \in Seq(T) /\ Len(b) = Len(q) - i + 1
      /\ \A j \in 1..Len(q) - i + 1 : b[j] = q[i + j - 1]
  <2>1. i \in Int /\ Len(q) \in Int /\ \A j \in i..Len(q) : q[j] \in T
    BY <1>1
  <2>2. /\ b \in Seq(T)
        /\ Len(b) = IF i <= Len(q) THEN Len(q) - i + 1 ELSE 0
        /\ \A j \in 1..Len(q) - i + 1 : b[j] = q[i + j - 1]
    BY <2>1, SubSeqProperties
  <2> QED BY <1>1, <2>2
<1> HIDE DEF a, b
<1>4. /\ c \in Seq(T) /\ Len(c) = i
      /\ \A j \in 1..i - 1 : c[j] = q[j]
      /\ c[i] = t
  <2>1. <<t>> \in Seq(T) /\ Len(<<t>>) = 1 /\ <<t>>[1] = t
    BY <1>1
  <2>2. /\ c \in Seq(T) /\ Len(c) = Len(a) + Len(<<t>>)
        /\ \A j \in 1..Len(a) + Len(<<t>>) :
             c[j] = IF j <= Len(a) THEN a[j] ELSE <<t>>[j - Len(a)]
    BY <1>2, <2>1, ConcatProperties
  <2>3. Len(a) + Len(<<t>>) = i /\ i - Len(a) = 1
    BY <1>1, <1>2, <2>1
  <2>4. c[i] = t
    BY <1>1, <1>2, <2>1, <2>2, <2>3
  <2>5. \A j \in 1..i - 1 : c[j] = q[j]
    BY <1>1, <1>2, <2>2, <2>3
  <2> QED BY <2>2, <2>3, <2>4, <2>5
<1> HIDE DEF c
<1>5. /\ r \in Seq(T) /\ Len(r) = Len(q) + 1
      /\ \A j \in 1..i : r[j] = c[j]
      /\ \A j \in i + 1..Len(q) + 1 : r[j] = b[j - i]
  <2>1. /\ r \in Seq(T) /\ Len(r) = Len(c) + Len(b)
        /\ \A j \in 1..Len(c) + Len(b) : r[j] = IF j <= Len(c) THEN c[j] ELSE b[j - Len(c)]
    BY <1>3, <1>4, ConcatProperties
  <2>2. Len(c) + Len(b) = Len(q) + 1 /\ Len(c) = i
    BY <1>1, <1>3, <1>4
  <2> QED BY <1>1, <2>1, <2>2
<1> HIDE DEF r
<1>6. ASSUME NEW j \in 1..Len(q), i <= j PROVE r[j + 1] = q[j]
  <2>1. j + 1 \in i + 1..Len(q) + 1 /\ (j + 1) - i \in 1..Len(q) - i + 1
        /\ i + ((j + 1) - i) - 1 = j
    BY <1>1, <1>6
  <2> QED BY <1>3, <1>5, <2>1
<1>7. Inserted(q, r, i, t)
  BY <1>1, <1>4, <1>5, <1>6 DEF Inserted
<1>8. QueueOf(r, T)
  BY <1>5, <1>7, QueueInserted DEF T
<1>9. r = InsertAt(q, i, t)
  BY DEF r, a, b, c, InsertAt
<1> QED BY <1>7, <1>8, <1>9 DEF T

(* Putting an element that is not in the queue before all others.          *)
LEMMA QueueCons ==
  ASSUME NEW S, NEW q, QueueOf(q, S), NEW t, t \notin S
  PROVE  /\ QueueOf(Cons(t, q), S \cup {t})
         /\ Cons(t, q) # << >>
         /\ Head(Cons(t, q)) = t
         /\ Inserted(q, Cons(t, q), 1, t)
<1> DEFINE r == Cons(t, q)
           T == S \cup {t}
<1>1. Len(q) \in Nat /\ q \in Seq(T) /\ t \in T
  BY QueueIndex, QueueIn
<1> HIDE DEF T
<1>2. <<t>> \in Seq(T) /\ Len(<<t>>) = 1 /\ <<t>>[1] = t
  BY <1>1
<1>3. /\ r \in Seq(T)
      /\ Len(r) = 1 + Len(q)
      /\ \A i \in 1..1 + Len(q) : r[i] = IF i <= 1 THEN <<t>>[i] ELSE q[i - 1]
  BY <1>1, <1>2, ConcatProperties DEF Cons
<1> HIDE DEF r
<1>4. r[1] = t
  BY <1>1, <1>2, <1>3
<1>5. ASSUME NEW j \in 1..Len(q) PROVE r[j + 1] = q[j]
  <2>1. j + 1 \in 1..1 + Len(q) /\ ~(j + 1 <= 1) /\ (j + 1) - 1 = j
    BY <1>1
  <2> QED BY <1>3, <2>1
<1>6. Inserted(q, r, 1, t)
  BY <1>1, <1>3, <1>4, <1>5 DEF Inserted
<1>7. QueueOf(r, T)
  BY <1>3, <1>6, QueueInserted DEF T
<1>8. r # << >> /\ Head(r) = t
  <2>1. t \in T
    BY <1>1
  <2>2. r # << >>
    BY <1>7, <2>1, QueueHead
  <2> QED BY <1>4, <1>7, <2>2, QueueHead
<1> QED BY <1>6, <1>7, <1>8 DEF r, T
(* Removing an element of the queue.                                       *)
LEMMA QueueRemove ==
  ASSUME NEW S, NEW q, QueueOf(q, S), NEW t \in S
  PROVE  /\ QueueOf(RemoveFirst(q, t), S \ {t})
         /\ Head(q) # t => Head(RemoveFirst(q, t)) = Head(q)
         /\ \E i \in 1..Len(q) : q[i] = t /\ Removed(q, RemoveFirst(q, t), i)
<1>1. /\ Len(q) \in Nat
      /\ \A j \in 1..Len(q) : q[j] \in S
      /\ \A x \in S : \E j \in 1..Len(q) : q[j] = x
      /\ \A j, m \in 1..Len(q) : q[j] = q[m] => j = m
  BY QueueIndex
<1>2. PICK i \in 1..Len(q) : q[i] = t
  BY <1>1
<1>3. {j \in 1..Len(q) : q[j] = t} = {i}
  BY <1>1, <1>2
<1>4. Min({i}) = i
  BY <1>1, <1>2 DEF Min
<1>5. SelectInSeq(q, LAMBDA v : v = t) = i
  BY <1>3, <1>4 DEF SelectInSeq
<1> DEFINE a == SubSeq(q, 1, i - 1)
           b == SubSeq(q, i + 1, Len(q))
           r == a \o b
<1>6. RemoveFirst(q, t) = r
  BY <1>2, <1>5 DEF RemoveFirst, RemoveAt
<1>7. /\ a \in Seq(S)
      /\ Len(a) = i - 1
      /\ \A j \in 1..i - 1 : a[j] = q[j]
  <2>1. /\ 1 \in Int /\ i - 1 \in Int
        /\ \A j \in 1..i - 1 : q[j] \in S
    BY <1>1, <1>2
  <2>2. /\ SubSeq(q, 1, i - 1) \in Seq(S)
        /\ Len(SubSeq(q, 1, i - 1)) = IF 1 <= i - 1 THEN i - 1 - 1 + 1 ELSE 0
        /\ \A j \in 1..i - 1 - 1 + 1 : SubSeq(q, 1, i - 1)[j] = q[1 + j - 1]
    BY <2>1, SubSeqProperties
  <2> QED BY <1>1, <1>2, <2>2
<1>8. /\ b \in Seq(S)
      /\ Len(b) = Len(q) - i
      /\ \A j \in 1..Len(q) - i : b[j] = q[i + j]
  <2>1. /\ i + 1 \in Int /\ Len(q) \in Int
        /\ \A j \in i + 1..Len(q) : q[j] \in S
    BY <1>1, <1>2
  <2>2. /\ SubSeq(q, i + 1, Len(q)) \in Seq(S)
        /\ Len(SubSeq(q, i + 1, Len(q))) =
             IF i + 1 <= Len(q) THEN Len(q) - (i + 1) + 1 ELSE 0
        /\ \A j \in 1..Len(q) - (i + 1) + 1 :
             SubSeq(q, i + 1, Len(q))[j] = q[i + 1 + j - 1]
    BY <2>1, SubSeqProperties
  <2>3. /\ Len(q) - (i + 1) + 1 = Len(q) - i
        /\ i + 1 <= Len(q) \/ Len(q) - i = 0
        /\ \A j \in 1..Len(q) - i : i + 1 + j - 1 = i + j
    <3>1. \A n, m \in Int :
            /\ n - (m + 1) + 1 = n - m
            /\ m <= n => m + 1 <= n \/ n - m = 0
            /\ \A j \in 1..n - m : m + 1 + j - 1 = m + j
      OBVIOUS
    <3>2. Len(q) \in Int /\ i \in Int /\ i <= Len(q)
      BY <1>1, <1>2
    <3> QED BY <3>1, <3>2
  <2>4. Len(b) = Len(q) - i
    BY <1>1, <1>2, <2>2, <2>3
  <2>5. ASSUME NEW j \in 1..Len(q) - i PROVE b[j] = q[i + j]
    BY <2>2, <2>3, <2>5
  <2> QED BY <2>2, <2>4, <2>5
<1> HIDE DEF a, b
<1>9. r \in Seq(S) /\ Removed(q, r, i)
  <2>1. /\ r \in Seq(S)
        /\ Len(r) = Len(a) + Len(b)
        /\ \A j \in 1..Len(a) + Len(b) :
             r[j] = IF j <= Len(a) THEN a[j] ELSE b[j - Len(a)]
    BY <1>7, <1>8, ConcatProperties
  <2>2. Len(a) + Len(b) = Len(q) - 1
    BY <1>1, <1>2, <1>7, <1>8
  <2>3. ASSUME NEW j \in 1..Len(q) - 1, j < i PROVE r[j] = q[j]
    BY <1>1, <1>2, <1>7, <2>1, <2>2, <2>3
  <2>4. ASSUME NEW j \in 1..Len(q) - 1, ~(j < i) PROVE r[j] = q[j + 1]
    <3>1. j - Len(a) \in 1..Len(q) - i
      BY <1>1, <1>2, <1>7, <2>4
    <3>2. r[j] = b[j - Len(a)]
      BY <1>1, <1>2, <1>7, <2>1, <2>2, <2>4
    <3>3. i + (j - Len(a)) = j + 1
      BY <1>1, <1>2, <1>7
    <3> QED BY <1>8, <3>1, <3>2, <3>3
  <2> QED BY <1>2, <2>1, <2>2, <2>3, <2>4 DEF Removed
<1> HIDE DEF r
<1>10. QueueOf(r, S \ {t})
  BY <1>2, <1>9, QueueRemoved
<1>11. ASSUME Head(q) # t PROVE Head(r) = Head(q)
  <2>1. q # << >> /\ Head(q) = q[1]
    BY QueueHead
  <2>2. 1 \in 1..Len(q) - 1 /\ 1 < i
    BY <1>1, <1>2, <1>11, <2>1
  <2>3. r[1] = q[1] /\ Len(r) # 0
    BY <1>1, <1>9, <2>2 DEF Removed
  <2>4. r # << >>
    BY <2>3, EmptySeq
  <2> QED BY <1>10, <2>1, <2>3, <2>4, QueueHead
<1> QED BY <1>2, <1>6, <1>9, <1>10, <1>11

(* Removing the head.                                                      *)
LEMMA QueueTail ==
  ASSUME NEW S, NEW q, QueueOf(q, S), q # << >>
  PROVE  /\ QueueOf(Tail(q), S \ {Head(q)})
         /\ Removed(q, Tail(q), 1)
<1>1. /\ Len(q) \in Nat /\ Len(q) > 0 /\ Head(q) = q[1]
  BY QueueHead, QueueIndex
<1>2. /\ Tail(q) \in Seq(S)
      /\ Len(Tail(q)) = Len(q) - 1
      /\ \A i \in 1..Len(Tail(q)) : Tail(q)[i] = q[i + 1]
  BY HeadTailProperties DEF QueueOf
<1>3. Removed(q, Tail(q), 1)
  BY <1>1, <1>2 DEF Removed
<1> DEFINE r == Tail(q)
<1>4. QueueOf(r, S \ {q[1]})
  <2> HIDE DEF r
  <2> QED BY <1>2, <1>3, QueueRemoved DEF r
<1> QED BY <1>1, <1>3, <1>4

(* Rotating a queue of at least two elements.                              *)
LEMMA QueueRotate ==
  ASSUME NEW S, NEW q, QueueOf(q, S), ~(Len(q) < 2)
  PROVE  /\ QueueOf(Append(Tail(q), Head(q)), S)
         /\ Head(Append(Tail(q), Head(q))) = Head(Tail(q))
         /\ Head(Tail(q)) \in S
         /\ q # << >>
<1>1. Len(q) \in Nat
  BY QueueIndex
<1>2. q # << >>
  BY <1>1, EmptySeq
<1>3. QueueOf(Tail(q), S \ {Head(q)}) /\ Len(Tail(q)) = Len(q) - 1 /\ Head(q) \in S
  BY <1>2, QueueTail, QueueHead DEF Removed
<1>4. Tail(q) # << >>
  <2> DEFINE n == Len(Tail(q))
  <2>1. n = Len(q) - 1
    BY <1>3
  <2> HIDE DEF n
  <2>2. n # 0
    BY <1>1, <2>1
  <2> QED BY <2>2, EmptySeq DEF n
<1>5. (S \ {Head(q)}) \cup {Head(q)} = S
  BY <1>3
<1>6. QueueOf(Append(Tail(q), Head(q)), (S \ {Head(q)}) \cup {Head(q)})
      /\ Head(Append(Tail(q), Head(q))) = Head(Tail(q))
  BY <1>3, <1>4, QueueAppend
<1> QED BY <1>2, <1>3, <1>4, <1>5, <1>6, QueueHead

--------------------------------------------------------------------------
(* Queues in an order: an element is put behind all whose key is not       *)
(* greater.                                                                *)
SortedBy(key, q) ==
  \A i, j \in 1..Len(q) : i < j => key[q[i]] <= key[q[j]]

LEMMA InsertedSorted ==
  ASSUME NEW key, NEW S, NEW q, QueueOf(q, S), SortedBy(key, q), NEW t,
         \A u \in S \cup {t} : key[u] \in Int,
         NEW n, NEW r, Inserted(q, r, n, t),
         \A j \in 1..Len(q) : j < n => key[q[j]] <= key[t],
         n <= Len(q) => key[t] < key[q[n]]
  PROVE  SortedBy(key, r)
<1>1. /\ Len(q) \in Nat
      /\ \A j \in 1..Len(q) : q[j] \in S
      /\ \A u \in S \cup {t} : key[u] \in Int
  BY QueueIndex
<1>2. Inserted(q, r, n, t)
  OBVIOUS
<1>3. /\ n \in 1..Len(q) + 1
      /\ \A j \in 1..Len(q) : j < n => key[q[j]] <= key[t]
      /\ n <= Len(q) => key[t] < key[q[n]]
  BY DEF Inserted
<1>6. ASSUME NEW j \in 1..Len(q), n <= j PROVE key[t] <= key[q[j]]
  <2>1. n \in 1..Len(q) /\ key[t] < key[q[n]]
    BY <1>1, <1>3, <1>6
  <2>2. key[q[n]] <= key[q[j]]
    <3>1. CASE n = j
      BY <1>1, <3>1
    <3>2. CASE n < j
      BY <2>1, <3>2 DEF SortedBy
    <3> QED BY <1>1, <1>6, <2>1, <3>1, <3>2
  <2> QED BY <1>1, <2>1, <2>2
<1>7. Len(r) = Len(q) + 1 /\ r[n] = t
      /\ \A j \in 1..Len(r) :
           /\ j < n => j \in 1..Len(q) /\ r[j] = q[j]
           /\ j > n => j - 1 \in 1..Len(q) /\ r[j] = q[j - 1] /\ n <= j - 1
  <2>1. Len(r) = Len(q) + 1 /\ r[n] = t
    BY <1>2 DEF Inserted
  <2>2. ASSUME NEW j \in 1..Len(r), j < n PROVE j \in 1..Len(q) /\ r[j] = q[j]
    <3>1. j \in 1..Len(q)
      BY <1>1, <1>3, <2>1, <2>2
    <3> QED BY <1>2, <2>2, <3>1 DEF Inserted
  <2>3. ASSUME NEW j \in 1..Len(r), j > n
        PROVE  j - 1 \in 1..Len(q) /\ r[j] = q[j - 1] /\ n <= j - 1
    <3>1. j - 1 \in 1..Len(q) /\ n <= j - 1 /\ (j - 1) + 1 = j
      BY <1>1, <1>3, <2>1, <2>3
    <3> QED BY <1>2, <3>1 DEF Inserted
  <2> QED BY <2>1, <2>2, <2>3
<1>8. ASSUME NEW a \in 1..Len(r), NEW b \in 1..Len(r), a < b
      PROVE  key[r[a]] <= key[r[b]]
  <2>1. CASE b < n
    <3>1. a < n
      BY <1>1, <1>3, <1>7, <1>8, <2>1
    <3> QED BY <1>7, <1>8, <2>1, <3>1 DEF SortedBy
  <2>2. CASE b = n
    BY <1>3, <1>7, <1>8, <2>2
  <2>3. CASE b > n /\ a = n
    BY <1>6, <1>7, <2>3
  <2>4. CASE b > n /\ a > n
    <3>1. a - 1 < b - 1
      BY <1>1, <1>7, <1>8
    <3> QED BY <1>7, <2>4, <3>1 DEF SortedBy
  <2>5. CASE b > n /\ a < n
    <3>1. r[a] = q[a] /\ a \in 1..Len(q) /\ r[b] = q[b - 1] /\ b - 1 \in 1..Len(q)
          /\ n <= b - 1
      BY <1>7, <2>5
    <3>2. key[q[a]] <= key[t] /\ key[t] <= key[q[b - 1]]
      BY <1>3, <1>6, <2>5, <3>1
    <3> QED BY <1>1, <3>1, <3>2
  <2> QED BY <1>1, <1>3, <1>7, <2>1, <2>2, <2>3, <2>4, <2>5
<1>9. SortedBy(key, r)
  BY <1>8 DEF SortedBy
<1> QED BY <1>9

(* The place of the first element with a greater key, 0 if there is none.  *)
Behind(key, q, t) == {j \in 1..Len(q) : key[t] < key[q[j]]}

Place(key, q, t) ==
  IF Behind(key, q, t) # {} THEN Min(Behind(key, q, t)) ELSE 0

(* Before the place i, or behind all if it is 0.                           *)
PutAt(q, i, t) == IF i = 0 THEN Append(q, t) ELSE InsertAt(q, i, t)

LEMMA InsertByKey ==
  ASSUME NEW key, NEW S, NEW q, QueueOf(q, S), SortedBy(key, q), NEW t, t \notin S,
         \A u \in S \cup {t} : key[u] \in Int,
         NEW i, i = Place(key, q, t)
  PROVE  /\ QueueOf(PutAt(q, i, t), S \cup {t})
         /\ Len(PutAt(q, i, t)) = Len(q) + 1
         /\ SortedBy(key, PutAt(q, i, t))
<1> DEFINE B == Behind(key, q, t)
           n == IF i = 0 THEN Len(q) + 1 ELSE i
           r == PutAt(q, i, t)
<1>1. /\ Len(q) \in Nat
      /\ \A j \in 1..Len(q) : q[j] \in S
      /\ \A u \in S \cup {t} : key[u] \in Int
  BY QueueIndex
<1>2. \A j : j \in B <=> j \in 1..Len(q) /\ key[t] < key[q[j]]
  BY DEF Behind
<1>3. B \subseteq Nat /\ i = IF B # {} THEN Min(B) ELSE 0
  BY <1>1, <1>2 DEF Place
<1> HIDE DEF B, r
<1>4. IF B = {} THEN i = 0 ELSE i \in B /\ \A j \in B : i <= j
  BY <1>3, MinNat
<1>5. QueueOf(r, S \cup {t}) /\ Inserted(q, r, n, t)
  <2>1. CASE i = 0
    BY <2>1, QueueAppend DEF r, PutAt
  <2>2. CASE i # 0
    <3>1. i \in 1..Len(q)
      BY <1>2, <1>4, <2>2
    <3> QED BY <2>2, <3>1, QueueInsertAt DEF r, PutAt
  <2> QED BY <2>1, <2>2
<1>6. /\ \A j \in 1..Len(q) : j < n => key[q[j]] <= key[t]
      /\ n <= Len(q) => key[t] < key[q[n]]
  <2>1. CASE B = {}
    BY <1>1, <1>2, <1>4, <2>1
  <2>2. CASE B # {}
    <3>1. i \in 1..Len(q) /\ n = i /\ key[t] < key[q[i]]
      BY <1>1, <1>2, <1>4, <2>2
    <3>2. ASSUME NEW j \in 1..Len(q), j < i PROVE key[q[j]] <= key[t]
      <4>1. j \notin B
        BY <1>1, <1>2, <1>4, <2>2, <3>1, <3>2
      <4> QED BY <1>1, <1>2, <4>1
    <3> QED BY <1>1, <3>1, <3>2
  <2> QED BY <2>1, <2>2
<1> HIDE DEF n
<1>7. SortedBy(key, r) /\ Len(r) = Len(q) + 1
  BY <1>5, <1>6, InsertedSorted DEF Inserted
<1> QED BY <1>5, <1>7 DEF r

--------------------------------------------------------------------------
(* The blocks 0..u-1 of an array in two lists: h of those in use, f of     *)
(* those returned.                                                         *)
Blocks(h, f, u) ==
  /\ u \in Nat
  /\ QueueOf(h, ToSet(h)) /\ QueueOf(f, ToSet(f))
  /\ ToSet(h) \cap ToSet(f) = {} /\ ToSet(h) \cup ToSet(f) = 0..u-1
  /\ Len(h) + Len(f) = u

(* The block that is taken next is not in use; while none is returned, all *)
(* that have been taken are.                                               *)
LEMMA BlockFree ==
  ASSUME NEW h, NEW f, NEW u, Blocks(h, f, u)
  PROVE  /\ f # << >> => Head(f) \in ToSet(f) /\ Head(f) \notin ToSet(h)
         /\ f = << >> => ToSet(f) = {} /\ u \notin ToSet(h) /\ Len(h) = u
<1> DEFINE A == ToSet(h)
           B == ToSet(f)
<1>1. /\ u \in Nat /\ QueueOf(h, A) /\ QueueOf(f, B) /\ Len(h) + Len(f) = u
      /\ A \cap B = {} /\ A \cup B = 0..u-1
  BY DEF Blocks
<1> HIDE DEF A, B
<1>2. Len(h) \in Nat /\ Len(f) \in Nat
  BY <1>1, QueueIndex
<1>3. ASSUME f # << >> PROVE Head(f) \in B /\ Head(f) \notin A
  BY <1>1, <1>3, QueueHead
<1>4. ASSUME f = << >> PROVE B = {} /\ u \notin A /\ Len(h) = u
  <2>1. B = {} /\ Len(f) = 0
    BY <1>1, <1>4, QueueHead, EmptySeq
  <2>2. u \notin A
    BY <1>1
  <2>3. Len(h) = u
    BY <1>1, <1>2, <2>1
  <2> QED BY <2>1, <2>2, <2>3
<1> QED BY <1>3, <1>4 DEF A, B

LEMMA BlockTaken ==
  ASSUME NEW h, NEW f, NEW u, Blocks(h, f, u),
         NEW b, b = IF f # << >> THEN Head(f) ELSE u,
         NEW r, QueueOf(r, ToSet(h) \cup {b}), Len(r) = Len(h) + 1
  PROVE  Blocks(r, IF f # << >> THEN Tail(f) ELSE f, IF f # << >> THEN u ELSE u + 1)
<1> DEFINE A == ToSet(h)
           B == ToSet(f)
<1>1. /\ u \in Nat /\ QueueOf(h, A) /\ QueueOf(f, B) /\ Len(h) + Len(f) = u
      /\ A \cap B = {} /\ A \cup B = 0..u-1
  BY DEF Blocks
<1>2. QueueOf(r, A \cup {b}) /\ Len(r) = Len(h) + 1 /\ ToSet(r) = A \cup {b}
  BY DEF QueueOf
<1>3. /\ f # << >> => Head(f) \in B /\ Head(f) \notin A
      /\ f = << >> => B = {} /\ u \notin A /\ Len(h) = u
  BY BlockFree
<1> HIDE DEF A, B
<1>4. Len(h) \in Nat /\ Len(f) \in Nat
  BY <1>1, QueueIndex
<1>5. CASE f # << >>
  <2>1. QueueOf(Tail(f), B \ {b}) /\ Len(Tail(f)) = Len(f) - 1
    BY <1>1, <1>5, QueueTail DEF Removed
  <2>2. ToSet(Tail(f)) = B \ {b}
    BY <2>1 DEF QueueOf
  <2>3. (A \cup {b}) \cap (B \ {b}) = {} /\ (A \cup {b}) \cup (B \ {b}) = 0..u-1
    BY <1>1, <1>3, <1>5
  <2>4. Len(r) + Len(Tail(f)) = u
    <3> DEFINE n == Len(r)
               m == Len(Tail(f))
    <3>1. n = Len(h) + 1 /\ m = Len(f) - 1
      BY <1>2, <2>1
    <3> HIDE DEF n, m
    <3>2. n + m = u
      BY <1>1, <1>4, <3>1
    <3> QED BY <3>2 DEF n, m
  <2> QED BY <1>1, <1>2, <1>5, <2>1, <2>2, <2>3, <2>4 DEF Blocks
<1>6. CASE f = << >>
  <2>1. b = u /\ B = {} /\ A = 0..u-1 /\ u \notin A
    BY <1>1, <1>3, <1>6
  <2>2. (A \cup {b}) \cap B = {} /\ (A \cup {b}) \cup B = 0..(u+1)-1
    BY <1>1, <2>1
  <2>3. Len(r) + Len(f) = u + 1 /\ u + 1 \in Nat
    BY <1>1, <1>2, <1>4
  <2>4. QueueOf(f, ToSet(f)) /\ ToSet(f) = B
    BY <1>1 DEF QueueOf
  <2> QED BY <1>2, <1>6, <2>2, <2>3, <2>4 DEF Blocks
<1> QED BY <1>5, <1>6

LEMMA BlockReturned ==
  ASSUME NEW h, NEW f, NEW u, Blocks(h, f, u), h # << >>
  PROVE  /\ Blocks(Tail(h), Cons(Head(h), f), u)
         /\ ToSet(Tail(h)) = ToSet(h) \ {Head(h)} /\ Head(h) \in ToSet(h)
         /\ Removed(h, Tail(h), 1)
<1> DEFINE A == ToSet(h)
           B == ToSet(f)
           b == Head(h)
           h2 == Tail(h)
           f2 == Cons(b, f)
<1>1. /\ u \in Nat /\ QueueOf(h, A) /\ QueueOf(f, B) /\ Len(h) + Len(f) = u
      /\ A \cap B = {} /\ A \cup B = 0..u-1
  BY DEF Blocks
<1>2. /\ QueueOf(h2, A \ {b}) /\ Removed(h, h2, 1) /\ Len(h2) = Len(h) - 1
      /\ ToSet(h2) = A \ {b} /\ b \in A
  <2> HIDE DEF A, B
  <2>1. QueueOf(h2, A \ {b}) /\ Removed(h, h2, 1) /\ b \in A
    BY <1>1, QueueTail, QueueHead
  <2> HIDE DEF h2, b
  <2> QED BY <2>1 DEF Removed, QueueOf
<1>3. QueueOf(f2, B \cup {b}) /\ Len(f2) = Len(f) + 1 /\ ToSet(f2) = B \cup {b}
  <2>1. b \notin B
    BY <1>1, <1>2
  <2> HIDE DEF A, B, b
  <2>2. QueueOf(f2, B \cup {b}) /\ Inserted(f, f2, 1, b)
    BY <1>1, <2>1, QueueCons
  <2> HIDE DEF f2
  <2> QED BY <2>2 DEF Inserted, QueueOf
<1> HIDE DEF A, B, b, h2, f2
<1>4. Len(h) \in Nat /\ Len(f) \in Nat
  BY <1>1, QueueIndex
<1>5. Len(h2) + Len(f2) = u
  BY <1>1, <1>2, <1>3, <1>4
<1>6. (A \ {b}) \cap (B \cup {b}) = {} /\ (A \ {b}) \cup (B \cup {b}) = 0..u-1
  BY <1>1, <1>2
<1>7. Blocks(h2, f2, u)
  BY <1>1, <1>2, <1>3, <1>5, <1>6 DEF Blocks
<1> QED BY <1>2, <1>7 DEF A, b, h2, f2

(* One after the other the lists hold every block taken so far once.       *)
LEMMA BlocksOnce ==
  ASSUME NEW h, NEW f, NEW u, Blocks(h, f, u)
  PROVE  IsInjective(h \o f) /\ ToSet(h \o f) = 0..u-1
<1> DEFINE A == ToSet(h)
           B == ToSet(f)
           S == A \cup B
           s == h \o f
<1>1. /\ QueueOf(h, A) /\ QueueOf(f, B) /\ A \cap B = {} /\ S = 0..u-1
  BY DEF Blocks
<1> HIDE DEF A, B
<1>2. h \in Seq(S) /\ f \in Seq(S)
  BY <1>1, QueueIn
<1> HIDE DEF S
<1>3. /\ s \in Seq(S) /\ Len(s) = Len(h) + Len(f)
      /\ \A i \in 1..Len(s) : s[i] = IF i <= Len(h) THEN h[i] ELSE f[i - Len(h)]
  BY <1>2, ConcatProperties
<1> HIDE DEF s
<1>4. /\ Len(h) \in Nat /\ Len(f) \in Nat
      /\ \A i \in 1..Len(h) : h[i] \in A
      /\ \A i \in 1..Len(f) : f[i] \in B
      /\ \A x \in A : \E i \in 1..Len(h) : h[i] = x
      /\ \A x \in B : \E i \in 1..Len(f) : f[i] = x
      /\ \A i, j \in 1..Len(h) : h[i] = h[j] => i = j
      /\ \A i, j \in 1..Len(f) : f[i] = f[j] => i = j
  <2>1. /\ Len(h) \in Nat
        /\ \A i \in 1..Len(h) : h[i] \in A
        /\ \A x \in A : \E i \in 1..Len(h) : h[i] = x
        /\ \A i, j \in 1..Len(h) : h[i] = h[j] => i = j
    BY <1>1, QueueIndex
  <2>2. /\ Len(f) \in Nat
        /\ \A i \in 1..Len(f) : f[i] \in B
        /\ \A x \in B : \E i \in 1..Len(f) : f[i] = x
        /\ \A i, j \in 1..Len(f) : f[i] = f[j] => i = j
    BY <1>1, QueueIndex
  <2> QED BY <2>1, <2>2
<1>5. ASSUME NEW x \in S PROVE \E i \in 1..Len(s) : s[i] = x
  <2>1. CASE x \in A
    <3>1. PICK i \in 1..Len(h) : h[i] = x
      BY <1>4, <2>1
    <3>2. i \in 1..Len(s) /\ i <= Len(h)
      BY <1>3, <1>4
    <3> QED BY <1>3, <3>1, <3>2
  <2>2. CASE x \in B
    <3>1. PICK i \in 1..Len(f) : f[i] = x
      BY <1>4, <2>2
    <3>2. i + Len(h) \in 1..Len(s) /\ ~(i + Len(h) <= Len(h)) /\ (i + Len(h)) - Len(h) = i
      BY <1>3, <1>4
    <3> QED BY <1>3, <3>1, <3>2
  <2> QED BY <2>1, <2>2 DEF S
<1>6. ASSUME NEW i \in 1..Len(s), NEW j \in 1..Len(s), s[i] = s[j] PROVE i = j
  <2>1. ASSUME NEW m \in 1..Len(s)
        PROVE  IF m <= Len(h) THEN m \in 1..Len(h) /\ s[m] = h[m] /\ s[m] \in A
               ELSE m - Len(h) \in 1..Len(f) /\ s[m] = f[m - Len(h)] /\ s[m] \in B
    <3>1. m <= Len(h) => m \in 1..Len(h)
      BY <1>4
    <3>2. ~(m <= Len(h)) => m - Len(h) \in 1..Len(f)
      BY <1>3, <1>4
    <3> QED BY <1>3, <1>4, <3>1, <3>2
  <2>2. CASE i <= Len(h) /\ j <= Len(h)
    BY <1>4, <1>6, <2>1, <2>2
  <2>3. CASE ~(i <= Len(h)) /\ ~(j <= Len(h))
    <3> DEFINE a == i - Len(h)
               b == j - Len(h)
    <3>1. a = b
      <4>1. a \in 1..Len(f) /\ b \in 1..Len(f) /\ s[i] = f[a] /\ s[j] = f[b]
        BY <2>1, <2>3
      <4> HIDE DEF a, b
      <4> QED BY <1>4, <1>6, <4>1
    <3> QED BY <1>4, <3>1
  <2>4. CASE i <= Len(h) /\ ~(j <= Len(h))
    BY <1>1, <1>6, <2>1, <2>4
  <2>5. CASE ~(i <= Len(h)) /\ j <= Len(h)
    BY <1>1, <1>6, <2>1, <2>5
  <2> QED BY <2>2, <2>3, <2>4, <2>5
<1>7. QueueOf(s, S)
  BY <1>3, <1>5, <1>6, QueueByIndex
<1> QED BY <1>1, <1>7 DEF QueueOf, s

--------------------------------------------------------------------------
(* A list linked through an array: first is its first element, and nx      *)
(* leads from each to the next and from the last to nil.                   *)
LinkOf(list, i, nil) == IF i <= Len(list) THEN list[i] ELSE nil

Linked(list, first, nx, nil) ==
  /\ first = LinkOf(list, 1, nil)
  /\ \A i \in 1..Len(list) : nx[list[i]] = LinkOf(list, i + 1, nil)

LEMMA LinkedEmpty ==
  ASSUME NEW nx, NEW nil
  PROVE  Linked(<< >>, nil, nx, nil)
<1> DEFINE e == << >>
<1>1. Len(e) = 0
  BY EmptySeq
<1> HIDE DEF e
<1>2. Linked(e, nil, nx, nil)
  BY <1>1 DEF Linked, LinkOf
<1> QED BY <1>2 DEF e

(* The first element is taken out, and its link written over.              *)
LEMMA LinkedTaken ==
  ASSUME NEW S, NEW list, QueueOf(list, S), NEW first, NEW nx, NEW nil, nil \notin S,
         Linked(list, first, nx, nil)
  PROVE  /\ list = << >> <=> first = nil
         /\ list # << >> =>
              /\ first = Head(list) /\ first \in S
              /\ \A nx2 : (\A b \in S \ {first} : nx2[b] = nx[b]) =>
                   Linked(Tail(list), nx[first], nx2, nil)
<1>1. /\ Len(list) \in Nat
      /\ \A i \in 1..Len(list) : list[i] \in S
      /\ \A i, j \in 1..Len(list) : list[i] = list[j] => i = j
  BY QueueIndex
<1>2. /\ first = LinkOf(list, 1, nil)
      /\ \A i \in 1..Len(list) : nx[list[i]] = LinkOf(list, i + 1, nil)
  BY DEF Linked
<1>3. ASSUME list = << >> PROVE first = nil
  <2>1. Len(list) = 0
    BY <1>3, EmptySeq
  <2> QED BY <1>2, <2>1 DEF LinkOf
<1>4. ASSUME list # << >>
      PROVE  /\ first = Head(list) /\ first \in S
             /\ \A nx2 : (\A b \in S \ {first} : nx2[b] = nx[b]) =>
                  Linked(Tail(list), nx[first], nx2, nil)
  <2> DEFINE r == Tail(list)
  <2>1. Len(list) > 0 /\ Head(list) = list[1] /\ Removed(list, r, 1)
    BY <1>4, QueueHead, QueueTail
  <2> HIDE DEF r
  <2>2. 1 \in 1..Len(list) /\ first = list[1] /\ first \in S
    BY <1>1, <1>2, <2>1 DEF LinkOf
  <2>3. Len(r) = Len(list) - 1 /\ \A j \in 1..Len(r) : r[j] = list[j + 1]
    BY <1>1, <2>1 DEF Removed
  <2>4. \A j \in Nat : j > 0 => LinkOf(r, j, nil) = LinkOf(list, j + 1, nil)
    BY <1>1, <2>3 DEF LinkOf
  <2>5. nx[first] = LinkOf(r, 1, nil)
    BY <1>2, <2>2, <2>4
  <2>6. ASSUME NEW nx2, \A b \in S \ {first} : nx2[b] = nx[b]
        PROVE  Linked(r, nx[first], nx2, nil)
    <3>1. ASSUME NEW i \in 1..Len(r) PROVE nx2[r[i]] = LinkOf(r, i + 1, nil)
      <4>1. /\ i + 1 \in 1..Len(list) /\ i + 1 # 1 /\ i + 1 \in Nat /\ i + 1 > 0
            /\ r[i] = list[i + 1]
        BY <1>1, <2>3
      <4>2. r[i] \in S \ {first}
        BY <1>1, <2>2, <4>1
      <4>3. nx[r[i]] = LinkOf(list, (i + 1) + 1, nil)
        BY <1>2, <4>1
      <4> QED BY <2>4, <2>6, <4>1, <4>2, <4>3
    <3> QED BY <2>5, <3>1 DEF Linked
  <2> QED BY <2>1, <2>2, <2>6 DEF r
<1>5. ASSUME first = nil PROVE list = << >>
  BY <1>4, <1>5
<1> QED BY <1>3, <1>4, <1>5

(* An element is put before the first.                                     *)
LEMMA LinkedReturned ==
  ASSUME NEW S, NEW list, QueueOf(list, S), NEW first, NEW nx, NEW nil,
         Linked(list, first, nx, nil), NEW b, b \notin S,
         NEW nx2, nx2[b] = first, \A c \in S : nx2[c] = nx[c]
  PROVE  Linked(Cons(b, list), b, nx2, nil)
<1> DEFINE r == Cons(b, list)
<1>1. /\ Len(list) \in Nat
      /\ \A i \in 1..Len(list) : list[i] \in S
  BY QueueIndex
<1>2. /\ first = LinkOf(list, 1, nil)
      /\ \A i \in 1..Len(list) : nx[list[i]] = LinkOf(list, i + 1, nil)
  BY DEF Linked
<1>3. Inserted(list, r, 1, b)
  BY QueueCons
<1> HIDE DEF r
<1>4. /\ Len(r) = Len(list) + 1 /\ r[1] = b
      /\ \A j \in 1..Len(list) : r[j + 1] = list[j]
  BY <1>1, <1>3 DEF Inserted
<1>5. \A j \in Nat : j > 0 => LinkOf(r, j + 1, nil) = LinkOf(list, j, nil)
  BY <1>1, <1>4 DEF LinkOf
<1>6. b = LinkOf(r, 1, nil)
  BY <1>1, <1>4 DEF LinkOf
<1>7. ASSUME NEW i \in 1..Len(r) PROVE nx2[r[i]] = LinkOf(r, i + 1, nil)
  <2>1. CASE i = 1
    BY <1>2, <1>4, <1>5, <2>1
  <2>2. CASE i # 1
    <3>1. PICK j \in 1..Len(list) : i = j + 1
      <4>1. i - 1 \in 1..Len(list) /\ i = (i - 1) + 1
        BY <1>1, <1>4, <2>2
      <4> QED BY <4>1
    <3>2. r[i] = list[j] /\ list[j] \in S
      BY <1>1, <1>4, <3>1
    <3>3. nx2[r[i]] = LinkOf(list, j + 1, nil)
      BY <1>2, <3>2
    <3>4. j + 1 \in Nat /\ j + 1 > 0
      BY <1>1
    <3> QED BY <1>5, <3>1, <3>3, <3>4
  <2> QED BY <2>1, <2>2
<1>8. Linked(r, b, nx2, nil)
  BY <1>6, <1>7 DEF Linked
<1> QED BY <1>8 DEF r

--------------------------------------------------------------------------
(* The blocks of an array of n, those in use in the order of their keys.   *)
PriBlocks(key, h, f, u, n) ==
  /\ n \in Nat /\ u <= n
  /\ Blocks(h, f, u)
  /\ \A b \in ToSet(h) : key[b] \in Nat
  /\ SortedBy(key, h)

LEMMA PriEmpty ==
  ASSUME NEW key, NEW n \in Nat
  PROVE  PriBlocks(key, << >>, << >>, 0, n)
<1> DEFINE e == << >>
           z == 0
<1>1. QueueOf(e, {}) /\ Len(e) = 0 /\ z \in Nat /\ z <= n /\ 0..z-1 = {}
  BY QueueEmpty, EmptySeq
<1> HIDE DEF e
<1>2. ToSet(e) = {} /\ \A i \in 1..Len(e) : FALSE
  BY <1>1 DEF QueueOf
<1>3. Blocks(e, e, z)
  BY <1>1, <1>2 DEF Blocks
<1> HIDE DEF z
<1>4. PriBlocks(key, e, e, z, n)
  BY <1>1, <1>2, <1>3 DEF PriBlocks, SortedBy
<1> QED BY <1>4 DEF e, z

LEMMA PriTaken ==
  ASSUME NEW key, NEW h, NEW f, NEW u, NEW n, PriBlocks(key, h, f, u, n), Len(h) < n,
         NEW b, b = IF f # << >> THEN Head(f) ELSE u,
         NEW key2, key2[b] \in Nat, \A c \in ToSet(h) : key2[c] = key[c],
         NEW i, i = Place(key2, h, b)
  PROVE  LET h2 == PutAt(h, i, b)
         IN  /\ PriBlocks(key2, h2, IF f # << >> THEN Tail(f) ELSE f,
                          IF f # << >> THEN u ELSE u + 1, n)
             /\ Len(h2) = Len(h) + 1 /\ ToSet(h2) = ToSet(h) \cup {b}
<1> DEFINE A == ToSet(h)
           f2 == IF f # << >> THEN Tail(f) ELSE f
           u2 == IF f # << >> THEN u ELSE u + 1
           h2 == PutAt(h, i, b)
<1>1. /\ n \in Nat /\ u <= n /\ Blocks(h, f, u) /\ u \in Nat /\ QueueOf(h, A)
      /\ \A c \in A : key2[c] = key[c] /\ key2[c] \in Nat
      /\ SortedBy(key, h)
  BY DEF PriBlocks, Blocks
<1>2. b \notin A /\ (f = << >> => Len(h) = u)
  BY <1>1, BlockFree
<1> HIDE DEF A
<1>3. \A j \in 1..Len(h) : h[j] \in A
  BY <1>1, QueueIndex
<1>4. SortedBy(key2, h) /\ \A c \in A \cup {b} : key2[c] \in Int
  BY <1>1, <1>3 DEF SortedBy
<1>5. QueueOf(h2, A \cup {b}) /\ Len(h2) = Len(h) + 1 /\ SortedBy(key2, h2)
  <2>1. /\ QueueOf(h, A) /\ SortedBy(key2, h) /\ b \notin A
        /\ \A c \in A \cup {b} : key2[c] \in Int
        /\ i = Place(key2, h, b)
    BY <1>1, <1>2, <1>4
  <2> HIDE DEF f2, u2, h2
  <2>2. h2 = PutAt(h, i, b)
    BY DEF h2
  <2> DEFINE T == A \cup {b}
  <2>3. QueueOf(PutAt(h, i, b), T) /\ Len(PutAt(h, i, b)) = Len(h) + 1
        /\ SortedBy(key2, PutAt(h, i, b))
    BY ONLY <2>1, InsertByKey
  <2> QED BY <2>2, <2>3
<1> HIDE DEF h2
<1>6. ToSet(h2) = A \cup {b}
  BY <1>5 DEF QueueOf
<1>7. Blocks(h2, f2, u2)
  BY <1>1, <1>5, BlockTaken DEF A
<1>8. u2 <= n
  BY <1>1, <1>2
<1>9. \A c \in ToSet(h2) : key2[c] \in Nat
  BY <1>1, <1>6
<1>10. PriBlocks(key2, h2, f2, u2, n)
  <2> HIDE DEF f2, u2
  <2> QED BY <1>1, <1>5, <1>7, <1>8, <1>9 DEF PriBlocks
<1> QED BY <1>5, <1>6, <1>10 DEF A, h2

LEMMA PriReturned ==
  ASSUME NEW key, NEW h, NEW f, NEW u, NEW n, PriBlocks(key, h, f, u, n), h # << >>,
         NEW key2, \A c \in ToSet(h) \ {Head(h)} : key2[c] = key[c]
  PROVE  /\ PriBlocks(key2, Tail(h), Cons(Head(h), f), u, n)
         /\ Len(Tail(h)) = Len(h) - 1 /\ ToSet(Tail(h)) = ToSet(h) \ {Head(h)}
         /\ Head(h) \in ToSet(h)
<1> DEFINE A == ToSet(h)
           b == Head(h)
           h2 == Tail(h)
           f2 == Cons(b, f)
<1>1. /\ n \in Nat /\ u <= n /\ Blocks(h, f, u) /\ QueueOf(h, A)
      /\ \A c \in A : key[c] \in Nat
      /\ SortedBy(key, h)
  BY DEF PriBlocks, Blocks
<1>2. Blocks(h2, f2, u) /\ ToSet(h2) = A \ {b} /\ b \in A /\ Removed(h, h2, 1)
  BY <1>1, BlockReturned
<1>3. \A c \in ToSet(h2) : key2[c] = key[c] /\ key2[c] \in Nat
  BY <1>1, <1>2
<1>4. QueueOf(h2, ToSet(h2))
  BY <1>2 DEF Blocks
<1> HIDE DEF A, b, h2, f2
<1>5. /\ Len(h) \in Nat /\ Len(h2) = Len(h) - 1
      /\ \A j \in 1..Len(h2) : h2[j] = h[j + 1] /\ h2[j] \in ToSet(h2)
  BY <1>1, <1>2, <1>4, QueueIndex DEF Removed
<1>6. SortedBy(key2, h2)
  <2>1. ASSUME NEW i \in 1..Len(h2), NEW j \in 1..Len(h2), i < j
        PROVE  key2[h2[i]] <= key2[h2[j]]
    <3>1. i + 1 \in 1..Len(h) /\ j + 1 \in 1..Len(h) /\ i + 1 < j + 1
      BY <1>5, <2>1
    <3>2. key[h[i + 1]] <= key[h[j + 1]]
      BY <1>1, <3>1 DEF SortedBy
    <3> QED BY <1>3, <1>5, <3>2
  <2> QED BY <2>1 DEF SortedBy
<1>7. PriBlocks(key2, h2, f2, u, n)
  BY <1>1, <1>2, <1>3, <1>6 DEF PriBlocks
<1> QED BY <1>2, <1>5, <1>7 DEF A, b, h2, f2

--------------------------------------------------------------------------
(* A ring of n places that holds c elements from the place h to the place  *)
(* before t.                                                               *)
RingAt(n, c, h, t) ==
  /\ n \in Nat /\ c \in Nat /\ h \in Nat /\ t \in Nat /\ c <= n
  /\ IF n = 0 THEN h = 0 /\ t = 0
     ELSE h < n /\ t = IF h + c < n THEN h + c ELSE h + c - n

NextAt(n, i) == IF i + 1 >= n THEN 0 ELSE i + 1

LEMMA RingMoves ==
  ASSUME NEW n, NEW c, NEW h, NEW t, RingAt(n, c, h, t)
  PROVE  /\ c < n => RingAt(n, c + 1, h, NextAt(n, t))
         /\ c = n /\ n > 0 => RingAt(n, c, NextAt(n, t), NextAt(n, t))
         /\ c > 0 => RingAt(n, c - 1, NextAt(n, h), t)
BY DEF RingAt, NextAt

LEMMA RingEmpty ==
  ASSUME NEW n \in Nat
  PROVE  RingAt(n, 0, 0, 0)
BY DEF RingAt

LEMMA RingIndex ==
  ASSUME NEW n, NEW c, NEW h, NEW t, RingAt(n, c, h, t), n # 0
  PROVE  t = (h + c) % n
<1>1. n \in Nat /\ n > 0 /\ h + c \in Nat /\ h + c < 2 * n
  BY DEF RingAt
<1> DEFINE m == h + c
<1>2. t = IF m < n THEN m ELSE m - n
  BY DEF RingAt
<1> HIDE DEF m
<1>3. m \in Nat /\ m < 2 * n
  BY <1>1 DEF m
<1>4. m % n = IF m < n THEN m ELSE m - n
  BY <1>1, <1>3
<1> QED BY <1>2, <1>4 DEF m
(* What the ring holds, the oldest first.                                  *)
RingPlace(n, h, i) == (h + i - 1) % n

RingSeq(n, c, h, mb) == [i \in 1..c |-> mb[RingPlace(n, h, i)]]

LEMMA WrapAround ==
  ASSUME NEW n \in Nat, n > 0, NEW m \in Nat, m < 2 * n
  PROVE  m % n = IF m < n THEN m ELSE m - n
OBVIOUS

LEMMA RingPlaces ==
  ASSUME NEW n, NEW c, NEW h, NEW t, RingAt(n, c, h, t), NEW i \in 1..c,
         NEW m, m = h + i - 1
  PROVE  /\ n \in Nat /\ n > 0 /\ m \in Nat /\ h \in Nat /\ h < n /\ c \in Nat /\ c <= n
         /\ m % n = IF m < n THEN m ELSE m - n
<1>1. /\ n \in Nat /\ n > 0 /\ m \in Nat /\ m < 2 * n
      /\ h \in Nat /\ h < n /\ c \in Nat /\ c <= n
  BY DEF RingAt
<1>2. m % n = IF m < n THEN m ELSE m - n
  BY ONLY <1>1, WrapAround
<1> QED BY <1>1, <1>2

LEMMA RingSeqOf ==
  ASSUME NEW n, NEW c \in Nat, NEW h, NEW mb
  PROVE  /\ Len(RingSeq(n, c, h, mb)) = c
         /\ \A i \in 1..c : RingSeq(n, c, h, mb)[i] = mb[RingPlace(n, h, i)]
         /\ c = 0 => RingSeq(n, c, h, mb) = << >>
<1> DEFINE a(i) == mb[RingPlace(n, h, i)]
           r == [i \in 1..c |-> a(i)]
<1>1. /\ \A i \in 1..c : r[i] = a(i)
      /\ Len(r) = c
      /\ c = 0 => r = << >>
  OBVIOUS
<1>2. r = RingSeq(n, c, h, mb)
  BY DEF RingSeq
<1> HIDE DEF r
<1> QED BY <1>1, <1>2

LEMMA RingSeqIn ==
  ASSUME NEW n, NEW c \in Nat, NEW h, NEW mb, NEW S,
         \A i \in 1..c : mb[RingPlace(n, h, i)] \in S
  PROVE  RingSeq(n, c, h, mb) \in Seq(S)
<1> DEFINE a(i) == mb[RingPlace(n, h, i)]
           r == [i \in 1..c |-> a(i)]
<1>1. r \in Seq(S)
  OBVIOUS
<1> QED BY <1>1 DEF RingSeq

(* Two elements behind each other are in different places.                 *)
LEMMA RingIn ==
  ASSUME NEW n, NEW c, NEW h, NEW t, RingAt(n, c, h, t), n > 0
  PROVE  /\ \A i \in 1..c : RingPlace(n, h, i) \in 0..n-1
         /\ c < n => \A i \in 1..c : RingPlace(n, h, i) # t
         /\ c > 0 => RingPlace(n, h, 1) = h
         /\ c < n => RingPlace(n, h, c + 1) = t
         /\ c > 0 => \A i \in 1..c-1 : RingPlace(n, NextAt(n, h), i) = RingPlace(n, h, i + 1)
<1>1. n \in Nat /\ c \in Nat /\ h \in Nat /\ t \in Nat /\ c <= n /\ h < n
      /\ t = IF h + c < n THEN h + c ELSE h + c - n
  BY DEF RingAt
<1>2. ASSUME NEW i \in 1..c
      PROVE  /\ RingPlace(n, h, i) \in 0..n-1
             /\ c < n => RingPlace(n, h, i) # t
  <2> DEFINE m == h + i - 1
             r == m % n
  <2>1. m = h + i - 1
    OBVIOUS
  <2> HIDE DEF m
  <2>2. m \in Nat /\ r = IF m < n THEN m ELSE m - n
    BY <2>1, RingPlaces
  <2> HIDE DEF r
  <2>3. r \in 0..n-1 /\ (c < n => r # t)
    BY <1>1, <2>1, <2>2
  <2> QED BY <2>3 DEF m, r, RingPlace
<1>3. RingPlace(n, h, 1) = h
  <2>1. h + 1 - 1 = h
    BY <1>1
  <2>2. h % n = h
    BY ONLY <1>1, n > 0, WrapAround
  <2> QED BY <2>1, <2>2 DEF RingPlace
<1>4. ASSUME c < n PROVE RingPlace(n, h, c + 1) = t
  <2> DEFINE m == h + (c + 1) - 1
  <2>1. m = h + c
    BY <1>1
  <2> HIDE DEF m
  <2>2. m \in Nat /\ m < 2 * n
    BY <1>1, <1>4, <2>1
  <2>3. m % n = IF m < n THEN m ELSE m - n
    BY ONLY <1>1, <2>2, n > 0, WrapAround
  <2>4. m % n = t
    BY ONLY <1>1, <2>1, <2>3
  <2> QED BY <2>4 DEF m, RingPlace
<1>5. ASSUME c > 0, NEW i \in 1..c-1
      PROVE  RingPlace(n, NextAt(n, h), i) = RingPlace(n, h, i + 1)
  <2> DEFINE m  == h + (i + 1) - 1
             m2 == NextAt(n, h) + i - 1
  <2>1. /\ m = h + i /\ m \in Nat /\ m < 2 * n
        /\ m2 = IF h + 1 >= n THEN i - 1 ELSE h + i
        /\ m2 \in Nat /\ m2 < 2 * n
    BY <1>1, <1>5 DEF NextAt
  <2> HIDE DEF m, m2
  <2>2. /\ m % n = IF m < n THEN m ELSE m - n
        /\ m2 % n = IF m2 < n THEN m2 ELSE m2 - n
    BY ONLY <1>1, <2>1, n > 0, WrapAround
  <2>3. h + 1 >= n => m = i - 1 + n /\ m2 = i - 1 /\ i - 1 < n
    BY <1>1, <1>5, <2>1
  <2> DEFINE r == m % n
             r2 == m2 % n
  <2> HIDE DEF r, r2
  <2>4. /\ r = IF m < n THEN m ELSE m - n
        /\ r2 = IF m2 < n THEN m2 ELSE m2 - n
    BY <2>2 DEF r, r2
  <2>5. r2 = r
    BY <1>1, <1>5, <2>1, <2>3, <2>4
  <2> QED BY <2>5 DEF r, r2, m, m2, RingPlace
<1> QED BY <1>2, <1>3, <1>4, <1>5

PutIn(n, t, mb, mb2, d) == mb2[t] = d /\ \A j \in 0..n-1 : j # t => mb2[j] = mb[j]

LEMMA RingPut ==
  ASSUME NEW n, NEW c, NEW h, NEW t, RingAt(n, c, h, t), c < n,
         NEW mb, NEW mb2, NEW d, PutIn(n, t, mb, mb2, d)
  PROVE  RingSeq(n, c + 1, h, mb2) = Append(RingSeq(n, c, h, mb), d)
<1> DEFINE at(i) == RingPlace(n, h, i)
           q  == RingSeq(n, c, h, mb)
           q2 == RingSeq(n, c + 1, h, mb2)
           D == {mb[at(i)] : i \in 1..c} \cup {d}
<1>1. n \in Nat /\ n > 0 /\ c \in Nat /\ c + 1 \in Nat
  BY DEF RingAt
<1>2. /\ \A i \in 1..c : at(i) \in 0..n-1 /\ at(i) # t
      /\ at(c + 1) = t
  BY <1>1, RingIn
<1>3. /\ Len(q) = c /\ Len(q2) = c + 1
      /\ \A i \in 1..c : q[i] = mb[at(i)]
      /\ \A i \in 1..c+1 : q2[i] = mb2[at(i)]
  <2>1. /\ Len(q) = c
        /\ \A i \in 1..c : q[i] = mb[RingPlace(n, h, i)]
    BY <1>1, RingSeqOf
  <2>2. /\ Len(q2) = c + 1
        /\ \A i \in 1..c+1 : q2[i] = mb2[RingPlace(n, h, i)]
    BY <1>1, RingSeqOf
  <2> QED BY <2>1, <2>2
<1>4. /\ \A i \in 1..c : mb2[at(i)] = mb[at(i)] /\ mb[at(i)] \in D
      /\ mb2[at(c + 1)] = d /\ d \in D
  <2> HIDE DEF at
  <2> QED BY <1>2 DEF PutIn
<1>5. \A i \in 1..c+1 : mb2[at(i)] \in D
  <2> HIDE DEF at, D
  <2> QED BY <1>1, <1>4
<1>6. q \in Seq(D)
  <2>1. \A i \in 1..c : mb[RingPlace(n, h, i)] \in D
    BY <1>4
  <2> HIDE DEF D
  <2> QED BY <1>1, <2>1, RingSeqIn
<1>7. q2 \in Seq(D)
  <2>1. \A i \in 1..c+1 : mb2[RingPlace(n, h, i)] \in D
    BY <1>5
  <2> HIDE DEF D
  <2> QED BY <1>1, <2>1, RingSeqIn
<1> HIDE DEF at, q, q2, D
<1> DEFINE a == Append(q, d)
<1>8. /\ a \in Seq(D) /\ Len(a) = c + 1
      /\ \A i \in 1..c : a[i] = q[i]
      /\ a[c + 1] = d
  BY <1>3, <1>4, <1>6, AppendProperties
<1> HIDE DEF a
<1>9. \A i \in 1..c+1 : q2[i] = a[i]
  BY <1>1, <1>3, <1>4, <1>8
<1>10. q2 = a
  BY <1>3, <1>7, <1>8, <1>9, SeqEqual
<1> QED BY <1>10 DEF a, q, q2

LEMMA RingTake ==
  ASSUME NEW n, NEW c, NEW h, NEW t, RingAt(n, c, h, t), c > 0, NEW mb
  PROVE  /\ RingSeq(n, c, h, mb) # << >>
         /\ Head(RingSeq(n, c, h, mb)) = mb[h]
         /\ Tail(RingSeq(n, c, h, mb)) = RingSeq(n, c - 1, NextAt(n, h), mb)
<1> DEFINE at(i) == RingPlace(n, h, i)
           h2 == NextAt(n, h)
           at2(i) == RingPlace(n, h2, i)
           q  == RingSeq(n, c, h, mb)
           q2 == RingSeq(n, c - 1, h2, mb)
           D == {mb[at(i)] : i \in 1..c}
<1>1. n \in Nat /\ n > 0 /\ c \in Nat /\ c - 1 \in Nat
  BY DEF RingAt
<1>2. at(1) = h /\ \A i \in 1..c-1 : at2(i) = at(i + 1)
  <2>1. /\ RingPlace(n, h, 1) = h
        /\ \A i \in 1..c-1 : RingPlace(n, NextAt(n, h), i) = RingPlace(n, h, i + 1)
    BY <1>1, RingIn
  <2> QED BY <2>1
<1>3. /\ Len(q) = c
      /\ \A i \in 1..c : q[i] = mb[at(i)]
  <2>1. /\ Len(q) = c
        /\ \A i \in 1..c : q[i] = mb[RingPlace(n, h, i)]
    BY <1>1, RingSeqOf
  <2> QED BY <2>1
<1>4. /\ Len(q2) = c - 1
      /\ \A i \in 1..c-1 : q2[i] = mb[at2(i)]
  <2> DEFINE c2 == c - 1
  <2> HIDE DEF h2, c2
  <2>1. /\ Len(RingSeq(n, c2, h2, mb)) = c2
        /\ \A i \in 1..c2 : RingSeq(n, c2, h2, mb)[i] = mb[RingPlace(n, h2, i)]
    <3>1. c2 \in Nat
      BY <1>1 DEF c2
    <3> QED BY <3>1, RingSeqOf
  <2> QED BY <2>1 DEF c2
<1>5. /\ \A i \in 1..c : mb[at(i)] \in D
      /\ \A i \in 1..c-1 : mb[at2(i)] = mb[at(i + 1)]
  BY <1>2
<1>6. \A i \in 1..c-1 : mb[at2(i)] \in D
  <2>1. \A i \in 1..c-1 : i + 1 \in 1..c
    BY <1>1
  <2> HIDE DEF at, at2, D
  <2> QED BY <1>5, <2>1
<1>7. q \in Seq(D)
  <2>1. \A i \in 1..c : mb[RingPlace(n, h, i)] \in D
    BY <1>5
  <2> HIDE DEF D
  <2> QED BY <1>1, <2>1, RingSeqIn
<1>8. q2 \in Seq(D)
  <2> DEFINE c2 == c - 1
  <2>1. \A i \in 1..c2 : mb[RingPlace(n, h2, i)] \in D
    BY <1>6
  <2>2. c2 \in Nat
    BY <1>1
  <2> HIDE DEF D, h2, c2
  <2>3. RingSeq(n, c2, h2, mb) \in Seq(D)
    BY <2>1, <2>2, RingSeqIn
  <2> QED BY <2>3 DEF c2
<1> HIDE DEF at, at2, q, q2, D, h2
<1>9. q # << >>
  BY <1>1, <1>3
<1> DEFINE r == Tail(q)
<1>10. /\ r \in Seq(D) /\ Len(r) = c - 1 /\ \A i \in 1..c-1 : r[i] = q[i + 1]
  BY <1>3, <1>7, <1>9, HeadTailProperties
<1> HIDE DEF r
<1>11. \A i \in 1..c-1 : r[i] = q2[i]
  <2>1. \A i \in 1..c-1 : i + 1 \in 1..c
    BY <1>1
  <2> QED BY <1>3, <1>4, <1>5, <1>10, <2>1
<1>12. r = q2
  BY <1>1, <1>4, <1>8, <1>10, <1>11, SeqEqual
<1>13. Head(q) = mb[h]
  <2>1. Head(q) = q[1]
    BY <1>7, <1>9
  <2>2. 1 \in 1..c
    BY <1>1
  <2> QED BY <1>2, <1>3, <2>1, <2>2
<1> QED BY <1>9, <1>12, <1>13 DEF r, q, q2, h2

(* A pool of at most mx blocks, whose free blocks are in a list linked     *)
(* through nx, which marks the others; those from u on were never taken.   *)
Marks(mx, nil, alloc) ==
  mx \in Nat /\ nil # alloc /\ \A b \in 0..mx : b # nil /\ b # alloc

Link(mx, nil, alloc) == 0..mx \cup {nil, alloc}

PoolAt(mx, nil, alloc, n, fb, u, fl, nx, hd, list) ==
  /\ n \in 0..mx /\ u \in 0..n
  /\ nx \in [0..mx-1 -> Link(mx, nil, alloc)]
  /\ hd = {b \in 0..u-1 : nx[b] = alloc}
  /\ QueueOf(list, (0..u-1) \ hd)
  /\ fb = n - u + Len(list)
  /\ Linked(list, fl, nx, nil)

LEMMA PoolFull ==
  ASSUME NEW mx, NEW nil, NEW alloc, Marks(mx, nil, alloc),
         NEW n \in 0..mx, NEW nx \in [0..mx-1 -> Link(mx, nil, alloc)]
  PROVE  PoolAt(mx, nil, alloc, n, n, 0, nil, nx, {}, << >>)
<1>0. /\ mx \in Nat /\ nil # alloc
      /\ nil \in Link(mx, nil, alloc) /\ alloc \in Link(mx, nil, alloc)
      /\ \A b \in 0..mx : b \in Link(mx, nil, alloc) /\ b # nil /\ b # alloc
  BY DEF Marks, Link
<1> DEFINE e == << >>
           z == 0
           hd == {}
<1>1. QueueOf(e, {}) /\ Len(e) = 0 /\ Linked(e, nil, nx, nil)
  BY QueueEmpty, EmptySeq, LinkedEmpty
<1>2. n \in Nat /\ z \in 0..n /\ n = n - z + 0 /\ 0..z-1 = {}
  BY <1>0
<1>3. hd = {b \in 0..z-1 : nx[b] = alloc} /\ (0..z-1) \ hd = {}
  BY <1>2
<1> HIDE DEF e, z, hd
<1>4. PoolAt(mx, nil, alloc, n, n, z, nil, nx, hd, e)
  BY <1>1, <1>2, <1>3 DEF PoolAt
<1> QED BY <1>4 DEF e, z, hd

(* The block that is taken is the first of the list, or the next untouched.*)
FreeBlock(nil, u, fl) == IF fl # nil THEN fl ELSE u

PoolLess(mx, nil, alloc, n, fb, u, fl, nx, hd, blk) ==
  \E l : PoolAt(mx, nil, alloc, n, fb - 1, IF fl # nil THEN u ELSE u + 1,
               IF fl # nil THEN nx[fl] ELSE fl, [nx EXCEPT ![blk] = alloc], hd \cup {blk}, l)

LEMMA PoolGet ==
  ASSUME NEW mx, NEW nil, NEW alloc, Marks(mx, nil, alloc),
         NEW n, NEW fb, NEW u, NEW fl, NEW nx, NEW hd, NEW list,
         PoolAt(mx, nil, alloc, n, fb, u, fl, nx, hd, list), fb > 0,
         NEW blk, blk = FreeBlock(nil, u, fl)
  PROVE  PoolLess(mx, nil, alloc, n, fb, u, fl, nx, hd, blk)
<1> USE DEF FreeBlock, PoolLess
<1>0. /\ mx \in Nat /\ nil # alloc
      /\ nil \in Link(mx, nil, alloc) /\ alloc \in Link(mx, nil, alloc)
      /\ \A b \in 0..mx : b \in Link(mx, nil, alloc) /\ b # nil /\ b # alloc
  BY DEF Marks, Link
<1> DEFINE D == 0..mx-1
           F == (0..u-1) \ hd
           nx2 == [nx EXCEPT ![blk] = alloc]
           hd2 == hd \cup {blk}
<1>1. /\ n \in Nat /\ n <= mx /\ u \in Nat /\ u <= n
      /\ nx \in [D -> Link(mx, nil, alloc)]
      /\ \A b : b \in hd <=> b \in 0..u-1 /\ nx[b] = alloc
      /\ QueueOf(list, F)
      /\ fb = n - u + Len(list)
      /\ Linked(list, fl, nx, nil)
  BY <1>0 DEF PoolAt
<1>2. \A b : b \in F <=> b \in 0..u-1 /\ b \notin hd
  OBVIOUS
<1> HIDE DEF F
<1>3. nil \notin F
  BY <1>1, <1>2, <1>0
<1>4. /\ list = << >> <=> fl = nil
      /\ list # << >> =>
           /\ fl = Head(list) /\ fl \in F
           /\ \A m : (\A b \in F \ {fl} : m[b] = nx[b]) => Linked(Tail(list), nx[fl], m, nil)
  BY <1>1, <1>3, LinkedTaken
<1>5. Len(list) \in Nat
  BY <1>1, QueueIndex
<1>6. CASE fl # nil
  <2> DEFINE l == Tail(list)
  <2>1. fl \in F /\ blk = fl /\ list # << >> /\ fl = Head(list)
    BY <1>4, <1>6
  <2>2. blk \in D /\ \A b \in 0..u-1 : b \in D
    BY <1>1, <1>2, <2>1, <1>0
  <2>3. nx2 \in [D -> Link(mx, nil, alloc)] /\ nx2[blk] = alloc /\ \A b \in D : b # blk => nx2[b] = nx[b]
    <3> HIDE DEF D
    <3> QED BY <1>1, <2>2, <1>0
  <2> HIDE DEF nx2
  <2>4. hd2 = {b \in 0..u-1 : nx2[b] = alloc}
    BY <1>1, <1>2, <2>1, <2>2, <2>3
  <2>5. QueueOf(l, F \ {blk}) /\ Len(l) = Len(list) - 1
    BY <1>1, <2>1, QueueTail DEF Removed
  <2>6. F \ {blk} = (0..u-1) \ hd2
    BY <1>2, <2>1
  <2>7. Linked(l, nx[fl], nx2, nil)
    <3>1. \A b \in F \ {fl} : nx2[b] = nx[b]
      BY <1>1, <1>2, <2>1, <2>2, <2>3
    <3> HIDE DEF l
    <3> QED BY <1>4, <2>1, <3>1 DEF l
  <2> HIDE DEF l, hd2, D
  <2>8. fb - 1 = n - u + Len(l) /\ n \in 0..mx /\ u \in 0..n
    BY <1>1, <1>5, <2>5, <1>0
  <2>9. QueueOf(l, (0..u-1) \ hd2)
    BY <2>5, <2>6
  <2>10. PoolAt(mx, nil, alloc, n, fb - 1, u, nx[fl], nx2, hd2, l)
    BY <2>3, <2>4, <2>7, <2>8, <2>9 DEF PoolAt, D
  <2> QED BY <1>6, <2>10 DEF nx2, hd2
<1>7. CASE fl = nil
  <2> DEFINE u2 == u + 1
  <2>1. blk = u /\ list = << >> /\ Len(list) = 0
    BY <1>4, <1>7, EmptySeq
  <2>2. u < n /\ u2 \in 0..n /\ fb - 1 = n - u2 + Len(list) /\ n \in 0..mx
    BY <1>1, <2>1, <1>0
  <2>3. blk \in D /\ blk \notin 0..u-1 /\ \A b : b \in 0..u2-1 <=> b \in 0..u-1 \/ b = blk
    BY <1>1, <2>1, <2>2, <1>0
  <2>4. nx2 \in [D -> Link(mx, nil, alloc)] /\ nx2[blk] = alloc /\ \A b \in D : b # blk => nx2[b] = nx[b]
    <3> HIDE DEF D
    <3> QED BY <1>1, <2>3, <1>0
  <2>5. \A b \in 0..u-1 : b \in D
    BY <1>1, <1>0
  <2> HIDE DEF nx2, u2
  <2>6. hd2 = {b \in 0..u2-1 : nx2[b] = alloc}
    BY <1>1, <2>3, <2>4, <2>5
  <2>7. (0..u2-1) \ hd2 = F
    BY <1>2, <2>3
  <2>8. Linked(list, fl, nx2, nil)
    BY <1>7, <2>1, LinkedEmpty
  <2> HIDE DEF hd2, D
  <2>9. PoolAt(mx, nil, alloc, n, fb - 1, u2, fl, nx2, hd2, list)
    BY <1>1, <2>2, <2>4, <2>6, <2>7, <2>8 DEF PoolAt, D
  <2> QED BY <1>7, <2>9 DEF nx2, hd2, u2
<1> QED BY <1>6, <1>7

LEMMA PoolReturn ==
  ASSUME NEW mx, NEW nil, NEW alloc, Marks(mx, nil, alloc),
         NEW n, NEW fb, NEW u, NEW fl, NEW nx, NEW hd, NEW list,
         PoolAt(mx, nil, alloc, n, fb, u, fl, nx, hd, list),
         NEW blk \in 0..mx-1, blk < u, nx[blk] = alloc
  PROVE  \E l : PoolAt(mx, nil, alloc, n, fb + 1, u, blk, [nx EXCEPT ![blk] = fl], hd \ {blk}, l)
<1>0. /\ mx \in Nat /\ nil # alloc
      /\ nil \in Link(mx, nil, alloc) /\ alloc \in Link(mx, nil, alloc)
      /\ \A b \in 0..mx : b \in Link(mx, nil, alloc) /\ b # nil /\ b # alloc
  BY DEF Marks, Link
<1> DEFINE D == 0..mx-1
           F == (0..u-1) \ hd
           nx2 == [nx EXCEPT ![blk] = fl]
           hd2 == hd \ {blk}
           l == Cons(blk, list)
<1>1. /\ n \in Nat /\ n <= mx /\ u \in Nat /\ u <= n
      /\ nx \in [D -> Link(mx, nil, alloc)]
      /\ \A b : b \in hd <=> b \in 0..u-1 /\ nx[b] = alloc
      /\ QueueOf(list, F)
      /\ fb = n - u + Len(list)
      /\ Linked(list, fl, nx, nil)
  BY <1>0 DEF PoolAt
<1>2. \A b : b \in F <=> b \in 0..u-1 /\ b \notin hd
  OBVIOUS
<1> HIDE DEF F
<1>3. blk \in 0..u-1 /\ blk \in hd /\ blk \notin F
  BY <1>1, <1>2
<1>4. nil \notin F /\ fl \in Link(mx, nil, alloc) /\ fl # alloc
  <2>1. nil \notin F
    BY <1>1, <1>2, <1>0
  <2>2. fl = nil \/ fl \in F
    BY <1>1, <2>1, LinkedTaken
  <2> QED BY <1>1, <1>2, <2>1, <2>2, <1>0
<1>5. /\ nx2 \in [D -> Link(mx, nil, alloc)] /\ nx2[blk] = fl
      /\ \A b \in D : b # blk => nx2[b] = nx[b]
  <2> HIDE DEF D
  <2>1. blk \in D
    BY DEF D
  <2> QED BY <1>1, <1>4, <2>1
<1> HIDE DEF nx2
<1>6. \A b \in 0..u-1 : b \in D
  BY <1>1, <1>0
<1>7. hd2 = {b \in 0..u-1 : nx2[b] = alloc}
  BY <1>1, <1>3, <1>4, <1>5, <1>6
<1>8. F \cup {blk} = (0..u-1) \ hd2
  BY <1>2, <1>3
<1>9. QueueOf(l, F \cup {blk}) /\ Len(l) = Len(list) + 1
  <2>1. QueueOf(l, F \cup {blk}) /\ Inserted(list, l, 1, blk)
    BY <1>1, <1>3, QueueCons
  <2> HIDE DEF l
  <2> QED BY <2>1 DEF Inserted
<1>10. Linked(l, blk, nx2, nil)
  <2>1. \A b \in F : nx2[b] = nx[b]
    BY <1>2, <1>3, <1>5, <1>6
  <2> QED BY <1>1, <1>3, <1>5, <2>1, LinkedReturned
<1> HIDE DEF l, hd2, D
<1>11. Len(list) \in Nat
  BY <1>1, QueueIndex
<1>12. fb + 1 = n - u + Len(l) /\ n \in 0..mx /\ u \in 0..n
  BY <1>1, <1>9, <1>11, <1>0
<1>13. QueueOf(l, (0..u-1) \ hd2)
  BY <1>8, <1>9
<1>14. PoolAt(mx, nil, alloc, n, fb + 1, u, blk, nx2, hd2, l)
  BY <1>5, <1>7, <1>10, <1>12, <1>13 DEF PoolAt, D
<1> QED BY <1>14 DEF nx2, hd2

(* A queue is as long as its set is large, which is finite.                *)
LEMMA QueueSize ==
  ASSUME NEW S, NEW q, QueueOf(q, S)
  PROVE  /\ IsFiniteSet(S) /\ Cardinality(S) = Len(q) /\ Len(q) \in Nat
         /\ q \in SetToSeqs(S)
<1> DEFINE n == Len(q)
           D == 1..n
<1>1. /\ n \in Nat /\ q \in Seq(S) /\ DOMAIN q = D
      /\ \A i \in D : q[i] \in S
      /\ \A x \in S : \E i \in D : q[i] = x
      /\ \A i, j \in D : q[i] = q[j] => i = j
  BY QueueIndex DEF QueueOf
<1>2. q \in [D -> S]
  BY <1>1, LenProperties
<1>3. IsFiniteSet(D) /\ Cardinality(D) = n
  <2> DEFINE one == 1
  <2>1. one \in Int /\ n \in Int
    BY <1>1
  <2> HIDE DEF one, n
  <2>2. IsFiniteSet(one..n) /\ Cardinality(one..n) = IF one > n THEN 0 ELSE n - one + 1
    BY <2>1, FS_Interval
  <2>3. n \in Nat
    BY <1>1 DEF n
  <2>4. (IF one > n THEN 0 ELSE n - one + 1) = n
    BY <2>3 DEF one
  <2> QED BY <2>2, <2>4 DEF one
<1> HIDE DEF n, D
<1>4. q \in Bijection(D, S)
  BY <1>1, <1>2 DEF Bijection, Injection, Surjection, IsInjective
<1>5. ExistsBijection(D, S)
  BY <1>4 DEF ExistsBijection
<1>6. IsFiniteSet(S) /\ Cardinality(S) = n
  BY <1>3, <1>5, FS_Bijection
<1>7. q \in SetToSeqs(S)
  BY <1>1, <1>2, <1>6 DEF SetToSeqs, D
<1> QED BY <1>1, <1>6, <1>7 DEF n

(* What this says of a pool by itself.                                     *)
PoolFits(nil, n, fb, u, fl, nx, hd, list) ==
  /\ u \in 0..n /\ hd \subseteq 0..u-1
  /\ fb = n - Cardinality(hd)
  /\ list \in SetToSeqs((0..u-1) \ hd)
  /\ fl = Append(list, nil)[1]
  /\ \A i \in DOMAIN list : nx[list[i]] = Append(list, nil)[i + 1]

LEMMA PoolOK ==
  ASSUME NEW mx, NEW nil, NEW alloc, Marks(mx, nil, alloc),
         NEW n, NEW fb, NEW u, NEW fl, NEW nx, NEW hd, NEW list,
         PoolAt(mx, nil, alloc, n, fb, u, fl, nx, hd, list)
  PROVE  PoolFits(nil, n, fb, u, fl, nx, hd, list)
<1>0. /\ mx \in Nat /\ nil # alloc
      /\ nil \in Link(mx, nil, alloc) /\ alloc \in Link(mx, nil, alloc)
      /\ \A b \in 0..mx : b \in Link(mx, nil, alloc) /\ b # nil /\ b # alloc
  BY DEF Marks, Link
<1> DEFINE U == 0..u-1
           F == U \ hd
           c == Append(list, nil)
           m == Len(list)
<1>1. /\ n \in Nat /\ u \in Nat /\ u \in 0..n /\ hd \subseteq U
      /\ QueueOf(list, F)
      /\ fb = n - u + Len(list)
      /\ Linked(list, fl, nx, nil)
  BY <1>0 DEF PoolAt
<1>2. IsFiniteSet(F) /\ Cardinality(F) = m /\ m \in Nat /\ list \in SetToSeqs(F)
  <2> HIDE DEF F
  <2> QED BY <1>1, QueueSize
<1>3. IsFiniteSet(U) /\ Cardinality(U) = u
  <2> DEFINE z == 0
             v == u - 1
  <2>1. z \in Int /\ v \in Int
    BY <1>1
  <2>2. (IF z > v THEN 0 ELSE v - z + 1) = u
    BY <1>1
  <2> HIDE DEF z, v
  <2>3. IsFiniteSet(z..v) /\ Cardinality(z..v) = IF z > v THEN 0 ELSE v - z + 1
    BY <2>1, FS_Interval
  <2> QED BY <2>2, <2>3 DEF z, v
<1>4. fb = n - Cardinality(hd)
  <2> DEFINE a == Cardinality(hd)
  <2> HIDE DEF U
  <2>1. IsFiniteSet(hd) /\ U \cap hd = hd
    BY <1>1, <1>3, FS_Subset
  <2>2. a \in Nat /\ Cardinality(F) = Cardinality(U) - Cardinality(U \cap hd)
    BY <1>3, <2>1, FS_Difference, FS_CardinalityType
  <2>3. m = u - a
    BY <1>2, <1>3, <2>1, <2>2
  <2>4. fb = n - u + m
    BY <1>1
  <2> HIDE DEF a, m
  <2>5. fb = n - a
    BY <1>1, <1>2, <2>2, <2>3, <2>4
  <2> QED BY <2>5 DEF a
<1>5. \A i \in 1..m + 1 : c[i] = LinkOf(list, i, nil)
  <2>1. list \in Seq(F)
    BY <1>1 DEF QueueOf
  <2> DEFINE T == F \cup {nil}
  <2>2. list \in Seq(T) /\ nil \in T
    BY <2>1
  <2> HIDE DEF T
  <2> QED BY <1>2, <2>2, AppendProperties DEF LinkOf
<1>6. DOMAIN list = 1..m /\ \A i \in 1..m : i + 1 \in 1..m + 1
  <2>1. DOMAIN list = 1..m
    BY <1>1, QueueIndex
  <2> QED BY <1>2, <2>1
<1>7. 1 \in 1..m + 1
  BY <1>2
<1> HIDE DEF c, m
<1>8. /\ fl = c[1]
      /\ \A i \in 1..m : nx[list[i]] = c[i + 1]
  BY <1>1, <1>5, <1>6, <1>7 DEF Linked, m
<1> QED BY <1>1, <1>2, <1>4, <1>6, <1>8 DEF c, PoolFits

(* Seven names of seven things.                                            *)
Seven(a, b, c, d, e, f, g) == Cardinality({a, b, c, d, e, f, g}) = 7

LEMMA SevenDistinct ==
  ASSUME NEW a, NEW b, NEW c, NEW d, NEW e, NEW f, NEW g,
         Seven(a, b, c, d, e, f, g)
  PROVE  /\ a \notin {b, c, d, e, f, g}
         /\ b \notin {c, d, e, f, g}
         /\ c \notin {d, e, f, g}
         /\ d \notin {f, g}
         /\ e \notin {f, g}
<1> DEFINE C1 == {f, g}
           C2 == C1 \cup {e}
           C3 == C2 \cup {d}
           C4 == C3 \cup {c}
           C5 == C4 \cup {b}
           C6 == C5 \cup {a}
           D1 == {f}
<1>1. C6 = {a, b, c, d, e, f, g}
      /\ C1 = D1 \cup {g}
  OBVIOUS
<1>2. IsFiniteSet(D1) /\ Cardinality(D1) = 1
  BY FS_Singleton
<1>3. Cardinality(C6) = 7
  BY <1>1 DEF Seven
<1> HIDE DEF D1
<1>4. IsFiniteSet(C1) /\ Cardinality(C1) \in {1, 2}
  <2>1. IsFiniteSet(D1 \cup {g}) /\ Cardinality(D1 \cup {g}) \in {1, 2}
    BY <1>2, FS_AddElement
  <2> QED BY <1>1, <2>1
<1>5. ASSUME NEW S, NEW x, IsFiniteSet(S), NEW n \in Nat, Cardinality(S) <= n,
             Cardinality(S) \in Nat
      PROVE  /\ IsFiniteSet(S \cup {x}) /\ Cardinality(S \cup {x}) \in Nat
             /\ Cardinality(S \cup {x}) <= n + 1
             /\ x \in S => Cardinality(S \cup {x}) <= n
  <2> DEFINE m1 == Cardinality(S)
             m2 == Cardinality(S \cup {x})
  <2>1. IsFiniteSet(S \cup {x}) /\ m2 = IF x \in S THEN m1 ELSE m1 + 1
    BY <1>5, FS_AddElement
  <2>2. m1 \in Nat /\ m1 <= n
    BY <1>5
  <2> HIDE DEF m1, m2
  <2>3. m2 \in Nat /\ m2 <= n + 1 /\ (x \in S => m2 <= n)
    BY <2>1, <2>2
  <2> QED BY <2>1, <2>3 DEF m2
<1> DEFINE Few(S, n) == IsFiniteSet(S) /\ Cardinality(S) \in Nat /\ Cardinality(S) <= n
<1>6. ASSUME NEW S, NEW x, NEW n \in Nat, Few(S, n)
      PROVE  Few(S \cup {x}, n + 1) /\ (x \in S => Few(S \cup {x}, n))
  BY <1>5, <1>6
<1>7. Few(C1, 2)
  BY <1>4
<1>8. ~Few(C6, 6)
  BY <1>3
<1> HIDE DEF Few
<1> HIDE DEF C1
<1>9. ASSUME NEW S, NEW x, NEW n \in Nat, NEW m \in Nat, m = n + 1
      PROVE  /\ Few(S, n) => Few(S \cup {x}, m)
             /\ ~Few(S \cup {x}, m) => ~Few(S, n)
  BY <1>6, <1>9
<1>10. /\ Few(C2, 3) /\ Few(C3, 4) /\ Few(C4, 5) /\ Few(C5, 6)
       /\ ~Few(C5, 5) /\ ~Few(C4, 4) /\ ~Few(C3, 3) /\ ~Few(C2, 2)
  <2> DEFINE n2 == 2
             n3 == 3
             n4 == 4
             n5 == 5
             n6 == 6
  <2>1. /\ n2 \in Nat /\ n3 \in Nat /\ n4 \in Nat /\ n5 \in Nat /\ n6 \in Nat
        /\ n6 = n5 + 1 /\ n5 = n4 + 1 /\ n4 = n3 + 1 /\ n3 = n2 + 1
        /\ Few(C1, n2) /\ ~Few(C6, n6)
    BY <1>7, <1>8
  <2> HIDE DEF n2, n3, n4, n5, n6
  <2>2. Few(C2, n3)
    BY <2>1, <1>9
  <2>3. Few(C3, n4)
    BY <2>1, <2>2, <1>9
  <2>4. Few(C4, n5)
    BY <2>1, <2>3, <1>9
  <2>5. Few(C5, n6)
    <3> HIDE DEF C4
    <3> QED BY <2>1, <2>4, <1>9
  <2>6. ~Few(C5, n5)
    <3> HIDE DEF C5
    <3> QED BY <2>1, <1>9
  <2>7. ~Few(C4, n4)
    <3> HIDE DEF C4
    <3> QED BY <2>1, <2>6, <1>9
  <2>8. ~Few(C3, n3)
    BY <2>1, <2>7, <1>9
  <2>9. ~Few(C2, n2)
    BY <2>1, <2>8, <1>9
  <2> QED BY <2>2, <2>3, <2>4, <2>5, <2>6, <2>7, <2>8, <2>9 DEF n2, n3, n4, n5, n6
<1>11. a \notin C5 /\ b \notin C4 /\ c \notin C3 /\ d \notin C2
       /\ e \notin C1
  <2>1. ASSUME NEW S, NEW x, NEW n \in Nat, Few(S, n), ~Few(S \cup {x}, n)
        PROVE  x \notin S
    BY <1>6, <2>1
  <2>2. a \notin C5
    <3> HIDE DEF C5
    <3> QED BY <2>1, <1>8, <1>10
  <2>3. b \notin C4
    <3> HIDE DEF C4
    <3> QED BY <2>1, <1>10
  <2>4. c \notin C3
    <3> HIDE DEF C3
    <3> QED BY <2>1, <1>10
  <2>5. d \notin C2
    <3> HIDE DEF C2
    <3> QED BY <2>1, <1>10
  <2>6. e \notin C1
    BY <2>1, <1>10, <1>7
  <2> QED BY <2>2, <2>3, <2>4, <2>5, <2>6
<1> QED BY <1>11 DEF C1
==========================================================================
