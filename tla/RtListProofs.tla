---------------------------- MODULE RtListProofs ----------------------------
(***************************************************************************)
(* What the list operations of RtList do to the set of linked nodes.  The  *)
(* proofs about the kernel modules use the lists through these facts only: *)
(* who is linked, whether anybody is linked twice, whether a list is empty.*)
(***************************************************************************)
EXTENDS RtList, SequenceTheorems, WellFoundedInduction, TLAPS

\* Every non-empty set of naturals has a least element.
LEMMA Least ==
  ASSUME NEW I, I \subseteq Nat, I # {}
  PROVE  \E m \in I : \A i \in I : m <= i
<1> DEFINE R == OpToRel(<, Nat)
<1>1. IsWellFoundedOn(R, Nat)
  BY NatLessThanWellFounded
<1>2. \A x, y \in Nat : x < y => <<x, y>> \in R
  BY DEF OpToRel
<1> HIDE DEF R
<1>3. PICK x \in I : \A y \in I : ~(<<y, x>> \in R)
  BY <1>1, WFMin
<1>4. ASSUME NEW y \in I PROVE x <= y
  <2>1. x \in Nat /\ y \in Nat /\ ~(<<y, x>> \in R)
    BY <1>3
  <2>2. ~(y < x)
    BY <2>1, <1>2
  <2> QED BY <2>1, <2>2
<1> QED BY <1>4

\* CutOut, element by element.
LEMMA CutOutElements ==
  ASSUME NEW S, NEW l \in Seq(S), NEW p \in 1..Len(l)
  PROVE /\ CutOut(l, p) \in Seq(S)
        /\ Len(CutOut(l, p)) = Len(l)-1
        /\ \A i \in 1..(Len(l)-1) : CutOut(l, p)[i] = IF i < p THEN l[i] ELSE l[i+1]
<1> DEFINE a == SubSeq(l,1,p-1)  b == SubSeq(l,p+1,Len(l))
<1>1. a \in Seq(S) /\ Len(a) = p-1 /\ \A i \in 1..(p-1) : a[i] = l[i]
  BY SubSeqProperties
<1>2. b \in Seq(S) /\ Len(b) = Len(l)-p /\ \A i \in 1..(Len(l)-p) : b[i] = l[p+i]
  BY SubSeqProperties
<1> HIDE DEF a, b
<1>3. /\ a \o b \in Seq(S) /\ Len(a \o b) = Len(a) + Len(b)
      /\ \A i \in 1..(Len(a)+Len(b)) : (a \o b)[i] = IF i <= Len(a) THEN a[i] ELSE b[i - Len(a)]
  BY <1>1, <1>2, ConcatProperties
<1>4. Len(a) + Len(b) = Len(l) - 1
  BY <1>1, <1>2
<1>5. \A i \in 1..(Len(l)-1) : (a \o b)[i] = IF i < p THEN l[i] ELSE l[i+1]
  BY <1>1, <1>2, <1>3, <1>4
<1> QED BY <1>3, <1>4, <1>5 DEF a, b, CutOut

\* Element i of l with e inserted at place p.
Inserted(l, p, e, i) == IF i < p THEN l[i] ELSE IF i = p THEN e ELSE l[i - 1]

\* PutIn, element by element.
LEMMA PutInElements ==
  ASSUME NEW S, NEW l \in Seq(S), NEW p \in 1..(Len(l)+1), NEW e \in S
  PROVE /\ PutIn(l, p, e) \in Seq(S)
        /\ Len(PutIn(l, p, e)) = Len(l)+1
        /\ \A i \in 1..(Len(l)+1) : PutIn(l, p, e)[i] = Inserted(l, p, e, i)
<1> DEFINE a == SubSeq(l,1,p-1)  b == SubSeq(l,p,Len(l)) c == <<e>>
<1>1. a \in Seq(S) /\ Len(a) = p-1 /\ \A i \in 1..(p-1) : a[i] = l[i]
  BY SubSeqProperties
<1>2. b \in Seq(S) /\ Len(b) = Len(l)-p+1 /\ \A i \in 1..(Len(l)-p+1) : b[i] = l[p+i-1]
  BY SubSeqProperties
<1>0. c \in Seq(S) /\ Len(c) = 1 /\ c[1] = e OBVIOUS
<1> HIDE DEF a, b, c
<1>3. /\ a \o c \in Seq(S) /\ Len(a \o c) = p
      /\ \A i \in 1..p : (a \o c)[i] = IF i < p THEN l[i] ELSE e
  <2>1. /\ a \o c \in Seq(S) /\ Len(a \o c) = Len(a) + Len(c)
        /\ \A i \in 1..(Len(a)+Len(c)) : (a \o c)[i] = IF i <= Len(a) THEN a[i] ELSE c[i - Len(a)]
    BY <1>1, <1>0, ConcatProperties
  <2> QED BY <2>1, <1>0, <1>1
<1> DEFINE d == a \o c
<1> HIDE DEF d
<1>d. d \in Seq(S) BY <1>3 DEF d
<1>4. /\ d \o b \in Seq(S) /\ Len(d \o b) = Len(d) + Len(b)
      /\ \A i \in 1..(Len(d)+Len(b)) : (d \o b)[i] = IF i <= Len(d) THEN d[i] ELSE b[i - Len(d)]
  BY <1>d, <1>2, ConcatProperties
<1>5. Len(d) + Len(b) = Len(l) + 1
  BY <1>3, <1>2 DEF d
<1>6. \A i \in 1..(Len(l)+1) : (d \o b)[i] = IF i < p THEN l[i] ELSE IF i = p THEN e ELSE l[i-1]
  BY <1>2, <1>3, <1>4, <1>5 DEF d
<1>7. \A i \in 1..(Len(l)+1) : (d \o b)[i] = Inserted(l, p, e, i)
  BY <1>6 DEF Inserted
<1> QED BY <1>4, <1>5, <1>7 DEF a, b, c, d, PutIn

\* rt_list_remove takes away the one link of the node and nothing else.
LEMMA UnlinkFacts ==
  ASSUME NEW S, NEW l \in Seq(S), NEW n, Once(l)
  PROVE  /\ Unlink(l, n) \in Seq(S)
         /\ Once(Unlink(l, n))
         /\ \A m : Linked(Unlink(l, n), m) <=> Linked(l, m) /\ m # n
         /\ ~Linked(l, n) => Unlink(l, n) = l
<1>1. CASE ~Linked(l, n)
  BY <1>1 DEF Unlink, Linked
<1>2. CASE Linked(l, n)
  <2> DEFINE p == Position(l, n)  r == CutOut(l, p)
  <2>1. p \in 1..Len(l) /\ l[p] = n
    BY <1>2 DEF Linked, Position
  <2>2. \A i \in 1..Len(l) : l[i] = n => i = p
    BY <2>1 DEF Once
  <2> HIDE DEF p
  <2>3. /\ r \in Seq(S) /\ Len(r) = Len(l) - 1
        /\ \A i \in 1..(Len(l) - 1) : r[i] = IF i < p THEN l[i] ELSE l[i + 1]
    BY <2>1, CutOutElements
  <2> HIDE DEF r
  <2>4. DOMAIN r = 1..(Len(l) - 1) /\ DOMAIN l = 1..Len(l)
    BY <2>3
  <2>5. Once(r)
    BY <2>1, <2>3, <2>4 DEF Once
  <2>6. ASSUME NEW m, Linked(r, m) PROVE Linked(l, m) /\ m # n
    <3>1. PICK i \in 1..(Len(l) - 1) : r[i] = m
      BY <2>6, <2>4 DEF Linked
    <3>2. \E j \in 1..Len(l) : j # p /\ l[j] = m
      BY <3>1, <2>1, <2>3
    <3> QED BY <3>2, <2>2, <2>4 DEF Linked
  <2>7. ASSUME NEW m, Linked(l, m), m # n PROVE Linked(r, m)
    <3>1. PICK i \in 1..Len(l) : l[i] = m
      BY <2>7, <2>4 DEF Linked
    <3>2. i # p
      BY <3>1, <2>1, <2>7
    <3>3. CASE i < p
      <4>1. i \in 1..(Len(l) - 1) /\ r[i] = m BY <3>3, <3>1, <2>1, <2>3
      <4> QED BY <4>1, <2>4 DEF Linked
    <3>4. CASE i > p
      <4>1. (i - 1) \in 1..(Len(l) - 1) /\ r[i - 1] = m BY <3>4, <3>1, <2>1, <2>3
      <4> QED BY <4>1, <2>4 DEF Linked
    <3> QED BY <3>1, <3>2, <3>3, <3>4, <2>1
  <2> QED BY <1>2, <2>3, <2>5, <2>6, <2>7 DEF Unlink, r, p
<1> QED BY <1>1, <1>2

\* Linking a node that is on no list at a place of the list.
LEMMA InsertFacts ==
  ASSUME NEW S, NEW l \in Seq(S), NEW n \in S, Once(l), ~Linked(l, n),
         NEW p \in 1..(Len(l) + 1)
  PROVE  /\ PutIn(l, p, n) \in Seq(S)
         /\ Once(PutIn(l, p, n))
         /\ \A m : Linked(PutIn(l, p, n), m) <=> Linked(l, m) \/ m = n
<1>a. PutIn(l, p, n) \in Seq(S) /\ Len(PutIn(l, p, n)) = Len(l) + 1
  BY PutInElements
<1>b. \A i \in 1..(Len(l) + 1) : PutIn(l, p, n)[i] = Inserted(l, p, n, i)
  BY PutInElements
<1> DEFINE r == PutIn(l, p, n)
<1>1. /\ r \in Seq(S) /\ Len(r) = Len(l) + 1
      /\ \A i \in 1..(Len(l) + 1) :
           r[i] = IF i < p THEN l[i] ELSE IF i = p THEN n ELSE l[i - 1]
  BY <1>a, <1>b DEF Inserted
<1> HIDE DEF r
<1>2. DOMAIN r = 1..(Len(l) + 1) /\ DOMAIN l = 1..Len(l)
  BY <1>1
<1>3. Once(r)
  <2>1. SUFFICES ASSUME NEW i \in 1..(Len(l) + 1), NEW j \in 1..(Len(l) + 1),
                        r[i] = r[j], i < j
                 PROVE  FALSE
    BY <1>1, <1>2 DEF Once
  <2>2. \A x \in 1..Len(l) : l[x] # n
    BY <1>2 DEF Linked
  <2>3. \A x, y \in 1..Len(l) : l[x] = l[y] => x = y
    BY <1>2 DEF Once
  <2>4. CASE j < p
    <3>1. r[i] = l[i] /\ r[j] = l[j] /\ i \in 1..Len(l) /\ j \in 1..Len(l)
      BY <2>1, <2>4, <1>1
    <3>2. i = j
      BY <3>1, <2>1, <2>3
    <3> QED BY <3>2, <2>1
  <2>5. CASE j = p
    BY <2>1, <2>2, <2>5, <1>1
  <2>6. CASE j > p
    <3>1. r[j] = l[j - 1] /\ (j - 1) \in 1..Len(l)
      BY <2>6, <1>1
    <3>2. CASE i < p
      BY <3>1, <3>2, <2>1, <2>3, <2>6, <1>1, SMTT(30)
    <3>3. CASE i = p
      BY <3>1, <3>3, <2>1, <2>2, <1>1
    <3>4. CASE i > p
      <4>1. r[i] = l[i - 1] /\ (i - 1) \in 1..Len(l)
        BY <3>4, <1>1
      <4>2. i - 1 = j - 1
        BY <4>1, <3>1, <2>1, <2>3
      <4> QED BY <4>2, <2>1
    <3> QED BY <3>2, <3>3, <3>4
  <2> QED BY <2>4, <2>5, <2>6
<1>4. ASSUME NEW m, Linked(r, m) PROVE Linked(l, m) \/ m = n
  <2>1. PICK i \in 1..(Len(l) + 1) : r[i] = m
    BY <1>2, <1>4 DEF Linked
  <2>2. m = n \/ \E j \in 1..Len(l) : l[j] = m
    BY <2>1, <1>1, SMTT(30)
  <2> QED BY <2>2, <1>2 DEF Linked
<1>5. Linked(r, n)
  BY <1>1, <1>2 DEF Linked
<1>6. ASSUME NEW m, Linked(l, m) PROVE Linked(r, m)
  <2>1. PICK i \in 1..Len(l) : l[i] = m
    BY <1>6, <1>2 DEF Linked
  <2>2. CASE i < p
    BY <2>1, <2>2, <1>1, <1>2 DEF Linked
  <2>3. CASE i >= p
    <3>1. (i + 1) \in 1..(Len(l) + 1) /\ r[i + 1] = m
      BY <2>1, <2>3, <1>1
    <3> QED BY <3>1, <1>2 DEF Linked
  <2> QED BY <2>1, <2>2, <2>3
<1> QED BY <1>1, <1>3, <1>4, <1>5, <1>6 DEF r

\* rt_list_insert_before the head.
LEMMA LinkLastFacts ==
  ASSUME NEW S, NEW l \in Seq(S), NEW n \in S, Once(l), ~Linked(l, n)
  PROVE  /\ LinkLast(l, n) \in Seq(S)
         /\ Once(LinkLast(l, n))
         /\ \A m : Linked(LinkLast(l, n), m) <=> Linked(l, m) \/ m = n
         /\ LinkLast(l, n) # <<>>
<1> DEFINE r == LinkLast(l, n)
<1>1. /\ r \in Seq(S) /\ Len(r) = Len(l) + 1
      /\ \A i \in 1..Len(l) : r[i] = l[i]
      /\ r[Len(l) + 1] = n
  BY AppendProperties DEF LinkLast
<1> HIDE DEF r
<1>2. DOMAIN r = 1..(Len(l) + 1) /\ DOMAIN l = 1..Len(l)
  BY <1>1
<1>3. Once(r) /\ r # <<>>
  BY <1>1, <1>2 DEF Once, Linked
<1>4. \A m : Linked(r, m) <=> Linked(l, m) \/ m = n
  BY <1>1, <1>2 DEF Linked
<1> QED BY <1>1, <1>3, <1>4 DEF r

\* Where a scan links the node: nobody of S comes before it, and the first of S right after it.
LEMMA FirstOfFacts ==
  ASSUME NEW T, NEW l \in Seq(T), NEW S
  PROVE  LET p == FirstOf(l, S) IN
         /\ p \in 1..(Len(l) + 1)
         /\ p <= Len(l) => l[p] \in S
         /\ \A j \in 1..(p - 1) : l[j] \notin S
<1>1. PICK p \in 1..(Len(l) + 1) : (p <= Len(l) => l[p] \in S) /\ \A j \in 1..(p - 1) : l[j] \notin S
  <2> DEFINE I == {i \in 1..Len(l) : l[i] \in S}
  <2>1. CASE I = {}
    <3>1. (Len(l) + 1) \in 1..(Len(l) + 1) /\ ~(Len(l) + 1 <= Len(l))
      OBVIOUS
    <3>2. \A j \in 1..((Len(l) + 1) - 1) : l[j] \notin S
      BY <2>1
    <3> QED BY <3>1, <3>2
  <2>2. CASE I # {}
    <3>1. I \subseteq Nat
      OBVIOUS
    <3> HIDE DEF I
    <3>2. PICK h \in I : \A i \in I : h <= i
      BY <3>1, <2>2, Least
    <3>3. h \in 1..Len(l) /\ l[h] \in S /\ \A j \in 1..Len(l) : l[j] \in S => h <= j
      BY <3>2 DEF I
    <3>4. /\ h \in 1..(Len(l) + 1)
          /\ h <= Len(l) => l[h] \in S
          /\ \A j \in 1..(h - 1) : l[j] \notin S
      BY <3>3
    <3> QED BY <3>4
  <2> QED BY <2>1, <2>2
<1> QED BY <1>1 DEF FirstOf

\* A scan that links the node in front of the first node of S.
LEMMA LinkBeforeFacts ==
  ASSUME NEW T, NEW l \in Seq(T), NEW n \in T, NEW S, Once(l), ~Linked(l, n)
  PROVE  /\ LinkBefore(l, n, S) \in Seq(T)
         /\ Once(LinkBefore(l, n, S))
         /\ \A m : Linked(LinkBefore(l, n, S), m) <=> Linked(l, m) \/ m = n
<1>1. FirstOf(l, S) \in 1..(Len(l) + 1)
  BY FirstOfFacts
<1> QED BY <1>1, InsertFacts DEF LinkBefore

\* The first node of a non-empty list is linked; an empty list links nobody.
LEMMA HeadFacts ==
  ASSUME NEW S, NEW l \in Seq(S)
  PROVE  /\ l # <<>> => Linked(l, Head(l)) /\ Head(l) \in S
         /\ \A m : Linked(l, m) => l # <<>> /\ m \in S
<1>1. l # <<>> => 1 \in DOMAIN l /\ Head(l) = l[1] /\ l[1] \in S
  OBVIOUS
<1>2. \A m : Linked(l, m) => l # <<>> /\ m \in S
  BY DEF Linked
<1> QED BY <1>1, <1>2 DEF Linked

\* Whoever was first is on the list no more, and nobody else is affected.
LEMMA TailFacts ==
  ASSUME NEW S, NEW l \in Seq(S), l # <<>>, Once(l)
  PROVE  /\ Tail(l) \in Seq(S)
         /\ Once(Tail(l))
         /\ \A m : Linked(Tail(l), m) <=> Linked(l, m) /\ m # Head(l)
<1>1. /\ Tail(l) \in Seq(S) /\ Len(Tail(l)) = Len(l) - 1
      /\ \A i \in 1..(Len(l) - 1) : Tail(l)[i] = l[i + 1]
      /\ Head(l) = l[1] /\ Len(l) \in Nat /\ Len(l) >= 1
  BY HeadTailProperties
<1> DEFINE r == Tail(l)
<1>2. DOMAIN r = 1..(Len(l) - 1) /\ DOMAIN l = 1..Len(l)
  BY <1>1
<1> HIDE DEF r
<1>3. \A i \in 1..(Len(l) - 1) : r[i] = l[i + 1]
  BY <1>1 DEF r
<1>4. \A i, j \in 1..Len(l) : l[i] = l[j] => i = j
  BY <1>2 DEF Once
<1>5. Once(r)
  BY <1>1, <1>2, <1>3, <1>4 DEF Once
<1>6. ASSUME NEW m, Linked(r, m) PROVE Linked(l, m) /\ m # Head(l)
  <2>1. PICK i \in 1..(Len(l) - 1) : r[i] = m
    BY <1>6, <1>2 DEF Linked
  <2>2. l[i + 1] = m /\ i + 1 \in 1..Len(l) /\ i + 1 # 1
    BY <2>1, <1>1, <1>3
  <2>3. l[i + 1] # l[1]
    BY <2>2, <1>1, <1>4
  <2> QED BY <2>2, <2>3, <1>1, <1>2 DEF Linked
<1>7. ASSUME NEW m, Linked(l, m), m # Head(l) PROVE Linked(r, m)
  <2>1. PICK i \in 1..Len(l) : l[i] = m
    BY <1>7, <1>2 DEF Linked
  <2>2. i - 1 \in 1..(Len(l) - 1) /\ r[i - 1] = m
    <3>1. i # 1 BY <2>1, <1>7, <1>1
    <3>2. i - 1 \in 1..(Len(l) - 1) /\ (i - 1) + 1 = i BY <3>1, <2>1, <1>1
    <3> QED BY <3>2, <1>3, <2>1
  <2> QED BY <2>2, <1>2 DEF Linked
<1> QED BY <1>1, <1>5, <1>6, <1>7 DEF r
-----------------------------------------------------------------------------
\* Node x comes before node y.
Before(l, x, y) == \E i, j \in DOMAIN l : i < j /\ l[i] = x /\ l[j] = y

\* Everybody else comes after the first node.
LEMMA HeadOrder ==
  ASSUME NEW S, NEW l \in Seq(S), l # <<>>, NEW m, Linked(l, m), m # Head(l)
  PROVE  Before(l, Head(l), m)
<1>1. PICK i \in DOMAIN l : l[i] = m
  BY DEF Linked
<1>2. /\ Head(l) = l[1] /\ 1 \in DOMAIN l /\ DOMAIN l = 1..Len(l) /\ i # 1
  BY <1>1
<1>3. 1 < i
  BY <1>2
<1> QED BY <1>1, <1>2, <1>3 DEF Before

\* The first node leaves: the others keep their order.
LEMMA TailOrder ==
  ASSUME NEW S, NEW l \in Seq(S), l # <<>>, NEW x, NEW y, Before(Tail(l), x, y)
  PROVE  Before(l, x, y)
<1>1. /\ Len(Tail(l)) = Len(l) - 1 /\ Tail(l) \in Seq(S)
      /\ \A i \in 1..(Len(l) - 1) : Tail(l)[i] = l[i + 1]
  BY HeadTailProperties
<1>2. PICK i, j \in DOMAIN Tail(l) : i < j /\ Tail(l)[i] = x /\ Tail(l)[j] = y
  BY DEF Before
<1>3. i \in 1..(Len(l) - 1) /\ j \in 1..(Len(l) - 1)
  BY <1>1
<1>4. /\ i + 1 \in DOMAIN l /\ j + 1 \in DOMAIN l /\ i + 1 < j + 1
      /\ l[i + 1] = x /\ l[j + 1] = y
  BY <1>1, <1>2, <1>3
<1> QED BY <1>4 DEF Before

\* Any node leaves: the others keep their order.
LEMMA UnlinkOrder ==
  ASSUME NEW S, NEW l \in Seq(S), NEW n, NEW x, NEW y, Before(Unlink(l, n), x, y)
  PROVE  Before(l, x, y)
<1>1. CASE ~Linked(l, n)
  BY <1>1 DEF Unlink
<1>2. CASE Linked(l, n)
  <2> DEFINE p == Position(l, n)  r == CutOut(l, p)
  <2>1. p \in 1..Len(l) /\ Unlink(l, n) = r
    BY <1>2 DEF Linked, Position, Unlink
  <2> HIDE DEF p
  <2>2. /\ r \in Seq(S) /\ Len(r) = Len(l) - 1
        /\ \A i \in 1..(Len(l) - 1) : r[i] = IF i < p THEN l[i] ELSE l[i + 1]
    BY <2>1, CutOutElements
  <2> HIDE DEF r
  <2>3. PICK i, j \in DOMAIN r : i < j /\ r[i] = x /\ r[j] = y
    BY <2>1 DEF Before
  <2>4. i \in 1..(Len(l) - 1) /\ j \in 1..(Len(l) - 1)
    BY <2>2
  <2> DEFINE a == IF i < p THEN i ELSE i + 1  b == IF j < p THEN j ELSE j + 1
  <2>5. a \in DOMAIN l /\ b \in DOMAIN l /\ a < b
    BY <2>1, <2>3, <2>4
  <2>6. l[a] = x /\ l[b] = y
    BY <2>2, <2>3, <2>4
  <2> QED BY <2>5, <2>6 DEF Before
<1> QED BY <1>1, <1>2

\* A scan keeps the order of the others; who comes before the new node is not of S, and who
\* comes after it is of S or comes after somebody of S.
LEMMA LinkBeforeOrder ==
  ASSUME NEW T, NEW l \in Seq(T), NEW n \in T, NEW S, ~Linked(l, n), NEW x, NEW y,
         Before(LinkBefore(l, n, S), x, y)
  PROVE  \/ Before(l, x, y) /\ x # n /\ y # n
         \/ y = n /\ x \notin S /\ Linked(l, x)
         \/ x = n /\ Linked(l, y) /\ (y \in S \/ \E z \in S : Before(l, z, y))
<1> DEFINE p == FirstOf(l, S)  r == PutIn(l, p, n)
<1>1. /\ p \in 1..(Len(l) + 1)
      /\ p <= Len(l) => l[p] \in S
      /\ \A j \in 1..(p - 1) : l[j] \notin S
  BY FirstOfFacts
<1>2. LinkBefore(l, n, S) = r
  BY DEF LinkBefore
<1> HIDE DEF p
<1>3. /\ r \in Seq(T) /\ Len(r) = Len(l) + 1
      /\ \A i \in 1..(Len(l) + 1) : r[i] = Inserted(l, p, n, i)
  BY <1>1, PutInElements
<1> HIDE DEF r
<1>4. PICK i, j \in 1..(Len(l) + 1) : i < j /\ r[i] = x /\ r[j] = y
  BY <1>2, <1>3 DEF Before
<1>5. \A k \in DOMAIN l : l[k] # n
  BY DEF Linked
<1>6. DOMAIN l = 1..Len(l)
  OBVIOUS
<1>7. \A k \in 1..(Len(l) + 1) :
        /\ k < p => k \in DOMAIN l /\ r[k] = l[k]
        /\ k = p => r[k] = n
        /\ k > p => k - 1 \in DOMAIN l /\ r[k] = l[k - 1]
  BY <1>1, <1>3, <1>6 DEF Inserted
<1>8. CASE j < p
  <2>1. i < p
    BY <1>1, <1>4, <1>8
  <2> QED BY <1>4, <1>5, <1>7, <1>8, <2>1 DEF Before
<1>9. CASE j = p
  <2>1. i < p /\ i \in 1..(p - 1)
    BY <1>1, <1>4, <1>9
  <2> QED BY <1>1, <1>4, <1>7, <1>9, <2>1 DEF Linked
<1>10. CASE j > p
  <2>1. j - 1 \in DOMAIN l /\ l[j - 1] = y
    BY <1>4, <1>7, <1>10
  <2>2. CASE i < p
    <3>1. i \in DOMAIN l /\ l[i] = x /\ i < j - 1
      BY <1>1, <1>4, <1>7, <1>10, <2>2
    <3> QED BY <1>5, <2>1, <3>1 DEF Before
  <2>3. CASE i = p
    <3>1. x = n /\ Linked(l, y) /\ p \in DOMAIN l /\ l[p] \in S
      BY <1>1, <1>4, <1>6, <1>7, <1>10, <2>1, <2>3 DEF Linked
    <3>2. CASE j - 1 = p
      BY <2>1, <3>1, <3>2
    <3>3. CASE j - 1 # p
      <4>1. p < j - 1
        BY <1>1, <1>4, <1>10, <3>3
      <4> QED BY <2>1, <3>1, <4>1 DEF Before
    <3> QED BY <3>2, <3>3
  <2>4. CASE i > p
    <3>1. i - 1 \in DOMAIN l /\ l[i - 1] = x /\ i - 1 < j - 1
      BY <1>1, <1>4, <1>7, <1>10, <2>4
    <3> QED BY <1>5, <2>1, <3>1 DEF Before
  <2> QED BY <1>1, <1>4, <2>2, <2>3, <2>4
<1> QED BY <1>1, <1>4, <1>8, <1>9, <1>10
=============================================================================
