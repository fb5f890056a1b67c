------------------------------- MODULE RtList -------------------------------
(***************************************************************************)
(* The intrusive doubly linked lists of include/rtservice.h, seen as       *)
(* sequences: the list head is the sequence, a node is an element.  A node *)
(* has one pair of links, so the program may only keep it on one list; a   *)
(* node that is on no list is linked to itself.                            *)
(***************************************************************************)
EXTENDS Integers, Sequences, FiniteSets

\* Node n hangs on list l.
Linked(l, n) == \E i \in DOMAIN l : l[i] = n

Position(l, n) == CHOOSE i \in DOMAIN l : l[i] = n

\* No node hangs on l twice.
Once(l) == \A i, j \in DOMAIN l : l[i] = l[j] => i = j

\* Everything of S on one list.
ListOf(S) == CHOOSE l \in [1..Cardinality(S) -> S] : Once(l)

\* Place i of l cut out, and node n put in at place i.
CutOut(l, i) == SubSeq(l, 1, i - 1) \o SubSeq(l, i + 1, Len(l))
PutIn(l, i, n) == SubSeq(l, 1, i - 1) \o <<n>> \o SubSeq(l, i, Len(l))

\* rt_list_remove: no effect on a list the node is not on.
Unlink(l, n) == IF Linked(l, n) THEN CutOut(l, Position(l, n)) ELSE l

\* rt_list_insert_before(head, n): n becomes the last node.
LinkLast(l, n) == Append(l, n)

\* rt_list_insert_after(head, n): n becomes the first node.
LinkFirst(l, n) == <<n>> \o l

\* The place of the first node that belongs to S, or the place after the last.
FirstOf(l, S) ==
  CHOOSE i \in 1..(Len(l) + 1) :
    /\ i <= Len(l) => l[i] \in S
    /\ \A j \in 1..(i - 1) : l[j] \notin S

\* A scan that stops at the first node of S and links n in front of it.
LinkBefore(l, n, S) == PutIn(l, FirstOf(l, S), n)
=============================================================================
