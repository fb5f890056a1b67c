------------------------------ MODULE RtBlocks ------------------------------
(***************************************************************************)
(* The blocks of a heap, which lie end to end: a function from the offset  *)
(* of a block's header to its used flag and its neighbours, next and prev. *)
(* Sizes and offsets count RT_ALIGN_SIZE.  mem.c and memheap.c share this  *)
(* layout and differ in how they find a free block.                        *)
(***************************************************************************)
EXTENDS Naturals, FiniteSets

CONSTANT Struct  \* the size of a header

\* The user data of block m.
Room(h, m) == h[m].next - (m + Struct)

\* The callers' blocks with their sizes: m is given for n, and m is given back.
Noted(sizes, m, n) == [k \in DOMAIN sizes \union {m} |-> IF k = m THEN n ELSE sizes[k]]
Without(sizes, m) == [k \in DOMAIN sizes \ {m} |-> sizes[k]]

Least(S) == CHOOSE m \in S : \A k \in S : m <= k

\* Block b, which follows a, becomes part of it.
Joined(h, a, b) ==
  LET after == h[b].next IN
  [m \in DOMAIN h \ {b} |->
     CASE m = a -> [h[a] EXCEPT !.next = after]
       [] m = after -> [h[after] EXCEPT !.prev = a]
       [] OTHER -> h[m]]

\* The user data of m shrink to n, and the rest becomes a free block.
Split(h, m, n) ==
  LET r == m + Struct + n IN
  [k \in DOMAIN h \union {r} |->
     CASE k = m -> [h[m] EXCEPT !.next = r]
       [] k = r -> [used |-> FALSE, next |-> h[m].next, prev |-> m]
       [] k = h[m].next -> [h[k] EXCEPT !.prev = r]
       [] OTHER -> h[k]]

\* From 0 to end the blocks lie end to end, linked both ways, and two free ones never
\* meet.
Tiles(h, end) ==
  /\ {0, end} \subseteq DOMAIN h
  /\ \A m \in DOMAIN h \ {end} :
       /\ h[m].next = Least({k \in DOMAIN h : k > m})
       /\ h[m].next >= m + Struct
       /\ h[m].next # end => h[h[m].next].prev = m
       /\ ~h[m].used => h[h[m].next].used
=============================================================================
