----------------------------- MODULE RtMemHeap -----------------------------
(***************************************************************************)
(* The memory heap of memheap.c: rt_memheap_alloc, _free and _realloc.  The *)
(* free blocks are on a list of their own, the newest first.  A call holds *)
(* heap->lock while it changes the lists; the rt_memheap_realloc that moves *)
(* a block is an rt_memheap_alloc and a later rt_memheap_free.             *)
(***************************************************************************)
EXTENDS RtBlocks, RtList

CONSTANTS
  Pool,     \* the size of the first free block
  MinAlloc, \* RT_MEMHEAP_MINIALLOC
  Nowhere   \* RT_NULL

\* What the constants must be; the module that instantiates this one assumes it.
MemHeapConstants ==
  /\ Struct \in Nat \ {0} /\ MinAlloc \in Nat \ {0} /\ Pool \in Nat /\ Pool >= MinAlloc
  /\ Nowhere \notin Nat

VARIABLES
  items,      \* the blocks: used (magic), next, prev
  freeList,   \* heap->free_list
  available,  \* heap->available_size
  holds,      \* the size that was asked for, of each block a caller has
  leaving     \* the blocks rt_memheap_realloc has copied and not freed yet

vars == <<items, freeList, available, holds, leaving>>

Tail0 == Pool + Struct  \* the tailer, used for ever

Init ==
  /\ items = [m \in {0, Tail0} |->
                IF m = 0 THEN [used |-> FALSE, next |-> Tail0, prev |-> Tail0]
                         ELSE [used |-> TRUE, next |-> 0, prev |-> 0]]
  /\ freeList = <<0>>
  /\ available = Pool
  /\ holds = <<>>
  /\ leaving = {}

AtLeastMin(n) == IF n < MinAlloc THEN MinAlloc ELSE n

\* The item rt_memheap_alloc finds for n.
Found(n) ==
  LET fits == {i \in DOMAIN freeList : Room(items, freeList[i]) >= n} IN
  IF n < available /\ fits # {} THEN freeList[Least(fits)] ELSE Nowhere

-----------------------------------------------------------------------------
\* The locked section of rt_memheap_alloc, which has found m for n.
Take(m, n) ==
  LET split == Room(items, m) >= n + Struct + MinAlloc IN
  /\ items' = [(IF split THEN Split(items, m, n) ELSE items) EXCEPT ![m].used = TRUE]
  /\ freeList' = IF split
                   THEN LinkFirst(Unlink(freeList, m), m + Struct + n)
                   ELSE Unlink(freeList, m)
  /\ available' = available - (IF split THEN n + Struct ELSE Room(items, m))

\* rt_memheap_alloc(n); when it returns RT_NULL nothing changes.
Alloc(n) ==
  LET m == Found(AtLeastMin(n)) IN
  /\ m # Nowhere
  /\ Take(m, AtLeastMin(n))
  /\ holds' = Noted(holds, m, n)
  /\ UNCHANGED leaving

\* The locked section of rt_memheap_free: the block before takes it in, then the one
\* behind is taken in.
GiveBack(m) ==
  LET h == [items EXCEPT ![m].used = FALSE]
      before == ~h[h[m].prev].used
      k == IF before THEN h[m].prev ELSE m
      h1 == IF before THEN Joined(h, k, m) ELSE h
      n == h1[k].next
      behind == ~h1[n].used
      without == IF behind THEN Unlink(freeList, n) ELSE freeList
  IN /\ items' = IF behind THEN Joined(h1, k, n) ELSE h1
     /\ freeList' = IF before THEN without ELSE LinkFirst(without, m)
     /\ available' = available + Room(items, m)
                       + (IF before THEN Struct ELSE 0) + (IF behind THEN Struct ELSE 0)

Forgotten(m) == holds' = Without(holds, m)

\* rt_memheap_free, or rt_memheap_realloc to 0.
Free(m) ==
  /\ m \in DOMAIN holds \ leaving
  /\ GiveBack(m) /\ Forgotten(m)
  /\ UNCHANGED leaving

-----------------------------------------------------------------------------
(* rt_memheap_realloc(m, asked), n being asked or RT_MEMHEAP_MINIALLOC *)

Resized(m, asked) ==
  /\ m \in DOMAIN holds \ leaving
  /\ holds' = [holds EXCEPT ![m] = asked]
  /\ UNCHANGED leaving

\* Not larger, and nothing worth splitting off.
ReallocStays(m, asked) ==
  LET n == AtLeastMin(asked) IN
  /\ n <= Room(items, m) /\ n + Struct + MinAlloc >= Room(items, m)
  /\ Resized(m, asked)
  /\ UNCHANGED <<items, freeList, available>>

\* The block behind is free and large enough to be moved out of the way.
CanExpand(m, n) ==
  LET next == items[m].next IN
  /\ n > Room(items, m)
  /\ ~items[next].used
  /\ Room(items, next) + Room(items, m) > n + MinAlloc

ReallocExpands(m, asked) ==
  LET n == AtLeastMin(asked)
      next == items[m].next
  IN /\ CanExpand(m, n)
     /\ items' = Split(Joined(items, m, next), m, n)
     /\ freeList' = LinkFirst(Unlink(freeList, next), m + Struct + n)
     /\ available' = available - (n - Room(items, m))
     /\ Resized(m, asked)

\* The rest is split off and takes in a free block behind it.
ReallocShrinks(m, asked) ==
  LET n == AtLeastMin(asked)
      r == m + Struct + n
      next == items[m].next
      merge == ~items[next].used
      h == Split(items, m, n)
      h1 == IF merge THEN Joined(h, r, next) ELSE h
  IN /\ n + Struct + MinAlloc < Room(items, m)
     /\ items' = h1
     /\ freeList' = LinkFirst(IF merge THEN Unlink(freeList, next) ELSE freeList, r)
     /\ available' = available - (IF merge THEN Room(items, next) ELSE 0) + Room(h1, r)
     /\ Resized(m, asked)

\* Larger, and the block has to move.
ReallocMoves(m, asked) ==
  LET n == AtLeastMin(asked)
      new == Found(n)
  IN /\ m \in DOMAIN holds \ leaving
     /\ n > Room(items, m) /\ ~CanExpand(m, n)
     /\ new # Nowhere
     /\ Take(new, n)
     /\ holds' = Noted(holds, new, asked)
     /\ leaving' = leaving \union {m}

ReallocFrees(m) ==
  /\ m \in leaving
  /\ GiveBack(m) /\ Forgotten(m)
  /\ leaving' = leaving \ {m}

Next ==
  \/ \E n \in 1..Pool : Alloc(n)
  \/ \E m \in DOMAIN holds :
       \/ Free(m) \/ ReallocFrees(m)
       \/ \E n \in 1..Pool :
            ReallocStays(m, n) \/ ReallocExpands(m, n) \/ ReallocShrinks(m, n) \/ ReallocMoves(m, n)

Spec == Init /\ [][Next]_vars

-----------------------------------------------------------------------------
FreeItems == {m \in DOMAIN items : ~items[m].used}
UnitsFree == UNION {m + Struct .. items[m].next - 1 : m \in FreeItems}

\* Each caller has a block of its own that is large enough, the other blocks are on the
\* free list, each once, and available_size is what they hold.
MemHeapExact ==
  /\ Tiles(items, Tail0)
  /\ DOMAIN holds = DOMAIN items \ (FreeItems \union {Tail0})
  /\ \A m \in DOMAIN holds : Room(items, m) >= holds[m]
  /\ Once(freeList) /\ \A m \in DOMAIN items : Linked(freeList, m) <=> m \in FreeItems
  /\ available = Cardinality(UnitsFree)
=============================================================================
