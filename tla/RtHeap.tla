------------------------------- MODULE RtHeap -------------------------------
(***************************************************************************)
(* The heap of mem.c: rt_malloc, rt_free and rt_realloc.  A call      *)
(* holds heap_sem from its first access to its last, but for the rt_realloc *)
(* that moves a block, which is an rt_malloc and a later rt_free.          *)
(***************************************************************************)
EXTENDS RtBlocks

CONSTANTS
  Size,    \* mem_size_aligned
  MinSize, \* MIN_SIZE_ALIGNED
  Nowhere  \* RT_NULL

\* What the constants must be; the module that instantiates this one assumes it.
HeapConstants ==
  /\ Struct \in Nat \ {0} /\ MinSize \in Nat \ {0} /\ Size \in Nat /\ Size >= MinSize
  /\ Nowhere \notin Nat

VARIABLES
  heap,     \* the blocks: used, next, prev
  lfree,    \* the lowest free block
  usedMem,  \* used_mem
  given,    \* the size that was asked for, of each block a caller has
  moving    \* the blocks rt_realloc has copied and not freed yet

vars == <<heap, lfree, usedMem, given, moving>>

End == Size + Struct  \* heap_end

Init ==
  /\ heap = [m \in {0, End} |-> [used |-> m = End, next |-> End, prev |-> m]]
  /\ lfree = 0
  /\ usedMem = 0
  /\ given = <<>>
  /\ moving = {}

-----------------------------------------------------------------------------
\* Mutant: only the block behind is looked at.
PlugHolesForward(h, low, m) ==
  LET n == h[m].next
      ahead == ~h[n].used
  IN [heap |-> IF ahead THEN Joined(h, m, n) ELSE h,
      lfree |-> IF ahead /\ low = n THEN m ELSE low]

\* plug_holes: m is joined with the free blocks before and behind it.
PlugHoles(h, low, m) ==
  LET n == h[m].next
      ahead == ~h[n].used
      h1 == IF ahead THEN Joined(h, m, n) ELSE h
      low1 == IF ahead /\ low = n THEN m ELSE low
      p == h1[m].prev
      behind == p # m /\ ~h1[p].used
  IN [heap |-> IF behind THEN Joined(h1, p, m) ELSE h1,
      lfree |-> IF behind /\ low1 = m THEN p ELSE low1]

\* A block is split off; the prev of heap_end stays as it is.
SplitOff(m, n) == [Split(heap, m, n) EXCEPT ![End].prev = heap[End].prev]

-----------------------------------------------------------------------------
AtLeastMin(n) == IF n < MinSize THEN MinSize ELSE n

\* The first block rt_malloc finds for n.  The chain of next is in the order of the
\* addresses.
Found(n) ==
  LET fits == {m \in DOMAIN heap :
                 lfree <= m /\ m < Size - n /\ ~heap[m].used /\ Room(heap, m) >= n}
  IN IF fits = {} THEN Nowhere ELSE Least(fits)

\* The locked section of rt_malloc when it finds m for n.
Take(m, n) ==
  LET split == Room(heap, m) >= n + Struct + MinSize
      h == [(IF split THEN SplitOff(m, n) ELSE heap) EXCEPT ![m].used = TRUE]
  IN /\ heap' = h
     /\ usedMem' = usedMem + (h[m].next - m)
     /\ lfree' = IF m = lfree
                   THEN Least({k \in DOMAIN h : lfree <= k /\ (~h[k].used \/ k = End)})
                   ELSE lfree

\* rt_malloc(n), or rt_realloc(RT_NULL, n); when it returns RT_NULL nothing changes.
Malloc(n) ==
  LET m == Found(AtLeastMin(n)) IN
  /\ m # Nowhere
  /\ Take(m, AtLeastMin(n))
  /\ given' = Noted(given, m, n)
  /\ UNCHANGED moving

\* The locked section of rt_free.
GiveBack(m) ==
  LET h == [heap EXCEPT ![m].used = FALSE]
      plugged == PlugHoles(h, IF m < lfree THEN m ELSE lfree, m)
  IN /\ heap' = plugged.heap
     /\ lfree' = plugged.lfree
     /\ usedMem' = usedMem - (heap[m].next - m)

Forgotten(m) == given' = Without(given, m)

\* rt_free, or rt_realloc to 0.
Free(m) ==
  /\ m \in DOMAIN given \ moving
  /\ GiveBack(m) /\ Forgotten(m)
  /\ UNCHANGED moving

\* rt_realloc to the size it has.
ReallocSame(m, n) ==
  /\ m \in DOMAIN given \ moving
  /\ Room(heap, m) = n
  /\ given' = [given EXCEPT ![m] = n]
  /\ UNCHANGED <<heap, lfree, usedMem, moving>>

Shrinks(m, n) == n + Struct + MinSize < Room(heap, m)

\* rt_realloc to a size that leaves room for a block; n may be below MinSize.
ReallocShrink(m, n) ==
  LET r == m + Struct + n
      plugged == PlugHoles(SplitOff(m, n), IF r < lfree THEN r ELSE lfree, r)
  IN /\ m \in DOMAIN given \ moving
     /\ Shrinks(m, n)
     /\ heap' = plugged.heap /\ lfree' = plugged.lfree
     /\ usedMem' = usedMem - (Room(heap, m) - n)
     /\ given' = [given EXCEPT ![m] = n]
     /\ UNCHANGED moving

\* Any other rt_realloc: the rt_malloc, and the rt_free when the data are copied.
\* Without memory it returns RT_NULL and the caller keeps the block.
ReallocMove(m, n) ==
  LET new == Found(AtLeastMin(n)) IN
  /\ m \in DOMAIN given \ moving
  /\ Room(heap, m) # n /\ ~Shrinks(m, n)
  /\ new # Nowhere
  /\ Take(new, AtLeastMin(n))
  /\ given' = Noted(given, new, n)
  /\ moving' = moving \union {m}

ReallocFree(m) ==
  /\ m \in moving
  /\ GiveBack(m) /\ Forgotten(m)
  /\ moving' = moving \ {m}

Next ==
  \/ \E n \in 1..Size : Malloc(n)
  \/ \E m \in DOMAIN given :
       \/ Free(m) \/ ReallocFree(m)
       \/ \E n \in 1..Size : ReallocSame(m, n) \/ ReallocShrink(m, n) \/ ReallocMove(m, n)

Spec == Init /\ [][Next]_vars

-----------------------------------------------------------------------------
Blocks == DOMAIN heap \ {End}
FreeBlocks == {m \in Blocks : ~heap[m].used}

\* Each caller has a block of its own that is large enough.
GivenFit ==
  /\ DOMAIN given = {m \in Blocks : heap[m].used}
  /\ \A m \in DOMAIN given : Room(heap, m) >= given[m]

\* lfree leads every search to all the free blocks there are.
LowestFree == lfree = IF FreeBlocks = {} THEN End ELSE Least(FreeBlocks)

\* used_mem is what the blocks of the callers take up, their headers included.
UnitsUsed == UNION {m .. heap[m].next - 1 : m \in DOMAIN given}
UsedExact == usedMem = Cardinality(UnitsUsed)

\* rt_malloc finds memory for n whenever a free block is large enough, except the last
\* block of the heap when it fits exactly.
FindsWhatFits ==
  \A n \in MinSize..Size :
    Found(n) = Nowhere =>
      \A m \in FreeBlocks : Room(heap, m) < n \/ (Room(heap, m) = n /\ heap[m].next = End)

HeapExact == Tiles(heap, End) /\ GivenFit /\ LowestFree /\ UsedExact /\ FindsWhatFits
=============================================================================
