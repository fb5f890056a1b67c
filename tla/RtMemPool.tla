------------------------------ MODULE RtMemPool ------------------------------
(***************************************************************************)
(* A pool of equal blocks (mempool.c).  The free blocks are a list through *)
(* their own first words; a block in use points to its pool instead, which *)
(* is how rt_mp_free finds it.  The newest waiter is served first.         *)
(***************************************************************************)
EXTENDS RtRetry

CONSTANTS
  Pool,   \* the suspend list of the pool
  Block,  \* its blocks
  Isr     \* an interrupt handler, which allocates and frees without waiting

\* What the constants must be; the module that instantiates this one assumes it.
PoolConstants == List = {Pool} /\ Isr \notin Thread /\ IsFiniteSet(Block)

VARIABLES
  blocks,  \* mp->block_list
  count,   \* mp->block_free_count
  used     \* history: the blocks of each thread and of the interrupt handler

poolVars == <<blocks, count, used>>
vars == <<loopVars, poolVars>>

Init ==
  /\ RetryInit
  /\ blocks = ListOf(Block)
  /\ count = Cardinality(Block)
  /\ used = [x \in Thread \union {Isr} |-> {}]

\* The end of rt_mp_alloc: the first block of the list.
Pop(x) ==
  /\ count > 0
  /\ count' = count - 1
  /\ blocks' = Tail(blocks)
  /\ used' = [used EXCEPT ![x] = @ \union {Head(blocks)}]

AllocNow(t) ==
  /\ Calls(t, Pool)
  /\ Pop(t)
  /\ UNCHANGED loopVars

AllocIsr ==
  /\ Pool \notin gone
  /\ Pop(Isr)
  /\ UNCHANGED loopVars

\* An empty pool: rt_list_insert_after puts the thread in front of the others.
AllocWait(t, limit) ==
  /\ Calls(t, Pool)
  /\ count = 0
  /\ WaitOn(t, "wait", Pool, LinkFirst(wait[Pool], t), limit)
  /\ UNCHANGED poolVars

AllocFail(t) ==
  /\ Failed(t, "wait")
  /\ Over(t)
  /\ UNCHANGED <<waitVars, poolVars>>

AllocAgain(t, limit) ==
  /\ Looks(t, "wait", limit)
  /\ \/ Pop(t) /\ Over(t) /\ UNCHANGED waitVars
     \/ /\ count = 0
        /\ WaitOn(t, "wait", Pool, LinkFirst(wait[Pool], t), limit)
        /\ UNCHANGED poolVars
     \/ /\ count = 0 /\ limit = "none"
        /\ Over(t)
        /\ UNCHANGED <<waitVars, poolVars>>

\* rt_mp_free, of a thread that runs or of the interrupt handler.
Free(x, b) ==
  /\ x \in Thread => Calls(x, Pool)
  /\ Pool \notin gone
  /\ b \in used[x]
  /\ count' = count + 1
  /\ blocks' = LinkFirst(blocks, b)
  /\ used' = [used EXCEPT ![x] = @ \ {b}]
  /\ ResumeOne(Pool)
  /\ UNCHANGED <<callVars, left>>

\* A thread hands a block of its own to the interrupt handler, a device's buffer.
Pass(t, b) ==
  /\ Calls(t, Pool) /\ b \in used[t]
  /\ used' = [used EXCEPT ![t] = @ \ {b}, ![Isr] = @ \union {b}]
  /\ UNCHANGED <<loopVars, blocks, count>>

\* What does not touch the pool itself; rt_mp_detach has the loop of
\* rt_ipc_list_resume_all in it.
Outside ==
  /\ \/ TimerExpires
     \/ \E t \in Thread : RetryDetach(t, Pool, {Pool}) \/ DetachTest(t, {}) \/ DetachResume(t)
  /\ UNCHANGED <<left, poolVars>>

Next ==
  \/ Outside \/ AllocIsr
  \/ \E x \in Thread \union {Isr}, b \in Block : Free(x, b)
  \/ \E t \in Thread :
       \/ AllocNow(t) \/ AllocFail(t)
       \/ \E b \in Block : Pass(t, b)
       \/ \E limit \in Limits : AllocWait(t, limit)
       \/ \E limit \in Remaining(t) : AllocAgain(t, limit)

Spec == Init /\ [][Next]_vars

-----------------------------------------------------------------------------
TypeOK ==
  /\ RetryTypeOK
  /\ blocks \in Seq(Block)
  /\ count \in 0..Cardinality(Block)
  /\ used \in [Thread \union {Isr} -> SUBSET Block]

\* Every block is in one place: once on the free list, or with the one that
\* allocated it; and the count is the length of the list.
BlocksExact ==
  /\ Once(blocks)
  /\ count = Len(blocks)
  /\ \A b \in Block :
       LET users == {x \in DOMAIN used : b \in used[x]} IN
       Cardinality(users) = IF Linked(blocks, b) THEN 0 ELSE 1

\* No wake-up is lost: while threads wait, every free block has a woken thread on
\* its way to it.
NoLostWakeup == wait[Pool] # <<>> => count <= Cardinality(Woken("wait", Pool))
=============================================================================
