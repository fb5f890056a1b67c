--------------------------- MODULE RtClassProofs ---------------------------
(***************************************************************************)
(* The classes of kernel objects with waiters, for any number of threads,  *)
(* any priorities, messages, blocks and bits: mutex, mailbox, message      *)
(* queue, memory pool and event set.  Each has an inductive invariant, and *)
(* the mailbox and the message queue take the steps of a channel.          *)
(***************************************************************************)
EXTENDS RtMutex, RtWaitProofs

CONSTANTS
  Msg, Size,     \* of a mailbox
  Element,       \* of a message queue
  Block, Isr,    \* of a memory pool
  Bits, Options  \* of an event set

VARIABLES
  pool, entry, in, out, mail, got,  \* mailbox
  queue, free, body, mine,          \* message queue
  set, want, option, asked,         \* event set
  blocks, count, used               \* memory pool

Mailbox == INSTANCE RtMailbox

Queue == INSTANCE RtMessageQueue

MemPool == INSTANCE RtMemPool WITH Pool <- Rx

Event == INSTANCE RtEvent WITH Event <- Rx

-----------------------------------------------------------------------------
(* Mutual exclusion *)

\* Who waits for a mutex is in rt_mutex_take and has no error yet.
Waiters ==
  \A m \in List, t \in Thread :
    Linked(wait[m], t) => pc[t] = "wait" /\ on[t] = m /\ err[t] = "OK"

\* Who is in rt_mutex_take up to the wait is not in the mutex.
Takers == \A t \in Thread : pc[t] = "wait" => depth[on[t]][t] = 0

\* A mutex that was handed over is taken once, a free one not at all.
Counts ==
  \A m \in List :
    /\ \A t \in Woken("wait", m) : hold[m] = 1
    /\ hold[m] = 0 <=> owner[m] = None

LockInv ==
  TypeOK /\ OneReason /\ Waiters /\ Takers /\ Counts /\ OneInside /\ NobodyWaitsForNothing

LEMMA LockFacts ==
  ASSUME MutexConstants, LockInv
  PROVE  /\ WaitInv /\ HoldMax \in Nat /\ HoldMax >= 1 /\ None \notin Thread
         /\ wait \in [List -> Seq(Thread)] /\ err \in [Thread -> {"OK", "ERROR", "ETIMEOUT"}]
         /\ pc \in [Thread -> Calling] /\ on \in [Thread -> List] /\ gone \in SUBSET List
         /\ value \in [List -> 0..1] /\ owner \in [List -> Thread \union {None}]
         /\ hold \in [List -> 0..HoldMax] /\ original \in [List -> Nat]
         /\ prio \in [Thread -> Nat] /\ depth \in [List -> [Thread -> 0..HoldMax]]
         /\ mixed \in SUBSET Thread
         /\ \A t \in Thread : Suspended(t) => pc[t] = "wait"
BY DEF LockInv, TypeOK, CallTypeOK, WaitInv, WaitTypeOK, Calling, Waiters, Suspended, MutexConstants

\* Who is first on a list is not the owner of its mutex.
LEMMA WaitingFacts ==
  ASSUME MutexConstants, LockInv, NEW m \in List, wait[m] # <<>>
  PROVE  /\ Head(wait[m]) \in Thread /\ Linked(wait[m], Head(wait[m]))
         /\ owner[m] \in Thread /\ owner[m] # Head(wait[m])
<1>1. Head(wait[m]) \in Thread /\ Linked(wait[m], Head(wait[m]))
  BY LockFacts, FirstFacts
<1> QED BY <1>1, LockFacts DEF LockInv, NobodyWaitsForNothing

\* The owner is in the mutex, and nobody else.
LEMMA OwnerFacts ==
  ASSUME MutexConstants, LockInv, NEW m \in List, NEW t \in Thread, owner[m] = t
  PROVE  /\ Inside(m) = {t} /\ value[m] = 0
         /\ \A x \in Thread : x # t => x \notin Woken("wait", m) /\ depth[m][x] = 0
         /\ depth[m][t] > 0 => hold[m] = depth[m][t]
         /\ pc[t] # "wait" => depth[m][t] > 0 /\ Woken("wait", m) = {}
<1>1. Inside(m) = {t} /\ value[m] = 0 /\ (depth[m][t] > 0 => hold[m] = depth[m][t])
  BY LockFacts DEF LockInv, OneInside
<1>2. \A x \in Thread : depth[m][x] \in Nat
  BY LockFacts
<1>3. Woken("wait", m) \subseteq Inside(m)
      /\ \A x \in Thread : x \notin Inside(m) => x \notin Woken("wait", m) /\ depth[m][x] = 0
  BY <1>2 DEF Inside
<1>4. pc[t] # "wait" => t \notin Woken("wait", m)
  BY DEF Woken, Back
<1>5. pc[t] # "wait" => depth[m][t] > 0
  BY <1>1, <1>4 DEF Inside
<1> QED BY <1>1, <1>3, <1>4, <1>5

\* Nobody is in a free mutex.
LEMMA FreeFacts ==
  ASSUME MutexConstants, LockInv, NEW m \in List, owner[m] = None
  PROVE  /\ Woken("wait", m) = {} /\ \A x \in Thread : depth[m][x] = 0
         /\ hold[m] = 0 /\ value[m] = 1
<1>1. Inside(m) = {} /\ hold[m] = 0 /\ value[m] = 1
  BY DEF LockInv, OneInside, Counts
<1>2. \A x \in Thread : depth[m][x] \in Nat
  BY LockFacts
<1> QED BY <1>1, <1>2 DEF Inside

LEMMA LockInit == MutexConstants /\ Init => LockInv
<1> SUFFICES ASSUME MutexConstants, Init PROVE LockInv
  OBVIOUS
<1>1. WaitInv /\ \A m \in List : wait[m] = <<>>
  BY WaitInitInv DEF Init, ObjectInit, WaitInit
<1>2. \A m \in List : \A t : ~Linked(wait[m], t)
  BY <1>1 DEF Linked
<1>3. SomeList \in List
  BY ObjectAssumption DEF SomeList
<1>4. TypeOK
  BY <1>1, <1>3, WaitAssumption DEF WaitInv, Init, ObjectInit, TypeOK, CallTypeOK, NoPriority, MutexConstants
<1>5. \A m \in List : /\ Inside(m) = {} /\ Woken("wait", m) = {} /\ owner[m] = None /\ value[m] = 1
                      /\ hold[m] = 0 /\ \A t \in Thread : depth[m][t] = 0 /\ pc[t] = "run"
  BY DEF Init, ObjectInit, Inside, Woken, Back
<1>6. Waiters /\ Takers /\ Counts /\ OneInside /\ NobodyWaitsForNothing
  BY <1>2, <1>5, ObjectAssumption DEF Waiters, Takers, Counts, OneInside, NobodyWaitsForNothing, Init, ObjectInit
<1> QED BY <1>1, <1>4, <1>6 DEF LockInv, WaitInv

\* What happens beside the mutexes: waiters leave with an error.
LEMMA LockBesides ==
  ASSUME MutexConstants, LockInv, NEW W, Leave(W), UNCHANGED mutexVars, gone' \in SUBSET List,
         pc' \in [Thread -> Calling], on' \in [Thread -> List],
         \A t \in Thread : pc'[t] = "wait" <=> pc[t] = "wait",
         \A t \in Thread : pc[t] = "wait" => on'[t] = on[t],
         \A t \in Thread : Suspended(t) /\ t \in W => err'[t] # "OK",
         \A t \in Thread : ~Suspended(t) \/ t \notin W => err'[t] = err[t]
  PROVE  LockInv'
<1>1. \A t : Suspended(t)' <=> Suspended(t) /\ t \notin W
  BY DEF Leave, Suspended
<1>2. UNCHANGED <<value, owner, hold, original, prio, depth, mixed>>
  BY DEF mutexVars, lockVars
<1>3. TypeOK' /\ WaitInv'
  BY <1>2 DEF Leave, WaitInv, LockInv, TypeOK, CallTypeOK, Calling
<1>4. \A m \in List, t \in Thread : Linked(wait'[m], t) => Linked(wait[m], t) /\ Suspended(t) /\ t \notin W
  BY DEF Leave, Suspended
<1>5. Waiters'
  BY <1>4 DEF LockInv, Waiters
<1>6. \A m \in List : Woken("wait", m)' = Woken("wait", m)
  BY <1>1, LockFacts DEF Woken, Back, LockInv, Waiters
<1>7. Takers'
  BY <1>2 DEF LockInv, Takers
<1>8. Counts' /\ OneInside'
  BY <1>2, <1>6 DEF LockInv, Counts, OneInside, Inside
<1>9. NobodyWaitsForNothing'
  BY <1>2, <1>4 DEF LockInv, NobodyWaitsForNothing
<1> QED BY <1>3, <1>5, <1>7, <1>8, <1>9 DEF LockInv, WaitInv

\* Steps that leave the lists alone.
LEMMA LockStand ==
  ASSUME MutexConstants, LockInv, UNCHANGED waitVars
  PROVE  /\ WaitInv' /\ UNCHANGED <<wait, armed, err>>
         /\ \A t : Suspended(t)' <=> Suspended(t)
BY LockFacts, WaitStutter DEF waitVars, Suspended

\* A thread is told how often it is in a mutex.
LEMMA ToldFacts ==
  ASSUME MutexConstants, LockInv, NEW t \in Thread, NEW m \in List, NEW n, Told(t, m, n)
  PROVE  /\ \A k \in List, x \in Thread :
              depth'[k][x] = IF k = m /\ x = t THEN n ELSE depth[k][x]
         /\ n \in 0..HoldMax => depth' \in [List -> [Thread -> 0..HoldMax]]
<1> DEFINE row == [depth[m] EXCEPT ![t] = n]
<1>1. depth \in [List -> [Thread -> 0..HoldMax]] /\ depth' = [depth EXCEPT ![m] = row]
  BY LockFacts DEF Told
<1>2. /\ row[t] = n /\ \A x \in Thread : x # t => row[x] = depth[m][x]
      /\ n \in 0..HoldMax => row \in [Thread -> 0..HoldMax]
  BY <1>1
<1> HIDE DEF row
<1>3. \A k \in List : depth'[k] = IF k = m THEN row ELSE depth[k]
  BY <1>1
<1> QED BY <1>1, <1>2, <1>3

LEMMA TakeAgainInv ==
  ASSUME MutexConstants, LockInv, NEW t \in Thread, NEW m \in List, TakeAgain(t, m)
  PROVE  LockInv'
<1>1. /\ pc[t] = "run" /\ owner[m] = t /\ hold[m] < HoldMax
      /\ hold' = [hold EXCEPT ![m] = hold[m] + 1]
      /\ Told(t, m, depth[m][t] + 1)
      /\ UNCHANGED waitVars /\ UNCHANGED <<pc, on, gone, value, owner, original, prio, mixed>>
  BY DEF TakeAgain, Asks, Calls, objectVars, callVars
<1>2. /\ WaitInv' /\ UNCHANGED <<wait, armed, err>>
      /\ \A x : Suspended(x)' <=> Suspended(x)
  BY <1>1, LockStand
<1>3. \A k \in List : Woken("wait", k)' = Woken("wait", k)
  BY <1>1, <1>2 DEF Woken, Back
<1>4. owner[m] = t /\ pc[t] # "wait"
  BY <1>1
<1>5. depth[m][t] > 0 /\ hold[m] = depth[m][t]
  BY <1>4, OwnerFacts
<1>6. Woken("wait", m) = {} /\ \A x \in Thread : x # t => depth[m][x] = 0
  BY <1>4, OwnerFacts
<1>7. TypeOK'
  <2>1. hold \in [List -> 0..HoldMax] /\ HoldMax \in Nat /\ hold[m] \in 0..HoldMax
    BY LockFacts
  <2>2. depth[m][t] + 1 \in 0..HoldMax
    BY <1>1, <1>5, <2>1
  <2>3. depth' \in [List -> [Thread -> 0..HoldMax]]
    BY <1>1, <2>2, ToldFacts
  <2>4. hold' \in [List -> 0..HoldMax]
    BY <1>1, <1>5, <2>1
  <2> QED BY <1>1, <1>2, <2>3, <2>4, LockFacts DEF WaitInv, TypeOK, CallTypeOK, Calling
<1>8. /\ \A k \in List : hold'[k] = IF k = m THEN hold[m] + 1 ELSE hold[k]
      /\ \A k \in List, x \in Thread :
           depth'[k][x] = IF k = m /\ x = t THEN depth[m][t] + 1 ELSE depth[k][x]
      /\ depth[m][t] \in Nat /\ hold[m] \in Nat
  <2>1. \A k \in List, x \in Thread :
           depth'[k][x] = IF k = m /\ x = t THEN depth[m][t] + 1 ELSE depth[k][x]
    BY <1>1, ToldFacts
  <2>2. hold \in [List -> 0..HoldMax] /\ depth \in [List -> [Thread -> 0..HoldMax]]
    BY LockFacts
  <2> QED BY <1>1, <2>1, <2>2
<1>9. Waiters' /\ NobodyWaitsForNothing'
  BY <1>1, <1>2 DEF LockInv, Waiters, NobodyWaitsForNothing
<1>10. Takers'
  <2>1. \A x \in Thread : pc'[x] = "wait" => x # t /\ on'[x] = on[x] /\ on[x] \in List /\ pc[x] = "wait"
    BY <1>1, LockFacts
  <2> QED BY <1>8, <2>1 DEF LockInv, Takers
<1>11. Counts'
  <2>1. hold[m] >= 1 /\ hold'[m] >= 1
    BY <1>1, <1>5, <1>8
  <2>2. \A k \in List : hold'[k] = 0 <=> owner'[k] = None
    BY <1>1, <1>8, <2>1 DEF LockInv, Counts
  <2>3. \A k \in List : \A x \in Woken("wait", k)' : hold'[k] = 1
    BY <1>3, <1>6, <1>8 DEF LockInv, Counts
  <2> QED BY <2>2, <2>3 DEF Counts
<1>12. OneInside'
  <2>1. \A k \in List : Inside(k)' = Inside(k)
    BY <1>3, <1>5, <1>8 DEF Inside
  <2> QED BY <1>1, <1>5, <1>6, <1>8, <2>1 DEF LockInv, OneInside
<1> QED BY <1>2, <1>7, <1>9, <1>10, <1>11, <1>12 DEF LockInv, WaitInv

LEMMA TakeNowInv ==
  ASSUME MutexConstants, LockInv, NEW t \in Thread, NEW m \in List, TakeNow(t, m)
  PROVE  LockInv'
<1>1. /\ pc[t] = "run" /\ owner[m] # t /\ value[m] > 0
      /\ value' = [value EXCEPT ![m] = value[m] - 1]
      /\ owner' = [owner EXCEPT ![m] = t]
      /\ original' = [original EXCEPT ![m] = prio[t]]
      /\ hold' = [hold EXCEPT ![m] = hold[m] + 1]
      /\ Told(t, m, 1)
      /\ mixed' \in SUBSET Thread
      /\ UNCHANGED waitVars /\ UNCHANGED <<pc, on, gone, prio>>
  BY LockFacts DEF TakeNow, Asks, Calls, Mixes, objectVars, callVars
<1>2. /\ WaitInv' /\ UNCHANGED <<wait, armed, err>>
      /\ \A x : Suspended(x)' <=> Suspended(x)
  BY <1>1, LockStand
<1>3. \A k \in List : Woken("wait", k)' = Woken("wait", k)
  BY <1>1, <1>2 DEF Woken, Back
<1>4. value[m] = 1 /\ owner[m] = None /\ hold[m] = 0 /\ 1 <= HoldMax
  <2>1. value[m] = 1 /\ HoldMax \in Nat /\ HoldMax # 0
    BY <1>1, LockFacts DEF MutexConstants
  <2> QED BY <2>1 DEF LockInv, OneInside, Counts
<1>5. Woken("wait", m) = {} /\ \A x \in Thread : depth[m][x] = 0
  BY <1>4, FreeFacts
<1>6. TypeOK'
  <2>1. 1 \in 0..HoldMax
    BY <1>4, LockFacts
  <2>2. depth' \in [List -> [Thread -> 0..HoldMax]]
    BY <1>1, <2>1, ToldFacts
  <2> QED BY <1>1, <1>2, <1>4, <2>1, <2>2, LockFacts DEF WaitInv, TypeOK, CallTypeOK, Calling
<1>7. /\ \A k \in List : /\ hold'[k] = IF k = m THEN 1 ELSE hold[k]
                         /\ owner'[k] = IF k = m THEN t ELSE owner[k]
                         /\ value'[k] = IF k = m THEN 0 ELSE value[k]
      /\ \A k \in List, x \in Thread :
           depth'[k][x] = IF k = m /\ x = t THEN 1 ELSE depth[k][x]
  <2>1. \A k \in List, x \in Thread :
           depth'[k][x] = IF k = m /\ x = t THEN 1 ELSE depth[k][x]
    BY <1>1, ToldFacts
  <2>2. /\ value \in [List -> 0..1] /\ owner \in [List -> Thread \union {None}]
        /\ hold \in [List -> 0..HoldMax]
    BY LockFacts
  <2>3. hold' = [hold EXCEPT ![m] = 1] /\ value' = [value EXCEPT ![m] = 0]
    BY <1>1, <1>4
  <2> QED BY <1>1, <2>1, <2>2, <2>3
<1>8. t # None
  BY DEF MutexConstants
<1>9. Waiters' /\ NobodyWaitsForNothing'
  BY <1>1, <1>2, <1>4, <1>7, LockFacts DEF LockInv, Waiters, NobodyWaitsForNothing
<1>10. Takers'
  <2>1. \A x \in Thread : pc'[x] = "wait" => x # t /\ on'[x] = on[x] /\ on[x] \in List /\ pc[x] = "wait"
    BY <1>1, LockFacts
  <2> QED BY <1>7, <2>1 DEF LockInv, Takers
<1>11. Counts'
  <2>1. \A k \in List : hold'[k] = 0 <=> owner'[k] = None
    BY <1>7, <1>8 DEF LockInv, Counts
  <2>2. \A k \in List : \A x \in Woken("wait", k)' : hold'[k] = 1
    BY <1>3, <1>5, <1>7 DEF LockInv, Counts
  <2> QED BY <2>1, <2>2 DEF Counts
<1>12. OneInside'
  <2>1. Inside(m)' = {t}
    BY <1>3, <1>5, <1>7 DEF Inside
  <2>2. \A k \in List : k # m => Inside(k)' = Inside(k)
    BY <1>3, <1>7 DEF Inside
  <2>3. ASSUME NEW k \in List
        PROVE  /\ Inside(k)' = (IF owner'[k] = None THEN {} ELSE {owner'[k]})
               /\ \A x \in Thread : depth'[k][x] > 0 => hold'[k] = depth'[k][x]
               /\ value'[k] = 1 <=> owner'[k] = None
    <3>1. CASE k = m
      BY <1>5, <1>7, <1>8, <2>1, <3>1
    <3>2. CASE k # m
      BY <1>7, <2>2, <3>2 DEF LockInv, OneInside
    <3> QED BY <3>1, <3>2
  <2> QED BY <2>3 DEF OneInside
<1> QED BY <1>2, <1>6, <1>9, <1>10, <1>11, <1>12 DEF LockInv, WaitInv

LEMMA ReleaseNestedInv ==
  ASSUME MutexConstants, LockInv, NEW t \in Thread, NEW m \in List, ReleaseNested(t, m)
  PROVE  LockInv'
<1>1. /\ pc[t] = "run" /\ owner[m] = t /\ hold[m] > 1
      /\ hold' = [hold EXCEPT ![m] = hold[m] - 1]
      /\ Told(t, m, depth[m][t] - 1)
      /\ UNCHANGED waitVars /\ UNCHANGED <<pc, on, gone, value, owner, original, prio, mixed>>
  BY DEF ReleaseNested, Calls, objectVars, callVars
<1>2. /\ WaitInv' /\ UNCHANGED <<wait, armed, err>>
      /\ \A x : Suspended(x)' <=> Suspended(x)
  BY <1>1, LockStand
<1>3. \A k \in List : Woken("wait", k)' = Woken("wait", k)
  BY <1>1, <1>2 DEF Woken, Back
<1>4. owner[m] = t /\ pc[t] # "wait"
  BY <1>1
<1>5. depth[m][t] > 0 /\ hold[m] = depth[m][t] /\ depth[m][t] \in 0..HoldMax
  BY <1>4, OwnerFacts, LockFacts
<1>6. Woken("wait", m) = {} /\ \A x \in Thread : x # t => depth[m][x] = 0
  BY <1>4, OwnerFacts
<1>7. TypeOK'
  <2>1. hold \in [List -> 0..HoldMax] /\ HoldMax \in Nat /\ hold[m] \in 0..HoldMax
    BY LockFacts
  <2>2. depth[m][t] - 1 \in 0..HoldMax
    BY <1>1, <1>5, <2>1
  <2>3. depth' \in [List -> [Thread -> 0..HoldMax]]
    BY <1>1, <2>2, ToldFacts
  <2>4. hold' \in [List -> 0..HoldMax]
    BY <1>1, <1>5, <2>1
  <2> QED BY <1>1, <1>2, <2>3, <2>4, LockFacts DEF WaitInv, TypeOK, CallTypeOK, Calling
<1>8. /\ \A k \in List : hold'[k] = IF k = m THEN hold[m] - 1 ELSE hold[k]
      /\ \A k \in List, x \in Thread :
           depth'[k][x] = IF k = m /\ x = t THEN depth[m][t] - 1 ELSE depth[k][x]
      /\ depth[m][t] \in Nat /\ hold[m] \in Nat
  <2>1. \A k \in List, x \in Thread :
           depth'[k][x] = IF k = m /\ x = t THEN depth[m][t] - 1 ELSE depth[k][x]
    BY <1>1, ToldFacts
  <2>2. hold \in [List -> 0..HoldMax] /\ depth \in [List -> [Thread -> 0..HoldMax]]
    BY LockFacts
  <2> QED BY <1>1, <2>1, <2>2
<1>9. Waiters' /\ NobodyWaitsForNothing'
  BY <1>1, <1>2 DEF LockInv, Waiters, NobodyWaitsForNothing
<1>10. Takers'
  <2>1. \A x \in Thread : pc'[x] = "wait" => x # t /\ on'[x] = on[x] /\ on[x] \in List /\ pc[x] = "wait"
    BY <1>1, LockFacts
  <2> QED BY <1>8, <2>1 DEF LockInv, Takers
<1>11. Counts'
  BY <1>1, <1>3, <1>5, <1>6, <1>8 DEF LockInv, Counts
<1>12. OneInside'
  <2>1. \A k \in List : Inside(k)' = Inside(k)
    BY <1>1, <1>3, <1>5, <1>8 DEF Inside
  <2> QED BY <1>1, <1>5, <1>6, <1>8, <2>1 DEF LockInv, OneInside
<1> QED BY <1>2, <1>7, <1>9, <1>10, <1>11, <1>12 DEF LockInv, WaitInv

LEMMA TakeReturnInv ==
  ASSUME MutexConstants, LockInv, NEW t \in Thread, TakeReturn(t)
  PROVE  LockInv'
<1>0. PICK m \in List : m = on[t]
  BY LockFacts
<1>1. /\ pc[t] = "wait" /\ ~Suspended(t)
      /\ IF err[t] = "OK" THEN Told(t, m, 1) ELSE UNCHANGED depth
      /\ pc' = [pc EXCEPT ![t] = "run"] /\ on' = [on EXCEPT ![t] = SomeList]
      /\ UNCHANGED waitVars /\ UNCHANGED <<gone, value, owner, hold, original, prio, mixed>>
  BY <1>0 DEF TakeReturn, Back, Return, Goto, lockVars
<1>2. /\ WaitInv' /\ UNCHANGED <<wait, armed, err>>
      /\ \A x : Suspended(x)' <=> Suspended(x)
  BY <1>1, LockStand
<1>3. SomeList \in List /\ depth[m][t] = 0
  BY <1>0, <1>1, LockFacts DEF SomeList, LockInv, Takers
<1>4. /\ pc'[t] = "run" /\ \A x \in Thread : x # t => pc'[x] = pc[x] /\ on'[x] = on[x]
      /\ on' \in [Thread -> List] /\ pc' \in [Thread -> Calling]
  BY <1>1, <1>3, LockFacts DEF Calling
<1>5. \A k \in List : Woken("wait", k)' = Woken("wait", k) \ {t}
  BY <1>1, <1>2, <1>4 DEF Woken, Back
<1>6. t \in Woken("wait", m) <=> err[t] = "OK"
  BY <1>0, <1>1 DEF Woken, Back
<1>7. err[t] = "OK" => hold[m] = 1 /\ owner[m] = t /\ Woken("wait", m) \subseteq {t}
                       /\ \A x \in Thread : depth[m][x] = 0
  <2>1. SUFFICES ASSUME err[t] = "OK"
                 PROVE  hold[m] = 1 /\ owner[m] = t /\ Woken("wait", m) \subseteq {t}
                        /\ \A x \in Thread : depth[m][x] = 0
    OBVIOUS
  <2>2. t \in Inside(m) /\ hold[m] = 1
    BY <1>3, <1>6, <2>1 DEF LockInv, Counts, Inside
  <2>3. owner[m] = t
    BY <1>3, <2>2 DEF LockInv, OneInside
  <2> QED BY <1>3, <2>2, <2>3, OwnerFacts DEF Woken
<1>8. /\ depth' \in [List -> [Thread -> 0..HoldMax]]
      /\ \A k \in List, x \in Thread :
           depth'[k][x] = IF k = m /\ x = t /\ err[t] = "OK" THEN 1 ELSE depth[k][x]
  <2>1. CASE err[t] = "OK"
    <3>1. Told(t, m, 1) /\ 1 \in 0..HoldMax
      BY <1>1, <2>1, LockFacts
    <3> QED BY <1>3, <2>1, <3>1, ToldFacts
  <2>2. CASE err[t] # "OK"
    BY <1>1, <2>2, LockFacts
  <2> QED BY <2>1, <2>2
<1>9. TypeOK'
  BY <1>1, <1>2, <1>4, <1>8, LockFacts DEF WaitInv, TypeOK, CallTypeOK, Calling
<1>14. \A k \in List : k # m => t \notin Woken("wait", k)
  BY <1>0 DEF Woken
<1>10. Waiters' /\ NobodyWaitsForNothing'
  <2>1. \A k \in List : ~Linked(wait[k], t)
    BY <1>1 DEF Suspended
  <2> QED BY <1>1, <1>2, <1>4, <2>1 DEF LockInv, Waiters, NobodyWaitsForNothing
<1>11. Takers'
  <2>1. \A x \in Thread : pc'[x] = "wait" => x # t /\ on'[x] = on[x] /\ on[x] \in List /\ pc[x] = "wait"
    BY <1>4, LockFacts
  <2>2. \A x \in Thread : x # t => \A k \in List : depth'[k][x] = depth[k][x]
    BY <1>8
  <2> QED BY <2>1, <2>2 DEF LockInv, Takers
<1>12. Counts'
  BY <1>1, <1>5 DEF LockInv, Counts
<1>13. OneInside'
  <2>1. \A k \in List : k # m => Inside(k)' = Inside(k)
    BY <1>5, <1>8, <1>14 DEF Inside
  <2>2. Inside(m)' = Inside(m)
    <3>1. \A x \in Thread : x # t => (x \in Inside(m)' <=> x \in Inside(m))
      BY <1>3, <1>5, <1>8 DEF Inside
    <3>2. t \in Inside(m)' <=> err[t] = "OK"
      BY <1>3, <1>5, <1>8 DEF Inside
    <3>3. t \in Inside(m) <=> err[t] = "OK"
      BY <1>3, <1>6 DEF Inside
    <3> QED BY <3>1, <3>2, <3>3 DEF Inside, Woken
  <2>3. \A x \in Thread : depth'[m][x] > 0 => hold[m] = depth'[m][x]
    <3>1. CASE err[t] = "OK"
      BY <1>3, <1>7, <1>8, <3>1
    <3>2. CASE err[t] # "OK"
      BY <1>3, <1>8, <3>2 DEF LockInv, OneInside
    <3> QED BY <3>1, <3>2
  <2> QED BY <1>1, <1>8, <2>1, <2>2, <2>3 DEF LockInv, OneInside
<1> QED BY <1>2, <1>9, <1>10, <1>11, <1>12, <1>13 DEF LockInv, WaitInv

\* A priority list has the new waiter as a FIFO list has it, wherever it is put.
LEMMA WaitersFacts ==
  ASSUME MutexConstants, LockInv, NEW t \in Thread, NEW m \in List, ~Suspended(t),
         NEW q, q = LinkBefore(wait[m], t, Outranked(t, m))
  PROVE  /\ q \in Seq(Thread) /\ Once(q)
         /\ \A x : Linked(q, x) <=> Linked(wait[m], x) \/ x = t
<1>1. wait[m] \in Seq(Thread) /\ Once(wait[m]) /\ ~Linked(wait[m], t)
  BY LockFacts DEF WaitInv, OneReason, Suspended
<1> QED BY <1>1, LinkBeforeFacts

LEMMA TakeWaitInv ==
  ASSUME MutexConstants, LockInv, NEW t \in Thread, NEW m \in List, NEW limited,
         TakeWait(t, m, limited)
  PROVE  LockInv'
<1>1. /\ pc[t] = "run" /\ owner[m] # t /\ value[m] = 0
      /\ prio' = Inherited(t, m)
      /\ pc' = [pc EXCEPT ![t] = "wait"] /\ on' = [on EXCEPT ![t] = m]
      /\ mixed' \in SUBSET Thread
      /\ UNCHANGED <<gone, value, owner, hold, original, depth>>
  BY LockFacts DEF TakeWait, Asks, Calls, Goto, Mixes, lockVars
<1>2. PICK q : q = LinkBefore(wait[m], t, Outranked(t, m)) /\ Park(m, t, q, limited)
  BY DEF TakeWait
<1>3. ~Suspended(t)
  BY <1>1, LockFacts
<1>4. owner[m] \in Thread
  BY <1>1, LockFacts DEF LockInv, OneInside
<1>5. /\ WaitInv' /\ err' = [err EXCEPT ![t] = "OK"]
      /\ \A k \in List : \A x : Linked(wait'[k], x) <=> Linked(wait[k], x) \/ (k = m /\ x = t)
  <2>1. WaitInv /\ q \in Seq(Thread) /\ Once(q)
        /\ \A x : Linked(q, x) <=> Linked(wait[m], x) \/ x = t
    BY <1>2, <1>3, WaitersFacts, LockFacts
  <2> QED BY <1>2, <1>3, <2>1, ParkFacts
<1>6. \A x : Suspended(x)' <=> Suspended(x) \/ x = t
  BY <1>5 DEF Suspended
<1>7. prio' \in [Thread -> Nat]
  BY <1>1, <1>4, LockFacts DEF Inherited
<1>8. TypeOK'
  BY <1>1, <1>5, <1>7, LockFacts DEF WaitInv, TypeOK, CallTypeOK, Calling
<1>9. \A x \in Thread : /\ pc'[x] = IF x = t THEN "wait" ELSE pc[x]
                        /\ on'[x] = IF x = t THEN m ELSE on[x]
                        /\ err'[x] = IF x = t THEN "OK" ELSE err[x]
  BY <1>1, <1>5, LockFacts
<1>10. \A k \in List : Woken("wait", k)' = Woken("wait", k)
  BY <1>1, <1>6, <1>9 DEF Woken, Back
<1>11. Waiters'
  BY <1>3, <1>5, <1>9 DEF LockInv, Waiters, Suspended
<1>12. depth[m][t] = 0
  BY <1>1, <1>4, OwnerFacts
<1>13. Takers'
  BY <1>1, <1>9, <1>12 DEF LockInv, Takers
<1>14. Counts' /\ OneInside'
  BY <1>1, <1>10 DEF LockInv, Counts, OneInside, Inside
<1>15. NobodyWaitsForNothing'
  BY <1>1, <1>4, <1>5, LockFacts DEF LockInv, NobodyWaitsForNothing
<1> QED BY <1>5, <1>8, <1>11, <1>13, <1>14, <1>15 DEF LockInv, WaitInv

LEMMA HandOverInv ==
  ASSUME MutexConstants, LockInv, NEW t \in Thread, NEW m \in List, ReleaseLast(t, m),
         wait[m] # <<>>
  PROVE  LockInv'
<1>0. PICK w \in Thread : w = Head(wait[m]) /\ Linked(wait[m], w) /\ w # t
  BY WaitingFacts DEF ReleaseLast
<1>1. /\ pc[t] = "run" /\ owner[m] = t /\ hold[m] = 1
      /\ prio' = [prio EXCEPT ![t] = original[m]]
      /\ Told(t, m, 0) /\ Resume(m)
      /\ owner' = [owner EXCEPT ![m] = w] /\ original' = [original EXCEPT ![m] = prio[w]]
      /\ UNCHANGED <<pc, on, gone, value, hold, mixed>>
  BY <1>0 DEF ReleaseLast, Calls, Restored, callVars
<1>2. Leave({w}) /\ err' = err
  BY <1>0, <1>1, LockFacts, ResumeFacts
<1>3. \A x : Suspended(x)' <=> Suspended(x) /\ x # w
  BY <1>2 DEF Leave, Suspended
<1>4. WaitInv' /\ \A k \in List, x \in Thread : Linked(wait'[k], x) <=> Linked(wait[k], x) /\ x # w
  BY <1>2 DEF Leave
<1>5. /\ depth' \in [List -> [Thread -> 0..HoldMax]]
      /\ \A k \in List, x \in Thread : depth'[k][x] = IF k = m /\ x = t THEN 0 ELSE depth[k][x]
  <2>1. 0 \in 0..HoldMax
    BY LockFacts
  <2> QED BY <1>1, <2>1, ToldFacts
<1>6. TypeOK'
  BY <1>1, <1>4, <1>5, LockFacts DEF WaitInv, TypeOK, CallTypeOK, Calling
<1>7. pc[w] = "wait" /\ on[w] = m /\ err[w] = "OK" /\ Suspended(w) /\ w # None
  BY <1>0, LockFacts DEF LockInv, Waiters, Suspended
<1>8. \A k \in List : Woken("wait", k)' = IF k = m THEN Woken("wait", m) \union {w} ELSE Woken("wait", k)
  BY <1>1, <1>2, <1>3, <1>7 DEF Woken, Back
<1>9. Woken("wait", m) = {} /\ value[m] = 0 /\ \A x \in Thread : x # t => depth[m][x] = 0
  BY <1>1, OwnerFacts
<1>16. \A x \in Thread : depth'[m][x] = 0
  BY <1>5, <1>9
<1>10. \A k \in List : owner'[k] = IF k = m THEN w ELSE owner[k]
  BY <1>1, LockFacts
<1>11. Waiters'
  BY <1>1, <1>2, <1>4 DEF LockInv, Waiters
<1>12. Takers'
  <2>1. \A x \in Thread : pc'[x] = "wait" => x # t /\ on'[x] = on[x] /\ on[x] \in List /\ pc[x] = "wait"
    BY <1>1, LockFacts
  <2> QED BY <1>5, <2>1 DEF LockInv, Takers
<1>13. Counts'
  <2>1. \A k \in List : hold'[k] = 0 <=> owner'[k] = None
    BY <1>1, <1>7, <1>10 DEF LockInv, Counts
  <2>2. \A k \in List : \A x \in Woken("wait", k)' : hold'[k] = 1
    BY <1>1, <1>8 DEF LockInv, Counts
  <2> QED BY <2>1, <2>2 DEF Counts
<1>14. OneInside'
  <2>1. Inside(m)' = {w}
    <3>1. Woken("wait", m)' = {w}
      BY <1>8, <1>9
    <3>2. {x \in Thread : depth'[m][x] > 0} = {}
      BY <1>16
    <3> QED BY <3>1, <3>2 DEF Inside
  <2>2. \A k \in List : k # m => Inside(k)' = Inside(k)
    BY <1>5, <1>8 DEF Inside
  <2>3. ASSUME NEW k \in List
        PROVE  /\ Inside(k)' = (IF owner'[k] = None THEN {} ELSE {owner'[k]})
               /\ \A x \in Thread : depth'[k][x] > 0 => hold'[k] = depth'[k][x]
               /\ value'[k] = 1 <=> owner'[k] = None
    <3>1. CASE k = m
      BY <1>1, <1>7, <1>9, <1>10, <1>16, <2>1, <3>1
    <3>2. CASE k # m
      <4>1. /\ Inside(k)' = Inside(k) /\ owner'[k] = owner[k] /\ hold'[k] = hold[k]
            /\ value'[k] = value[k] /\ \A x \in Thread : depth'[k][x] = depth[k][x]
        BY <1>1, <1>5, <1>10, <2>2, <3>2
      <4> QED BY <4>1 DEF LockInv, OneInside
    <3> QED BY <3>1, <3>2
  <2> QED BY <2>3 DEF OneInside
<1>15. NobodyWaitsForNothing'
  BY <1>4, <1>7, <1>10 DEF LockInv, NobodyWaitsForNothing
<1> QED BY <1>4, <1>6, <1>11, <1>12, <1>13, <1>14, <1>15 DEF LockInv, WaitInv

LEMMA FreeInv ==
  ASSUME MutexConstants, LockInv, NEW t \in Thread, NEW m \in List, ReleaseLast(t, m),
         wait[m] = <<>>
  PROVE  LockInv'
<1>1. /\ pc[t] = "run" /\ owner[m] = t /\ hold[m] = 1
      /\ prio' = [prio EXCEPT ![t] = original[m]]
      /\ Told(t, m, 0) /\ UNCHANGED waitVars
      /\ value' = [value EXCEPT ![m] = value[m] + 1] /\ owner' = [owner EXCEPT ![m] = None]
      /\ original' = [original EXCEPT ![m] = NoPriority] /\ hold' = [hold EXCEPT ![m] = 0]
      /\ UNCHANGED <<pc, on, gone, mixed>>
  BY DEF ReleaseLast, Calls, Restored, callVars
<1>2. /\ WaitInv' /\ UNCHANGED <<wait, armed, err>>
      /\ \A x : Suspended(x)' <=> Suspended(x)
  BY <1>1, LockStand
<1>3. \A k \in List : Woken("wait", k)' = Woken("wait", k)
  BY <1>1, <1>2 DEF Woken, Back
<1>4. Woken("wait", m) = {} /\ value[m] = 0 /\ \A x \in Thread : x # t => depth[m][x] = 0
  BY <1>1, OwnerFacts
<1>5. /\ depth' \in [List -> [Thread -> 0..HoldMax]]
      /\ \A k \in List, x \in Thread : depth'[k][x] = IF k = m /\ x = t THEN 0 ELSE depth[k][x]
  <2>1. 0 \in 0..HoldMax
    BY LockFacts
  <2> QED BY <1>1, <2>1, ToldFacts
<1>16. \A x \in Thread : depth'[m][x] = 0
  BY <1>5, <1>4
<1>6. TypeOK'
  <2>1. /\ value' \in [List -> 0..1] /\ owner' \in [List -> Thread \union {None}]
        /\ hold' \in [List -> 0..HoldMax] /\ original' \in [List -> Nat]
    BY <1>1, <1>4, LockFacts DEF NoPriority
  <2>2. prio' \in [Thread -> Nat]
    BY <1>1, LockFacts
  <2> QED BY <1>1, <1>2, <1>5, <2>1, <2>2, LockFacts DEF WaitInv, TypeOK, CallTypeOK, Calling
<1>7. \A k \in List : /\ owner'[k] = IF k = m THEN None ELSE owner[k]
                      /\ hold'[k] = IF k = m THEN 0 ELSE hold[k]
                      /\ value'[k] = IF k = m THEN 1 ELSE value[k]
  BY <1>1, <1>4, LockFacts
<1>8. Waiters'
  BY <1>1, <1>2 DEF LockInv, Waiters
<1>9. Takers'
  <2>1. \A x \in Thread : pc'[x] = "wait" => x # t /\ on'[x] = on[x] /\ on[x] \in List /\ pc[x] = "wait"
    BY <1>1, LockFacts
  <2> QED BY <1>5, <2>1 DEF LockInv, Takers
<1>10. Counts'
  <2>1. \A k \in List : hold'[k] = 0 <=> owner'[k] = None
    BY <1>7 DEF LockInv, Counts
  <2>2. \A k \in List : \A x \in Woken("wait", k)' : hold'[k] = 1
    BY <1>3, <1>4, <1>7 DEF LockInv, Counts
  <2> QED BY <2>1, <2>2 DEF Counts
<1>11. OneInside'
  <2>1. Inside(m)' = {}
    BY <1>3, <1>4, <1>16 DEF Inside
  <2>2. \A k \in List : k # m => Inside(k)' = Inside(k)
    BY <1>3, <1>5 DEF Inside
  <2>3. ASSUME NEW k \in List
        PROVE  /\ Inside(k)' = (IF owner'[k] = None THEN {} ELSE {owner'[k]})
               /\ \A x \in Thread : depth'[k][x] > 0 => hold'[k] = depth'[k][x]
               /\ value'[k] = 1 <=> owner'[k] = None
    <3>1. CASE k = m
      BY <1>4, <1>7, <1>16, <2>1, <3>1
    <3>2. CASE k # m
      <4>1. /\ Inside(k)' = Inside(k) /\ owner'[k] = owner[k] /\ hold'[k] = hold[k]
            /\ value'[k] = value[k] /\ \A x \in Thread : depth'[k][x] = depth[k][x]
        BY <1>5, <1>7, <2>2, <3>2
      <4> QED BY <4>1 DEF LockInv, OneInside
    <3> QED BY <3>1, <3>2
  <2> QED BY <2>3 DEF OneInside
<1>12. NobodyWaitsForNothing'
  <2>1. \A x : ~Linked(wait[m], x)
    BY DEF Linked
  <2> QED BY <1>2, <1>7, <2>1 DEF LockInv, NobodyWaitsForNothing
<1> QED BY <1>2, <1>6, <1>8, <1>9, <1>10, <1>11, <1>12 DEF LockInv, WaitInv

LEMMA LockOutside ==
  ASSUME MutexConstants, LockInv, Outside
  PROVE  LockInv'
<1>1. /\ pc \in [Thread -> Calling] /\ on \in [Thread -> List] /\ gone \in SUBSET List
      /\ err \in [Thread -> {"OK", "ERROR", "ETIMEOUT"}] /\ UNCHANGED mutexVars
      /\ WaitInv
  BY LockFacts DEF Outside
<1>2. CASE TimerExpires
  <2>1. PICK t \in Thread : Timeout(t)
    BY <1>2 DEF TimerExpires
  <2>2. UNCHANGED <<pc, on, gone>>
    BY <1>2 DEF TimerExpires, callVars
  <2>3. Leave({t}) /\ err' = [err EXCEPT ![t] = "ETIMEOUT"] /\ Suspended(t)
    BY <1>1, <2>1, TimeoutFacts
  <2> QED BY <1>1, <2>2, <2>3, LockBesides
<1>3. ASSUME UNCHANGED waitVars, gone' \in SUBSET List, NEW t \in Thread, pc[t] # "wait",
             NEW c \in Calling \ {"wait"}, NEW l \in List,
             pc' = [pc EXCEPT ![t] = c], on' = [on EXCEPT ![t] = l]
      PROVE  LockInv'
  <2>1. Leave({}) /\ err' = err
    BY <1>1, <1>3, WaitStutter DEF Leave, waitVars
  <2> QED BY <1>1, <1>3, <2>1, LockBesides
<1>4. ASSUME NEW t \in Thread, NEW m \in List, Detach(t, m, {m})
      PROVE  LockInv'
  <2>1. /\ UNCHANGED waitVars /\ gone' \in SUBSET List /\ pc[t] = "run"
        /\ pc' = [pc EXCEPT ![t] = "detach"] /\ on' = [on EXCEPT ![t] = m]
    BY <1>1, <1>4 DEF Detach, Calls, Goto
  <2>2. "detach" \in Calling \ {"wait"}
    BY DEF Calling
  <2> QED BY <1>3, <2>1, <2>2
<1>5. ASSUME NEW t \in Thread, DetachTest(t, {})
      PROVE  LockInv'
  <2>1. /\ UNCHANGED waitVars /\ gone' \in SUBSET List /\ pc[t] = "detach"
        /\ \E c \in {"resume", "run"}, l \in List :
             pc' = [pc EXCEPT ![t] = c] /\ on' = [on EXCEPT ![t] = l]
    BY <1>1, <1>5, ObjectAssumption DEF DetachTest, Return, Goto, SomeList
  <2> QED BY <1>3, <2>1 DEF Calling
<1>6. ASSUME NEW t \in Thread, DetachResume(t)
      PROVE  LockInv'
  <2>1. PICK l \in List : on[t] = l
    BY <1>1
  <2>2. /\ gone' = gone /\ pc[t] = "resume"
        /\ \E c \in {"detach", "astray"} : pc' = [pc EXCEPT ![t] = c] /\ on' = [on EXCEPT ![t] = l]
    BY <1>6, <2>1 DEF DetachResume, Goto
  <2>3. CASE wait[l] = <<>>
    <3>1. UNCHANGED waitVars
      BY <1>6, <2>1, <2>3 DEF DetachResume
    <3> QED BY <1>1, <1>3, <2>2, <3>1 DEF Calling
  <2>4. CASE wait[l] # <<>>
    <3>1. ResumeFailed(l)
      BY <1>6, <2>1, <2>4 DEF DetachResume
    <3>2. PICK h \in Thread : h = Head(wait[l]) /\ Suspended(h)
      BY <1>1, <2>4, FirstFacts DEF Suspended
    <3>3. Leave({h}) /\ err' = [err EXCEPT ![h] = "ERROR"]
      BY <1>1, <2>4, <3>1, <3>2, ResumeFailedFacts
    <3>4. /\ pc' \in [Thread -> Calling] /\ on' \in [Thread -> List]
          /\ \A x \in Thread : pc'[x] = "wait" <=> pc[x] = "wait"
          /\ \A x \in Thread : pc[x] = "wait" => on'[x] = on[x]
      BY <1>1, <2>2 DEF Calling
    <3> QED BY <1>1, <2>2, <3>2, <3>3, <3>4, LockBesides
  <2> QED BY <2>3, <2>4
<1> QED BY <1>2, <1>4, <1>5, <1>6 DEF Outside

LEMMA LockStep == MutexConstants /\ LockInv /\ [Next]_vars => LockInv'
<1> SUFFICES ASSUME MutexConstants, LockInv, [Next]_vars PROVE LockInv'
  OBVIOUS
<1>1. CASE UNCHANGED vars
  <2>1. UNCHANGED waitVars /\ UNCHANGED mutexVars /\ UNCHANGED <<pc, on, gone>>
    BY <1>1 DEF vars, objectVars, callVars
  <2>2. Leave({}) /\ err' = err
    BY <2>1, LockFacts, WaitStutter DEF Leave, waitVars
  <2> QED BY <2>1, <2>2, LockFacts, LockBesides
<1>2. CASE Outside
  BY <1>2, LockOutside
<1>3. ASSUME NEW t \in Thread, TakeReturn(t)
      PROVE  LockInv'
  BY <1>3, TakeReturnInv
<1>4. ASSUME NEW t \in Thread, NEW m \in List,
             \/ TakeNow(t, m) \/ TakeAgain(t, m) \/ ReleaseNested(t, m)
             \/ \E limited \in Timed : TakeWait(t, m, limited)
      PROVE  LockInv'
  BY <1>4, TakeNowInv, TakeAgainInv, ReleaseNestedInv, TakeWaitInv
<1>5. ASSUME NEW t \in Thread, NEW m \in List, ReleaseLast(t, m)
      PROVE  LockInv'
  BY <1>5, HandOverInv, FreeInv
<1> QED BY <1>1, <1>2, <1>3, <1>4, <1>5 DEF Next

\* ipc.c: a thread is in a mutex exactly when it is the owner, as often as the count says, and
\* nobody waits for a free mutex or for its own, whatever times out or is detached meanwhile.
THEOREM MutualExclusion == MutexConstants => (Spec => [](OneInside /\ NobodyWaitsForNothing))
<1> SUFFICES ASSUME MutexConstants PROVE Spec => [](OneInside /\ NobodyWaitsForNothing)
  OBVIOUS
<1>1. Init => LockInv
  BY LockInit
<1>2. LockInv /\ [Next]_vars => LockInv'
  BY LockStep
<1>3. LockInv => OneInside /\ NobodyWaitsForNothing
  BY DEF LockInv
<1> QED BY <1>1, <1>2, <1>3, PTL DEF Spec

-----------------------------------------------------------------------------
(* Priorities *)

\* A thread in one mutex at a time owns one at most, none while it waits for another,
\* and the mutex has its own priority saved.
Single ==
  \A t \in Thread \ mixed, m \in List : owner[m] = t =>
    /\ original[m] = Level[t]
    /\ \A k \in List : owner[k] = t => k = m
    /\ pc[t] = "wait" => on[t] = m

\* Nobody who waits in front of a thread in one mutex at a time is outranked by it,
\* whatever priority the one in front has inherited since.
InOrder ==
  \A m \in PrioList, x \in Thread, y \in Thread \ mixed :
    Before(wait[m], x, y) => prio[x] <= Level[y]

PrioInv == LockInv /\ Single /\ InOrder /\ PriorityRestored /\ OwnerOutranks
Priorities == Single /\ InOrder /\ PriorityRestored /\ OwnerOutranks

LEMMA PrioFacts ==
  ASSUME MutexConstants, PrioInv
  PROVE  /\ LockInv /\ Priorities
         /\ mixed \in SUBSET Thread /\ PrioList \subseteq List
         /\ prio \in [Thread -> Nat] /\ Level \in [Thread -> Nat] /\ original \in [List -> Nat]
         /\ owner \in [List -> Thread \union {None}] /\ None \notin Thread
         /\ \A m \in List, t \in Thread : Linked(wait[m], t) =>
              /\ pc[t] = "wait" /\ on[t] = m /\ owner[m] \in Thread /\ owner[m] # t
              /\ t \notin mixed => prio[t] = Level[t] /\ \A k \in List : owner[k] # t
<1>1. /\ LockInv /\ Priorities
  BY DEF PrioInv, Priorities
<1>2. ASSUME NEW m \in List, NEW t \in Thread, Linked(wait[m], t)
      PROVE  /\ pc[t] = "wait" /\ on[t] = m /\ owner[m] \in Thread /\ owner[m] # t
             /\ t \notin mixed => prio[t] = Level[t] /\ \A k \in List : owner[k] # t
  <2>1. pc[t] = "wait" /\ on[t] = m /\ owner[m] \in Thread /\ owner[m] # t
    BY <1>1, <1>2, LockFacts DEF LockInv, Waiters, NobodyWaitsForNothing
  <2>2. t \notin mixed => \A k \in List : owner[k] # t
    BY <1>1, <2>1 DEF Priorities, Single
  <2> QED BY <1>1, <2>1, <2>2 DEF Priorities, PriorityRestored
<1> QED BY <1>1, <1>2, LockFacts, WaitAssumption

LEMMA PrioInit == MutexConstants /\ Init => PrioInv
<1> SUFFICES ASSUME MutexConstants, Init PROVE PrioInv
  OBVIOUS
<1>1. /\ \A m \in List : owner[m] = None /\ wait[m] = <<>>
      /\ prio = Level
  BY DEF Init, ObjectInit, WaitInit
<1>2. \A x, y : ~Before(<<>>, x, y) /\ ~Linked(<<>>, x)
  BY DEF Before, Linked
<1>3. Single /\ InOrder /\ PriorityRestored /\ OwnerOutranks
  BY <1>1, <1>2, WaitAssumption DEF Single, InOrder, PriorityRestored, OwnerOutranks, MutexConstants
<1> QED BY <1>3, LockInit DEF PrioInv

\* What leaves owners and priorities alone, and lets waiters go at most.
LEMMA PrioBesides ==
  ASSUME MutexConstants, PrioInv, UNCHANGED <<owner, original, prio, mixed>>,
         gone \subseteq gone',
         \A m \in List, x \in Thread : Linked(wait'[m], x) => Linked(wait[m], x),
         \A m \in List, x \in Thread, y \in Thread : Before(wait'[m], x, y) => Before(wait[m], x, y),
         \A x \in Thread : pc'[x] = "wait" => pc[x] = "wait" /\ on'[x] = on[x]
  PROVE  Priorities'
<1>1. Single'
  BY PrioFacts DEF Priorities, Single
<1>2. InOrder'
  BY PrioFacts DEF Priorities, InOrder
<1>3. PriorityRestored'
  BY PrioFacts DEF Priorities, PriorityRestored
<1>4. OwnerOutranks'
  BY PrioFacts DEF Priorities, OwnerOutranks
<1> QED BY <1>1, <1>2, <1>3, <1>4 DEF Priorities

\* Who is in no other mutex when it asks for m owns none.
LEMMA MixesFacts ==
  ASSUME MutexConstants, PrioInv, NEW t \in Thread, NEW m \in List, Mixes(t, m),
         pc[t] = "run", owner[m] # t
  PROVE  /\ mixed \subseteq mixed' /\ mixed' \subseteq mixed \union {t}
         /\ t \notin mixed' => prio[t] = Level[t] /\ \A k \in List : owner[k] # t
<1>1. mixed \subseteq mixed' /\ mixed' \subseteq mixed \union {t}
  BY DEF Mixes
<1>2. ASSUME t \notin mixed'
      PROVE  \A k \in List : owner[k] # t
  <2>1. Holds(t) \ {m} = {}
    BY <1>2 DEF Mixes
  <2>2. \A k \in List : k # m => ~(depth[k][t] > 0)
    BY <2>1 DEF Holds
  <2> QED BY <2>2, PrioFacts, OwnerFacts
<1> QED BY <1>1, <1>2, PrioFacts DEF Priorities, PriorityRestored

LEMMA TakeNowPrio ==
  ASSUME MutexConstants, PrioInv, NEW t \in Thread, NEW m \in List, TakeNow(t, m)
  PROVE  Priorities'
<1>1. /\ pc[t] = "run" /\ owner[m] # t /\ value[m] > 0 /\ Mixes(t, m)
      /\ owner' = [owner EXCEPT ![m] = t] /\ original' = [original EXCEPT ![m] = prio[t]]
      /\ UNCHANGED <<wait, pc, on, gone, prio>>
  BY DEF TakeNow, Asks, Calls, objectVars, waitVars, callVars
<1>2. /\ mixed \subseteq mixed'
      /\ t \notin mixed' => prio[t] = Level[t] /\ \A k \in List : owner[k] # t
  BY <1>1, MixesFacts
<1>3. owner[m] = None
  <2>1. value[m] = 1
    BY <1>1, PrioFacts, LockFacts
  <2> QED BY <2>1, PrioFacts DEF LockInv, OneInside
<1>4. \A k \in List : /\ owner'[k] = IF k = m THEN t ELSE owner[k]
                      /\ original'[k] = IF k = m THEN prio[t] ELSE original[k]
  BY <1>1, PrioFacts
<1>5. Single'
  BY <1>1, <1>2, <1>4, PrioFacts DEF Priorities, Single
<1>6. InOrder'
  BY <1>1, <1>2, PrioFacts DEF Priorities, InOrder
<1>7. PriorityRestored'
  BY <1>1, <1>2, <1>3, <1>4, PrioFacts DEF Priorities, PriorityRestored
<1>8. OwnerOutranks'
  BY <1>1, <1>2, <1>3, <1>4, PrioFacts DEF Priorities, OwnerOutranks
<1> QED BY <1>5, <1>6, <1>7, <1>8 DEF Priorities

LEMMA TakeWaitPrio ==
  ASSUME MutexConstants, PrioInv, NEW t \in Thread, NEW m \in List, NEW limited,
         TakeWait(t, m, limited)
  PROVE  Priorities'
<1>1. /\ pc[t] = "run" /\ owner[m] # t /\ value[m] = 0 /\ Mixes(t, m)
      /\ prio' = Inherited(t, m)
      /\ pc' = [pc EXCEPT ![t] = "wait"] /\ on' = [on EXCEPT ![t] = m]
      /\ UNCHANGED <<gone, owner, original>>
  BY DEF TakeWait, Asks, Calls, Goto, lockVars
<1>2. PICK q : /\ q = LinkBefore(wait[m], t, Outranked(t, m))
               /\ wait' = [wait EXCEPT ![m] = q]
  BY DEF TakeWait, Park
<1>3. wait \in [List -> Seq(Thread)] /\ pc \in [Thread -> Calling] /\ on \in [Thread -> List]
  BY PrioFacts, LockFacts
<1>4. ~Suspended(t) /\ ~Linked(wait[m], t)
  BY <1>1, PrioFacts, LockFacts DEF Suspended
<1>5. owner[m] \in Thread /\ owner[m] # t
  BY <1>1, PrioFacts DEF LockInv, OneInside
<1>6. /\ mixed \subseteq mixed' /\ mixed' \subseteq mixed \union {t}
      /\ t \notin mixed' => prio[t] = Level[t] /\ \A k \in List : owner[k] # t
  BY <1>1, MixesFacts
<1>7. /\ \A x \in Thread : prio'[x] <= prio[x] /\ (x # owner[m] => prio'[x] = prio[x])
      /\ prio'[owner[m]] <= prio[t]
  BY <1>1, <1>5, PrioFacts DEF Inherited
<1>8. /\ \A k \in List : wait'[k] = IF k = m THEN q ELSE wait[k]
      /\ \A x : Linked(q, x) <=> Linked(wait[m], x) \/ x = t
  BY <1>2, <1>3, <1>4, PrioFacts, WaitersFacts
<1>9. \A x \in Thread : /\ pc'[x] = IF x = t THEN "wait" ELSE pc[x]
                        /\ on'[x] = IF x = t THEN m ELSE on[x]
  BY <1>1, <1>3
<1>10. Single'
  BY <1>1, <1>6, <1>9, PrioFacts DEF Priorities, Single
<1>11. InOrder'
  <2> SUFFICES ASSUME NEW k \in PrioList, NEW x \in Thread, NEW y \in Thread, y \notin mixed',
                      Before(wait'[k], x, y)
               PROVE  prio'[x] <= Level[y]
    BY DEF InOrder
  <2>1. k \in List /\ y \notin mixed /\ prio'[x] <= prio[x] /\ prio'[x] \in Nat /\ prio[x] \in Nat
        /\ Level[y] \in Nat /\ prio[t] \in Nat
    BY <1>1, <1>5, <1>6, <1>7, PrioFacts DEF Inherited
  <2>2. CASE Before(wait[k], x, y)
    <3>1. prio[x] <= Level[y]
      BY <2>1, <2>2, PrioFacts DEF Priorities, InOrder
    <3> QED BY <2>1, <3>1
  <2>3. CASE ~Before(wait[k], x, y)
    <3>1. k = m
      BY <1>8, <2>1, <2>3
    <3>2. Before(q, x, y) /\ wait[m] \in Seq(Thread)
      BY <1>3, <1>8, <3>1
    <3>3. \/ y = t /\ x \notin Outranked(t, m) /\ Linked(wait[m], x)
          \/ x = t /\ Linked(wait[m], y)
             /\ (y \in Outranked(t, m) \/ \E z \in Outranked(t, m) : Before(wait[m], z, y))
      BY <1>2, <1>4, <2>3, <3>1, <3>2, LinkBeforeOrder
    <3>4. Outranked(t, m) = {z \in Thread : prio[t] < prio[z]}
      BY <3>1 DEF Outranked
    <3>5. CASE y = t /\ x \notin Outranked(t, m)
      <4>1. prio[t] = Level[t]
        BY <1>6, <3>5
      <4>2. prio[x] <= prio[t]
        BY <2>1, <3>4, <3>5
      <4> QED BY <2>1, <3>5, <4>1, <4>2
    <3>6. CASE x = t /\ Linked(wait[m], y) /\ y \in Outranked(t, m)
      <4>1. prio[t] < prio[y] /\ prio[y] = Level[y]
        BY <2>1, <3>4, <3>6, PrioFacts
      <4> QED BY <2>1, <3>6, <4>1
    <3>7. ASSUME x = t, NEW z \in Outranked(t, m), Before(wait[m], z, y)
          PROVE  prio'[x] <= Level[y]
      <4>1. z \in Thread /\ prio[t] < prio[z] /\ prio[z] \in Nat
        BY <3>4, PrioFacts
      <4>2. prio[z] <= Level[y]
        BY <2>1, <3>1, <3>7, <4>1, PrioFacts DEF Priorities, InOrder
      <4> QED BY <2>1, <3>7, <4>1, <4>2
    <3> QED BY <3>3, <3>5, <3>6, <3>7
  <2> QED BY <2>2, <2>3
<1>12. PriorityRestored'
  BY <1>1, <1>5, <1>6, <1>7, PrioFacts DEF Priorities, PriorityRestored
<1>13. OwnerOutranks'
  <2> SUFFICES ASSUME NEW k \in PrioList \ gone, NEW x \in Thread, x \notin mixed',
                      Linked(wait'[k], x), owner[k] \notin mixed'
               PROVE  prio'[owner[k]] <= prio'[x]
    BY <1>1 DEF OwnerOutranks
  <2>1. k \in List /\ x \notin mixed /\ owner[k] \notin mixed
    BY <1>6, PrioFacts
  <2>2. CASE k = m /\ x = t
    BY <1>5, <1>7, <2>2
  <2>3. CASE ~(k = m /\ x = t)
    <3>1. Linked(wait[k], x)
      BY <1>8, <2>1, <2>3
    <3>2. owner[k] \in Thread /\ x # owner[m]
      BY <2>1, <3>1, PrioFacts
    <3>3. prio[owner[k]] <= prio[x]
      BY <2>1, <3>1, PrioFacts DEF Priorities, OwnerOutranks
    <3>4. prio'[x] = prio[x] /\ prio'[owner[k]] <= prio[owner[k]]
      BY <1>7, <3>2
    <3>5. prio' \in [Thread -> Nat]
      BY <1>1, <1>5, PrioFacts DEF Inherited
    <3> QED BY <3>2, <3>3, <3>4, <3>5, PrioFacts
  <2> QED BY <2>2, <2>3
<1> QED BY <1>10, <1>11, <1>12, <1>13 DEF Priorities

LEMMA ReleaseLastPrio ==
  ASSUME MutexConstants, PrioInv, NEW t \in Thread, NEW m \in List, ReleaseLast(t, m)
  PROVE  Priorities'
<1>1. /\ pc[t] = "run" /\ owner[m] = t
      /\ prio' = [prio EXCEPT ![t] = original[m]]
      /\ UNCHANGED <<pc, on, gone, mixed>>
  BY DEF ReleaseLast, Calls, Restored, callVars
<1>2. \A x \in Thread : prio'[x] = IF x = t THEN original[m] ELSE prio[x]
  BY <1>1, PrioFacts
<1>3. t \notin mixed => original[m] = Level[t] /\ \A k \in List : owner[k] = t => k = m
  BY <1>1, PrioFacts DEF Priorities, Single
<1>4. /\ wait \in [List -> Seq(Thread)]
      /\ \A k \in List : \A x \in Thread : Linked(wait[k], x) => x # t
  BY <1>1, PrioFacts, LockFacts
<1>5. CASE wait[m] = <<>>
  <2>1. /\ owner' = [owner EXCEPT ![m] = None] /\ original' = [original EXCEPT ![m] = NoPriority]
        /\ wait' = wait
    BY <1>5 DEF ReleaseLast, waitVars
  <2>2. \A k \in List : /\ owner'[k] = IF k = m THEN None ELSE owner[k]
                        /\ original'[k] = IF k = m THEN NoPriority ELSE original[k]
    BY <2>1, PrioFacts
  <2>3. Single'
    BY <1>1, <2>2, PrioFacts DEF Priorities, Single
  <2>4. InOrder'
    <3>1. \A k \in List, x, y \in Thread : Before(wait[k], x, y) => x # t
      BY <1>4 DEF Before, Linked
    <3> QED BY <1>1, <1>2, <2>1, <3>1, PrioFacts DEF Priorities, InOrder
  <2>5. PriorityRestored'
    BY <1>1, <1>2, <1>3, <2>2, PrioFacts DEF Priorities, PriorityRestored
  <2>6. OwnerOutranks'
    <3>1. \A x : ~Linked(wait[m], x)
      BY <1>5 DEF Linked
    <3> QED BY <1>1, <1>2, <1>3, <1>4, <2>1, <2>2, <3>1, PrioFacts DEF Priorities, OwnerOutranks
  <2> QED BY <2>3, <2>4, <2>5, <2>6 DEF Priorities
<1>6. CASE wait[m] # <<>>
  <2>1. PICK w \in Thread : w = Head(wait[m]) /\ Linked(wait[m], w) /\ w # t
    BY <1>1, <1>6, PrioFacts, WaitingFacts
  <2>2. /\ owner' = [owner EXCEPT ![m] = w] /\ original' = [original EXCEPT ![m] = prio[w]]
        /\ wait' = [wait EXCEPT ![m] = Tail(wait[m])] /\ Resume(m)
    BY <1>6, <2>1 DEF ReleaseLast, Resume
  <2>3. \A k \in List : /\ owner'[k] = IF k = m THEN w ELSE owner[k]
                        /\ original'[k] = IF k = m THEN prio[w] ELSE original[k]
                        /\ wait'[k] = IF k = m THEN Tail(wait[m]) ELSE wait[k]
    BY <1>4, <2>2, PrioFacts
  <2>4. /\ pc[w] = "wait" /\ on[w] = m
        /\ w \notin mixed => prio[w] = Level[w] /\ \A k \in List : owner[k] # w
    BY <2>1, PrioFacts
  <2>5. /\ \A k \in List, x, y \in Thread : Before(wait'[k], x, y) => Before(wait[k], x, y) /\ x # t
        /\ \A k \in List, x \in Thread :
             Linked(wait'[k], x) => Linked(wait[k], x) /\ (k = m => x # w)
    <3>1. \A x, y \in Thread : Before(Tail(wait[m]), x, y) => Before(wait[m], x, y)
      BY <1>4, <1>6, TailOrder
    <3>2. \A k \in List, x, y \in Thread : Before(wait[k], x, y) => x # t
      BY <1>4 DEF Before, Linked
    <3>3. Leave({w})
      BY <1>6, <2>1, <2>2, PrioFacts, LockFacts, ResumeFacts
    <3> QED BY <2>3, <3>1, <3>2, <3>3 DEF Leave
  <2>6. Single'
    BY <1>1, <2>3, <2>4, PrioFacts DEF Priorities, Single
  <2>7. InOrder'
    BY <1>1, <1>2, <2>5, PrioFacts DEF Priorities, InOrder
  <2>8. PriorityRestored'
    BY <1>1, <1>2, <1>3, <2>3, PrioFacts DEF Priorities, PriorityRestored
  <2>9. OwnerOutranks'
    <3> SUFFICES ASSUME NEW k \in PrioList \ gone, NEW x \in Thread, x \notin mixed,
                        Linked(wait'[k], x), owner'[k] \notin mixed
                 PROVE  prio'[owner'[k]] <= prio'[x]
      BY <1>1 DEF OwnerOutranks
    <3>1. k \in List /\ Linked(wait[k], x) /\ x # t /\ prio'[x] = prio[x] /\ prio[x] = Level[x]
      BY <1>2, <1>4, <2>5, PrioFacts
    <3>2. CASE k = m
      <4>1. Before(wait[m], w, x)
        BY <1>4, <1>6, <2>1, <2>5, <3>1, <3>2, HeadOrder
      <4>2. prio[w] <= Level[x]
        BY <3>2, <4>1, PrioFacts DEF Priorities, InOrder
      <4> QED BY <1>2, <2>1, <2>3, <3>1, <3>2, <4>2
    <3>3. CASE k # m
      <4>1. owner'[k] = owner[k] /\ owner[k] \in Thread /\ owner[k] # t
        BY <1>3, <2>3, <3>1, <3>3, PrioFacts
      <4>2. prio[owner[k]] <= prio[x]
        BY <3>1, <4>1, PrioFacts DEF Priorities, OwnerOutranks
      <4> QED BY <1>2, <3>1, <4>1, <4>2
    <3> QED BY <3>2, <3>3
  <2> QED BY <2>6, <2>7, <2>8, <2>9 DEF Priorities
<1> QED BY <1>5, <1>6
\* Timeouts and detaches.
LEMMA OutsidePrio ==
  ASSUME MutexConstants, PrioInv, Outside
  PROVE  Priorities'
<1>1. /\ UNCHANGED <<owner, original, prio, mixed>>
      /\ wait \in [List -> Seq(Thread)] /\ \A l \in List : Once(wait[l])
      /\ pc \in [Thread -> Calling] /\ on \in [Thread -> List] /\ WaitInv
  BY PrioFacts, LockFacts DEF Outside, mutexVars, lockVars, WaitInv, OneReason
<1>2. CASE TimerExpires
  <2>1. PICK t \in Thread : Timeout(t)
    BY <1>2 DEF TimerExpires
  <2>2. UNCHANGED <<pc, on, gone>>
    BY <1>2 DEF TimerExpires, callVars
  <2>3. \A l \in List : wait'[l] = Unlink(wait[l], t)
    BY <2>1 DEF Timeout
  <2>4. \A l \in List, x \in Thread : Linked(wait'[l], x) => Linked(wait[l], x)
    BY <1>1, <2>1, TimeoutFacts DEF Leave
  <2>5. \A l \in List, x, y \in Thread : Before(wait'[l], x, y) => Before(wait[l], x, y)
    BY <1>1, <2>3, UnlinkOrder
  <2> QED BY <1>1, <2>2, <2>4, <2>5, PrioBesides
<1>3. ASSUME NEW t \in Thread, NEW m \in List, Detach(t, m, {m})
      PROVE  Priorities'
  <2>1. /\ wait' = wait /\ gone \subseteq gone'
        /\ \A x \in Thread : pc'[x] = "wait" => pc[x] = "wait" /\ on'[x] = on[x]
    BY <1>1, <1>3 DEF Detach, Goto, waitVars
  <2> QED BY <1>1, <2>1, PrioBesides
<1>4. ASSUME NEW t \in Thread, DetachTest(t, {})
      PROVE  Priorities'
  <2>1. /\ wait' = wait /\ gone \subseteq gone'
        /\ \E c \in {"resume", "run"} : \E l : pc' = [pc EXCEPT ![t] = c] /\ on' = [on EXCEPT ![t] = l]
    BY <1>1, <1>4 DEF DetachTest, Return, Goto, waitVars
  <2>2. \A x \in Thread : pc'[x] = "wait" => pc[x] = "wait" /\ on'[x] = on[x]
    BY <1>1, <2>1
  <2> QED BY <1>1, <2>1, <2>2, PrioBesides
<1>5. ASSUME NEW t \in Thread, DetachResume(t)
      PROVE  Priorities'
  <2>1. PICK l \in List : on[t] = l
    BY <1>1
  <2>2. /\ gone' = gone
        /\ \E c \in {"detach", "astray"} : pc' = [pc EXCEPT ![t] = c] /\ on' = [on EXCEPT ![t] = l]
    BY <1>5, <2>1 DEF DetachResume, Goto
  <2>3. \A x \in Thread : pc'[x] = "wait" => pc[x] = "wait" /\ on'[x] = on[x]
    BY <1>1, <2>2
  <2>4. CASE wait[l] = <<>>
    <3>1. wait' = wait
      BY <1>5, <2>1, <2>4 DEF DetachResume, waitVars
    <3> QED BY <1>1, <2>2, <2>3, <3>1, PrioBesides
  <2>5. CASE wait[l] # <<>>
    <3>1. ResumeFailed(l)
      BY <1>5, <2>1, <2>5 DEF DetachResume
    <3>2. \A k \in List : wait'[k] = IF k = l THEN Tail(wait[l]) ELSE wait[k]
      BY <1>1, <3>1 DEF ResumeFailed
    <3>3. \A k \in List, x \in Thread : Linked(wait'[k], x) => Linked(wait[k], x)
      BY <1>1, <2>5, <3>1, ResumeFailedFacts DEF Leave
    <3>4. \A k \in List, x, y \in Thread : Before(wait'[k], x, y) => Before(wait[k], x, y)
      BY <1>1, <2>5, <3>2, TailOrder
    <3> QED BY <1>1, <2>2, <2>3, <3>3, <3>4, PrioBesides
  <2> QED BY <2>4, <2>5
<1> QED BY <1>2, <1>3, <1>4, <1>5 DEF Outside

LEMMA PrioStep == MutexConstants /\ PrioInv /\ [Next]_vars => PrioInv'
<1> SUFFICES ASSUME MutexConstants, PrioInv, [Next]_vars PROVE PrioInv'
  OBVIOUS
<1>1. LockInv'
  BY LockStep DEF PrioInv
<1>2. CASE UNCHANGED vars
  <2>1. UNCHANGED <<wait, pc, on, gone, owner, original, prio, mixed>>
    BY <1>2 DEF vars, objectVars, waitVars, callVars, mutexVars, lockVars
  <2>2. Priorities'
    BY <2>1, PrioBesides
  <2> QED BY <1>1, <2>2 DEF PrioInv, Priorities
<1>3. CASE Outside
  BY <1>1, <1>3, OutsidePrio DEF PrioInv, Priorities
<1>4. ASSUME NEW t \in Thread, TakeReturn(t)
      PROVE  Priorities'
  <2>1. /\ UNCHANGED <<wait, gone, owner, original, prio, mixed>>
        /\ pc' = [pc EXCEPT ![t] = "run"] /\ on' = [on EXCEPT ![t] = SomeList]
        /\ pc \in [Thread -> Calling] /\ on \in [Thread -> List]
    BY <1>4, PrioFacts, LockFacts DEF TakeReturn, Return, Goto, waitVars, lockVars
  <2>2. \A x \in Thread : pc'[x] = "wait" => pc[x] = "wait" /\ on'[x] = on[x]
    BY <2>1
  <2> QED BY <2>1, <2>2, PrioBesides
<1>5. ASSUME NEW t \in Thread, NEW m \in List, TakeAgain(t, m) \/ ReleaseNested(t, m)
      PROVE  Priorities'
  <2>1. UNCHANGED <<wait, pc, on, gone, owner, original, prio, mixed>>
    BY <1>5 DEF TakeAgain, ReleaseNested, objectVars, waitVars, callVars
  <2> QED BY <2>1, PrioBesides
<1>6. ASSUME NEW t \in Thread, NEW m \in List,
             \/ TakeNow(t, m) \/ ReleaseLast(t, m)
             \/ \E limited \in Timed : TakeWait(t, m, limited)
      PROVE  Priorities'
  BY <1>6, TakeNowPrio, ReleaseLastPrio, TakeWaitPrio
<1> QED BY <1>1, <1>2, <1>3, <1>4, <1>5, <1>6 DEF Next, PrioInv, Priorities

\* ipc.c: on a priority list no thread in one mutex at a time waits for an owner it outranks, and
\* such a thread has its own priority back when it is in no mutex, whatever others inherit.
THEOREM PriorityInheritance ==
  MutexConstants => (Spec => [](OwnerOutranks /\ PriorityRestored))
<1> SUFFICES ASSUME MutexConstants PROVE Spec => [](OwnerOutranks /\ PriorityRestored)
  OBVIOUS
<1>1. Init => PrioInv
  BY PrioInit
<1>2. PrioInv /\ [Next]_vars => PrioInv'
  BY PrioStep
<1>3. PrioInv => OwnerOutranks /\ PriorityRestored
  BY DEF PrioInv
<1> QED BY <1>1, <1>2, <1>3, PTL DEF Spec

-----------------------------------------------------------------------------
(* One mutex and its detach *)

\* With a discipline of the callers that leaves nobody with a time limit behind.
LockCloses ==
  MutexConstants /\ List = {Rx} /\ DetachUnarmed

\* The waiters of the mutex are what the detach expects.
LEMMA LockClosing ==
  ASSUME LockCloses, LockInv, CloseInv, [Next]_vars
  PROVE  CloseInv'
<1>1. Rx \in List /\ Kind(Rx) = "wait" /\ List = {Rx} /\ MutexConstants /\ DetachUnarmed
  BY DEF LockCloses, Kind
<1>2. CASE UNCHANGED objectVars
  BY <1>2, CloseStand DEF objectVars
<1>3. CASE Outside
  <2>1. \/ TimerExpires
        \/ \E t \in Thread : Detach(t, Rx, List) \/ DetachTest(t, List \ {Rx}) \/ DetachResume(t)
    BY <1>1, <1>3 DEF Outside
  <2> QED BY <1>1, <2>1, CloseOutside
<1>4. ASSUME NEW t \in Thread, TakeReturn(t) PROVE CloseInv'
  BY <1>1, <1>4, CloseReturn DEF TakeReturn
<1>5. ASSUME NEW t \in Thread, NEW m \in List,
             TakeNow(t, m) \/ TakeAgain(t, m) \/ ReleaseNested(t, m)
      PROVE  CloseInv'
  BY <1>2, <1>5 DEF TakeNow, TakeAgain, ReleaseNested
<1>6. ASSUME NEW t \in Thread, Calls(t, Rx) PROVE gone = {} /\ ~Suspended(t)
  BY <1>1, <1>6, CloseFacts DEF Calls, CloseInv, Closing
<1>7. ASSUME NEW t \in Thread, NEW m \in List, ReleaseLast(t, m) PROVE CloseInv'
  <2>1. m = Rx /\ gone = {} /\ UNCHANGED callVars /\ ResumeOne(Rx)
    BY <1>1, <1>6, <1>7 DEF ReleaseLast, ResumeOne
  <2>2. Leave(First(Rx)) /\ err' = err
    BY <1>1, <2>1, CloseFacts, ResumeOneFacts
  <2>3. PICK W : W = First(Rx)
    OBVIOUS
  <2>4. PICK T : T = {}
    OBVIOUS
  <2>5. /\ T \in SUBSET Thread /\ gone = {} /\ gone' = gone /\ Leave(W)
        /\ \A x \in T : ~Suspended(x) /\ x \notin Ending /\ pc'[x] \in {"run", "fill", "urge", "copy"}
        /\ \A x \in Thread \ T : /\ pc'[x] = pc[x] /\ on'[x] = on[x]
                                 /\ err'[x] = err[x] \/ (x \in W /\ Suspended(x) /\ err'[x] # "OK")
        /\ pc' \in [Thread -> Calling] /\ on' \in [Thread -> List]
    BY <2>1, <2>2, <2>3, <2>4, CloseFacts DEF callVars
  <2> QED BY <2>5, StepFacts
<1>8. ASSUME NEW t \in Thread, NEW m \in List, NEW limited \in Timed, TakeWait(t, m, limited)
      PROVE  CloseInv'
  <2>1. /\ m = Rx /\ Park(Rx, t, LinkBefore(wait[Rx], t, Outranked(t, Rx)), limited)
        /\ Goto(t, Kind(Rx), Rx) /\ gone' = gone /\ Calls(t, Rx)
    BY <1>1, <1>8 DEF TakeWait, Asks
  <2>2. gone = {} /\ ~Suspended(t)
    BY <1>6, <2>1
  <2>3. wait[Rx] \in Seq(Thread) /\ Once(wait[Rx]) /\ ~Linked(wait[Rx], t)
    BY <1>1, <2>2, CloseFacts DEF CloseInv, OneReason, Suspended
  <2>4. PICK q \in Seq(Thread) : /\ q = LinkBefore(wait[Rx], t, Outranked(t, Rx)) /\ Once(q)
                                 /\ \A x : Linked(q, x) <=> Linked(wait[Rx], x) \/ x = t
    BY <2>3, LinkBeforeFacts
  <2>5. Park(Rx, t, q, limited)
    BY <2>1, <2>4
  <2> QED BY <1>1, <2>1, <2>2, <2>4, <2>5, WaitOnFacts
<1> QED BY <1>2, <1>3, <1>4, <1>5, <1>7, <1>8 DEF Next, vars, objectVars

LEMMA LockClosed ==
  ASSUME LockCloses, Init
  PROVE  CloseInv
BY CloseInit DEF Init

-----------------------------------------------------------------------------
(* The mailbox *)

Place == 0..(Size - 1)

MailTypes ==
  /\ pool \in [Place -> Msg] /\ entry \in 0..Size /\ in \in Place /\ out \in Place
  /\ mail \in [Thread -> Msg] /\ got \in [Thread -> Msg]

MailInv ==
  /\ RetryInv /\ MailTypes /\ Mailbox!RingConsistent
  /\ Enough(Rx, entry) /\ Enough(Tx, Size - entry)

MailAssumption == Mailbox!MailboxConstants /\ RetryConstants /\ DetachUnarmed

LEMMA MailFacts ==
  ASSUME MailAssumption
  PROVE  /\ Lists /\ List = {Rx, Tx} /\ Rx # Tx /\ Rx \in List /\ Tx \in List
         /\ List \ {Rx} = {Tx} /\ Limits \subseteq Waiting
         /\ Kind(Rx) = "wait" /\ Kind(Tx) = "send"
         /\ Size \in Nat /\ Size > 0 /\ 0 \in Place
         /\ Mailbox!SomeMsg \in Msg /\ Mailbox!Place = Place
BY DEF MailAssumption, Mailbox!MailboxConstants, RetryConstants, Lists, Kind, Place, Waiting,
     Mailbox!SomeMsg, Mailbox!Place

\* What a receiver gets and what is left, seen from outside.
MailStep ==
  \/ Mailbox!Mails' = Mailbox!Mails /\ got' = got
  \/ Mailbox!Mails' = <<>> /\ got' = got
  \/ \E m \in Msg :
       /\ Len(Mailbox!Mails) < Size /\ Mailbox!Mails' = Append(Mailbox!Mails, m) /\ got' = got
  \/ \E t \in Thread :
       /\ Mailbox!Mails # <<>> /\ Mailbox!Mails' = Tail(Mailbox!Mails)
       /\ got' = [got EXCEPT ![t] = Head(Mailbox!Mails)]

\* The offset n places behind i.
LEMMA PlaceFacts ==
  ASSUME MailAssumption, NEW i \in Place, NEW n \in 0..Size
  PROVE  (i + n) % Size = (IF i + n < Size THEN i + n ELSE i + n - Size) /\ (i + n) % Size \in Place
<1>1. Size \in Nat \ {0}
  BY MailFacts
<1>2. i \in 0..(Size - 1)
  BY DEF Place
<1>3. (i + n) % Size = (IF i + n < Size THEN i + n ELSE i + n - Size)
  BY <1>1, <1>2
<1> QED BY <1>1, <1>2, <1>3 DEF Place

\* The place of the mail that is nth in the box.
At(n) == (out + n - 1) % Size

LEMMA AtFacts ==
  ASSUME MailAssumption, MailTypes, NEW n \in 1..Size
  PROVE  At(n) = (IF out + n - 1 < Size THEN out + n - 1 ELSE out + n - 1 - Size) /\ At(n) \in Place
<1>1. Size \in Nat /\ out \in Place /\ Size \in Nat \ {0} /\ out \in Nat
  BY MailFacts DEF MailTypes, Place
<1>2. n - 1 \in 0..Size /\ out + n - 1 = out + (n - 1)
  BY <1>1
<1> QED BY <1>1, <1>2, PlaceFacts DEF At

LEMMA MailsFacts ==
  ASSUME MailAssumption, MailTypes
  PROVE  /\ Mailbox!Mails \in Seq(Msg) /\ Len(Mailbox!Mails) = entry
         /\ \A n \in 1..entry : Mailbox!Mails[n] = pool[At(n)]
<1>1. \A n \in 1..entry : pool[At(n)] \in Msg
  <2>1. entry \in Nat /\ entry <= Size /\ Size \in Nat
    BY MailFacts DEF MailTypes
  <2> QED BY <2>1, AtFacts DEF MailTypes
<1>2. Mailbox!Mails = [n \in 1..entry |-> pool[At(n)]]
  BY DEF Mailbox!Mails, At
<1>3. entry \in Nat
  BY MailFacts DEF MailTypes
<1> QED BY <1>1, <1>2, <1>3

LEMMA MailInit ==
  ASSUME MailAssumption, Mailbox!Init
  PROVE  MailInv /\ Mailbox!Mails = <<>>
<1>1. RetryInit
  BY DEF Mailbox!Init, Mailbox!RetryInit, Mailbox!ObjectInit, Mailbox!WaitInit, Mailbox!SomeList,
       RetryInit, ObjectInit, WaitInit, SomeList
<1>2. MailTypes /\ entry = 0 /\ in = 0 /\ out = 0
  BY MailFacts DEF Mailbox!Init, MailTypes
<1>3. Mailbox!RingConsistent
  BY <1>2, MailFacts, PlaceFacts DEF Mailbox!RingConsistent
<1>4. Enough(Rx, entry) /\ Enough(Tx, Size - entry)
  BY <1>1, RetryInitInv, MailFacts DEF Enough
<1>5. Mailbox!Mails = <<>>
  BY <1>2, MailsFacts
<1> QED BY <1>1, <1>2, <1>3, <1>4, <1>5, RetryInitInv DEF MailInv

\* The steps of RtObject and RtRetry in the mailbox are those of these modules.
LEMMA MailSame ==
  /\ \A l : Mailbox!ResumeOne(l) <=> ResumeOne(l)
  /\ \A L : Mailbox!ResumeAllFailed(L) <=> ResumeAllFailed(L)
  /\ \A l, t : Mailbox!Enqueue(l, t) = Enqueue(l, t)
  /\ \A t, c, l, q, limit : Mailbox!WaitOn(t, c, l, q, limit) <=> WaitOn(t, c, l, q, limit)
  /\ \A t : Mailbox!Over(t) <=> Over(t)
  /\ \A t, l, L : Mailbox!RetryDetach(t, l, L) <=> RetryDetach(t, l, L)
  /\ \A t, L : Mailbox!DetachTest(t, L) <=> DetachTest(t, L)
  /\ \A t : Mailbox!DetachResume(t) <=> DetachResume(t)
  /\ Mailbox!TimerExpires <=> TimerExpires
  /\ \A t, c : Mailbox!Failed(t, c) <=> Failed(t, c)
  /\ \A t, c, limit : Mailbox!Looks(t, c, limit) <=> Looks(t, c, limit)
  /\ \A t, l : Mailbox!Calls(t, l) <=> Calls(t, l)
  /\ \A c, l : Mailbox!Woken(c, l) = Woken(c, l)
<1>1. /\ \A l : Mailbox!ResumeOne(l) <=> ResumeOne(l)
      /\ \A L : Mailbox!ResumeAllFailed(L) <=> ResumeAllFailed(L)
  BY DEF Mailbox!ResumeOne, ResumeOne, Mailbox!Resume, Resume, Mailbox!waitVars, waitVars,
       Mailbox!ResumeAllFailed, ResumeAllFailed, Mailbox!Linked, Linked
<1>2. \A l, t : Mailbox!Enqueue(l, t) = Enqueue(l, t)
  BY DEF Mailbox!Enqueue, Enqueue, Mailbox!LinkBefore, LinkBefore, Mailbox!Lower, Lower,
       Mailbox!FirstOf, FirstOf, Mailbox!PutIn, PutIn
<1>3. /\ \A t, c, l, q, limit : Mailbox!WaitOn(t, c, l, q, limit) <=> WaitOn(t, c, l, q, limit)
      /\ \A t : Mailbox!Over(t) <=> Over(t)
  BY DEF Mailbox!WaitOn, WaitOn, Mailbox!Park, Park, Mailbox!Goto, Goto, Mailbox!Remains, Remains,
       Mailbox!Over, Over, Mailbox!Return, Return, Mailbox!SomeList, SomeList
<1>4. /\ \A t, l, L : Mailbox!RetryDetach(t, l, L) <=> RetryDetach(t, l, L)
      /\ \A t, L : Mailbox!DetachTest(t, L) <=> DetachTest(t, L)
  BY DEF Mailbox!RetryDetach, RetryDetach, Mailbox!Detach, Detach, Mailbox!Calls, Calls,
       Mailbox!Goto, Goto, Mailbox!waitVars, waitVars, Mailbox!Suspended, Suspended,
       Mailbox!Linked, Linked, Mailbox!DetachTest, DetachTest, Mailbox!Return, Return,
       Mailbox!SomeList, SomeList
<1>5. /\ \A t : Mailbox!DetachResume(t) <=> DetachResume(t)
      /\ Mailbox!TimerExpires <=> TimerExpires
  BY DEF Mailbox!DetachResume, DetachResume, Mailbox!ResumeFailed, ResumeFailed,
       Mailbox!Goto, Goto, Mailbox!waitVars, waitVars,
       Mailbox!TimerExpires, TimerExpires, Mailbox!Timeout, Timeout, Mailbox!Unlink, Unlink,
       Mailbox!Linked, Linked, Mailbox!Position, Position, Mailbox!CutOut, CutOut,
       Mailbox!callVars, callVars
<1>6. /\ \A t, c : Mailbox!Failed(t, c) <=> Failed(t, c)
      /\ \A t, c, limit : Mailbox!Looks(t, c, limit) <=> Looks(t, c, limit)
      /\ \A t, l : Mailbox!Calls(t, l) <=> Calls(t, l)
      /\ \A c, l : Mailbox!Woken(c, l) = Woken(c, l)
  BY DEF Mailbox!Failed, Failed, Mailbox!Looks, Looks, Mailbox!Back, Back, Mailbox!Calls, Calls,
       Mailbox!Suspended, Suspended, Mailbox!Linked, Linked, Mailbox!Remaining, Remaining,
       Mailbox!Woken, Woken
<1> QED BY <1>1, <1>2, <1>3, <1>4, <1>5, <1>6

\* The steps that leave the ring alone.
LEMMA MailQuiet ==
  ASSUME MailAssumption, MailInv, RetryInv', UNCHANGED <<pool, entry, in, out>>,
         mail' \in [Thread -> Msg], got' = got,
         NEW T, T = {} \/ \E t \in Thread : T = {t},
         \A l \in List : Woken(Kind(l), l)' = Woken(Kind(l), l) \ T,
         T \intersect Woken("wait", Rx) # {} => entry = 0,
         T \intersect Woken("send", Tx) # {} => entry = Size,
         wait'[Rx] # <<>> => wait[Rx] # <<>> \/ entry = 0,
         wait'[Tx] # <<>> => wait[Tx] # <<>> \/ entry = Size
  PROVE  MailInv' /\ MailStep
<1>1. MailTypes' /\ Mailbox!RingConsistent' /\ Mailbox!Mails' = Mailbox!Mails
  BY DEF MailInv, MailTypes, Mailbox!RingConsistent, Mailbox!Mails
<1>2. entry \in Int /\ Size - entry \in Int /\ entry' = entry
  BY MailFacts DEF MailInv, MailTypes
<1>3. wait'[Rx] # <<>> => entry <= Cardinality(Woken(Kind(Rx), Rx)')
  <2>1. /\ T \intersect Woken(Kind(Rx), Rx) # {} => entry <= 0
        /\ wait'[Rx] # <<>> => wait[Rx] # <<>> \/ entry <= 0
    BY <1>2, MailFacts
  <2>2. /\ RetryInv /\ Rx \in List /\ entry \in Int /\ Enough(Rx, entry)
        /\ Woken(Kind(Rx), Rx)' = Woken(Kind(Rx), Rx) \ T
    BY <1>2, MailFacts DEF MailInv
  <2> HIDE DEF MailInv
  <2> QED BY <2>1, <2>2, EnoughStays
<1>4. wait'[Tx] # <<>> => Size - entry <= Cardinality(Woken(Kind(Tx), Tx)')
  <2>1. T \intersect Woken(Kind(Tx), Tx) # {} => Size - entry <= 0
    BY MailFacts
  <2>2. wait'[Tx] # <<>> => wait[Tx] # <<>> \/ Size - entry <= 0
    BY MailFacts
  <2> QED BY <1>2, <2>1, <2>2, EnoughStays, MailFacts DEF MailInv
<1>5. Enough(Rx, entry)' /\ Enough(Tx, Size - entry)'
  BY <1>2, <1>3, <1>4, MailFacts DEF Enough
<1> QED BY <1>1, <1>5 DEF MailInv, MailStep

\* The ring after a mail was put in.
LEMMA PutRing ==
  ASSUME MailAssumption, MailInv, NEW m \in Msg, entry < Size,
         pool' = [pool EXCEPT ![in] = m], in' = Mailbox!NextPlace(in), entry' = entry + 1, out' = out,
         mail' \in [Thread -> Msg], got' = got
  PROVE  /\ MailTypes' /\ Mailbox!RingConsistent' /\ MailStep
<1>1. /\ MailTypes /\ in = (out + entry) % Size /\ Size \in Nat /\ Size > 0
      /\ entry \in Nat /\ out \in Place /\ in \in Place /\ entry + 1 \in 0..Size /\ entry \in 0..Size
      /\ out \in Nat /\ in \in Nat /\ out < Size /\ in < Size
  BY MailFacts DEF MailInv, MailTypes, Mailbox!RingConsistent, Place
<1>2. in = (IF out + entry < Size THEN out + entry ELSE out + entry - Size)
  BY <1>1, PlaceFacts
<1>3. /\ (out + (entry + 1)) % Size
           = (IF out + (entry + 1) < Size THEN out + (entry + 1) ELSE out + (entry + 1) - Size)
      /\ (out + (entry + 1)) % Size \in Place
  BY <1>1, PlaceFacts
<1>4. in' = IF in + 1 >= Size THEN 0 ELSE in + 1
  BY DEF Mailbox!NextPlace
<1>5. in' = (out + (entry + 1)) % Size
  <2>1. CASE out + entry < Size
    BY <1>1, <1>2, <1>3, <1>4, <2>1
  <2>2. CASE ~(out + entry < Size)
    BY <1>1, <1>2, <1>3, <1>4, <2>2
  <2> QED BY <2>1, <2>2
<1>6. MailTypes' /\ Mailbox!RingConsistent'
  <2>1. in' \in Place
    BY <1>3, <1>5
  <2>2. in' = (out' + entry') % Size
    BY <1>5
  <2> QED BY <1>1, <2>1, <2>2 DEF MailTypes, Mailbox!RingConsistent
<1>7. Mailbox!Mails' = Append(Mailbox!Mails, m)
  <2>1. /\ Mailbox!Mails' \in Seq(Msg) /\ Len(Mailbox!Mails') = entry + 1
        /\ \A n \in 1..(entry + 1) : Mailbox!Mails'[n] = pool'[At(n)]
    <3>1. /\ Mailbox!Mails' = [n \in 1..entry' |-> pool'[At(n)']]
          /\ \A n \in 1..entry' : pool'[At(n)'] \in Msg
      <4>1. \A n \in 1..entry' : At(n) \in Place
        BY <1>1, AtFacts
      <4> QED BY <1>6, <4>1 DEF Mailbox!Mails, At, MailTypes
    <3>2. \A n \in 1..entry' : At(n)' = At(n)
      BY DEF At
    <3> QED BY <1>1, <3>1, <3>2
  <2>2. /\ Mailbox!Mails \in Seq(Msg) /\ Len(Mailbox!Mails) = entry
        /\ \A n \in 1..entry : Mailbox!Mails[n] = pool[At(n)]
    BY <1>1, MailsFacts
  <2>3. ASSUME NEW n \in 1..entry PROVE Mailbox!Mails'[n] = Mailbox!Mails[n]
    <3>1. /\ At(n) = (IF out + n - 1 < Size THEN out + n - 1 ELSE out + n - 1 - Size)
          /\ At(n) \in Place /\ n \in 1..(entry + 1)
      BY <1>1, AtFacts
    <3>2. At(n) # in
      BY <1>1, <1>2, <3>1
    <3>3. pool'[At(n)] = pool[At(n)]
      BY <1>1, <3>1, <3>2 DEF MailTypes
    <3> QED BY <2>1, <2>2, <3>1, <3>3
  <2>4. Mailbox!Mails'[entry + 1] = m
    <3>1. At(entry + 1) = in
      BY <1>1 DEF At
    <3> QED BY <1>1, <2>1, <3>1 DEF MailTypes
  <2>5. /\ Append(Mailbox!Mails, m) \in Seq(Msg) /\ Len(Append(Mailbox!Mails, m)) = entry + 1
        /\ \A n \in 1..entry : Append(Mailbox!Mails, m)[n] = Mailbox!Mails[n]
        /\ Append(Mailbox!Mails, m)[entry + 1] = m
    BY <2>2, AppendProperties
  <2>6. \A n \in 1..(entry + 1) : Mailbox!Mails'[n] = Append(Mailbox!Mails, m)[n]
    BY <1>1, <2>3, <2>4, <2>5
  <2> QED BY <2>1, <2>5, <2>6, SeqEqual
<1>8. Len(Mailbox!Mails) < Size
  BY <1>1, MailsFacts
<1> QED BY <1>6, <1>7, <1>8 DEF MailStep

\* The ring after the oldest mail was taken out.
LEMMA TakeRing ==
  ASSUME MailAssumption, MailInv, NEW t \in Thread, entry > 0,
         got' = [got EXCEPT ![t] = pool[out]], out' = Mailbox!NextPlace(out), entry' = entry - 1,
         pool' = pool, in' = in, mail' \in [Thread -> Msg]
  PROVE  /\ MailTypes' /\ Mailbox!RingConsistent' /\ MailStep
<1>1. /\ MailTypes /\ in = (out + entry) % Size /\ Size \in Nat /\ Size > 0
      /\ entry \in Nat /\ entry <= Size /\ out \in Place /\ in \in Place /\ entry - 1 \in 0..Size /\ entry \in 0..Size
      /\ out \in Nat /\ in \in Nat /\ out < Size /\ in < Size
  BY MailFacts DEF MailInv, MailTypes, Mailbox!RingConsistent, Place
<1>2. in = (IF out + entry < Size THEN out + entry ELSE out + entry - Size)
  BY <1>1, PlaceFacts
<1>3. out' = IF out + 1 >= Size THEN 0 ELSE out + 1
  BY DEF Mailbox!NextPlace
<1>4. out' \in Place /\ out' \in Nat /\ out' < Size
  BY <1>1, <1>3 DEF Place
<1>5. (out' + (entry - 1)) % Size = in
  <2>1. (out' + (entry - 1)) % Size
          = (IF out' + (entry - 1) < Size THEN out' + (entry - 1) ELSE out' + (entry - 1) - Size)
    BY <1>1, <1>4, PlaceFacts
  <2>2. CASE out + 1 >= Size
    BY <1>1, <1>2, <1>3, <2>1, <2>2
  <2>3. CASE ~(out + 1 >= Size)
    BY <1>1, <1>2, <1>3, <2>1, <2>3
  <2> QED BY <2>2, <2>3
<1>6. MailTypes' /\ Mailbox!RingConsistent'
  <2>1. in' = (out' + entry') % Size
    BY <1>5
  <2>2. got' \in [Thread -> Msg]
    BY <1>1 DEF MailTypes
  <2> QED BY <1>1, <1>4, <2>1, <2>2 DEF MailTypes, Mailbox!RingConsistent
<1>7. /\ Mailbox!Mails \in Seq(Msg) /\ Len(Mailbox!Mails) = entry /\ Mailbox!Mails # <<>>
      /\ \A n \in 1..entry : Mailbox!Mails[n] = pool[At(n)]
  BY <1>1, MailsFacts
<1>8. Head(Mailbox!Mails) = pool[out]
  <2>1. At(1) = out
    BY <1>1, AtFacts
  <2> QED BY <1>1, <1>7, <2>1
<1>9. ASSUME NEW n \in 1..(entry - 1) PROVE At(n)' = At(n + 1) /\ At(n)' \in Place
  <2>1. n + 1 \in 1..Size /\ n - 1 \in 0..Size /\ n \in Nat /\ n \in 1..Size
    BY <1>1
  <2>2. At(n + 1) = (IF out + (n + 1) - 1 < Size THEN out + (n + 1) - 1 ELSE out + (n + 1) - 1 - Size)
    BY <1>1, <2>1, AtFacts
  <2>3. /\ (out' + (n - 1)) % Size = (IF out' + (n - 1) < Size THEN out' + (n - 1) ELSE out' + (n - 1) - Size)
        /\ (out' + (n - 1)) % Size \in Place
    BY <1>4, <2>1, PlaceFacts
  <2>4. At(n)' = (out' + (n - 1)) % Size
    <3>1. out' + n - 1 = out' + (n - 1)
      BY <1>4, <2>1
    <3> QED BY <3>1 DEF At
  <2>5. CASE out + 1 >= Size
    BY <1>1, <1>3, <2>1, <2>2, <2>3, <2>4, <2>5
  <2>6. CASE ~(out + 1 >= Size)
    BY <1>1, <1>3, <2>1, <2>2, <2>3, <2>4, <2>6
  <2> QED BY <2>5, <2>6
<1>10. Mailbox!Mails' = Tail(Mailbox!Mails)
  <2>1. /\ Mailbox!Mails' \in Seq(Msg) /\ Len(Mailbox!Mails') = entry - 1
        /\ \A n \in 1..(entry - 1) : Mailbox!Mails'[n] = pool[At(n + 1)]
    <3>1. Mailbox!Mails' = [n \in 1..(entry - 1) |-> pool[At(n)']]
      BY DEF Mailbox!Mails, At
    <3>2. \A n \in 1..(entry - 1) : pool[At(n)'] \in Msg /\ pool[At(n)'] = pool[At(n + 1)]
      BY <1>1, <1>9 DEF MailTypes
    <3>3. entry - 1 \in Nat
      BY <1>1
    <3>4. PICK k \in Nat : k = entry - 1
      BY <3>3
    <3>5. PICK q : q = Mailbox!Mails'
      OBVIOUS
    <3>6. q = [n \in 1..k |-> pool[At(n)']]
      BY <3>1, <3>4, <3>5
    <3>7. \A n \in 1..k : pool[At(n)'] \in Msg /\ pool[At(n)'] = pool[At(n + 1)]
      BY <3>2, <3>4
    <3>8. q \in Seq(Msg) /\ Len(q) = k /\ \A n \in 1..k : q[n] = pool[At(n + 1)]
      BY <3>6, <3>7
    <3> QED BY <3>4, <3>5, <3>8
  <2>2. /\ Tail(Mailbox!Mails) \in Seq(Msg) /\ Len(Tail(Mailbox!Mails)) = entry - 1
        /\ \A n \in 1..(entry - 1) : Tail(Mailbox!Mails)[n] = Mailbox!Mails[n + 1]
    BY <1>7, HeadTailProperties
  <2>3. \A n \in 1..(entry - 1) : Mailbox!Mails[n + 1] = pool[At(n + 1)]
    BY <1>1, <1>7
  <2>4. \A n \in 1..(entry - 1) : Mailbox!Mails'[n] = Tail(Mailbox!Mails)[n]
    BY <2>1, <2>2, <2>3
  <2> QED BY <2>1, <2>2, <2>4, SeqEqual
<1> QED BY <1>6, <1>7, <1>8, <1>10 DEF MailStep

\* A mail is put in, T goes its way and the first receiver is woken.
LEMMA MailPut ==
  ASSUME MailAssumption, MailInv, NEW m \in Msg, Mailbox!Put(m), gone = {},
         NEW T, Leaving(T), T \intersect Woken("wait", Rx) = {},
         mail' \in [Thread -> Msg], got' = got
  PROVE  MailInv' /\ MailStep
<1>1. /\ ResumeOne(Rx) /\ entry < Size /\ entry' = entry + 1
      /\ MailTypes' /\ Mailbox!RingConsistent' /\ MailStep
  BY MailSame, PutRing DEF Mailbox!Put
<1>2. /\ RetryInv /\ entry \in Int /\ Size - entry \in Int /\ Size \in Int
      /\ Enough(Rx, entry) /\ Enough(Tx, Size - entry)
      /\ T \intersect Woken(Kind(Rx), Rx) = {} /\ Rx \in List /\ Tx \in List /\ Tx # Rx
  BY MailFacts DEF MailInv, MailTypes
<1>3. RetryInv'
  BY <1>1, <1>2, WakeFacts
<1>4. wait'[Rx] # <<>> => entry + 1 <= Cardinality(Woken(Kind(Rx), Rx)')
  BY <1>1, <1>2, EnoughMore
<1>5. wait'[Tx] # <<>> => (Size - entry) - 1 <= Cardinality(Woken(Kind(Tx), Tx)')
  BY <1>1, <1>2, EnoughLess
<1>6. (Size - entry) - 1 = Size - entry'
  BY <1>1, <1>2
<1>7. Enough(Rx, entry)' /\ Enough(Tx, Size - entry)'
  BY <1>1, <1>4, <1>5, <1>6 DEF Enough
<1> QED BY <1>1, <1>3, <1>7 DEF MailInv

\* A mail is taken out, T goes its way and the first sender is woken.
LEMMA MailTake ==
  ASSUME MailAssumption, MailInv, NEW t \in Thread, Mailbox!Take(t), gone = {},
         NEW T, Leaving(T), T \intersect Woken("send", Tx) = {},
         mail' \in [Thread -> Msg]
  PROVE  MailInv' /\ MailStep
<1>1. /\ ResumeOne(Tx) /\ entry > 0 /\ entry' = entry - 1
      /\ MailTypes' /\ Mailbox!RingConsistent' /\ MailStep
  BY MailSame, TakeRing DEF Mailbox!Take
<1>2. /\ RetryInv /\ entry \in Int /\ Size - entry \in Int /\ Size \in Int
      /\ Enough(Rx, entry) /\ Enough(Tx, Size - entry)
      /\ T \intersect Woken(Kind(Tx), Tx) = {} /\ Rx \in List /\ Tx \in List /\ Tx # Rx
  BY MailFacts DEF MailInv, MailTypes
<1>3. RetryInv'
  BY <1>1, <1>2, WakeFacts
<1>4. wait'[Tx] # <<>> => (Size - entry) + 1 <= Cardinality(Woken(Kind(Tx), Tx)')
  BY <1>1, <1>2, EnoughMore
<1>5. wait'[Rx] # <<>> => entry - 1 <= Cardinality(Woken(Kind(Rx), Rx)')
  BY <1>1, <1>2, EnoughLess
<1>6. (Size - entry) + 1 = Size - entry'
  BY <1>1, <1>2
<1>7. Enough(Rx, entry)' /\ Enough(Tx, Size - entry)'
  BY <1>1, <1>4, <1>5, <1>6 DEF Enough
<1> QED BY <1>1, <1>3, <1>7 DEF MailInv

\* A thread begins or goes on to wait on l.
LEMMA MailWait ==
  ASSUME MailAssumption, MailInv, NEW t \in Thread, NEW l \in {Rx, Tx}, ~Suspended(t), gone = {},
         NEW limit \in Waiting, WaitOn(t, Kind(l), l, Enqueue(l, t), limit),
         l = Rx => entry = 0, l = Tx => entry = Size,
         t \notin Woken(Kind(Rx), Rx) \/ l = Rx, t \notin Woken(Kind(Tx), Tx) \/ l = Tx,
         UNCHANGED <<pool, entry, in, out>>, mail' \in [Thread -> Msg], got' = got
  PROVE  MailInv' /\ MailStep
<1>1. RetryInv /\ l \in List
  BY MailFacts DEF MailInv
<1>2. /\ RetryInv'
      /\ \A m \in List : Woken(Kind(m), m)' = Woken(Kind(m), m) \ {t}
      /\ \A m \in List : m # l => wait'[m] = wait[m]
  BY <1>1, EnqueuedFacts
<1>3. PICK T : T = {t}
  OBVIOUS
<1>4. /\ T = {} \/ \E x \in Thread : T = {x}
      /\ \A m \in List : Woken(Kind(m), m)' = Woken(Kind(m), m) \ T
      /\ T \intersect Woken("wait", Rx) # {} => entry = 0
      /\ T \intersect Woken("send", Tx) # {} => entry = Size
      /\ wait'[Rx] # <<>> => wait[Rx] # <<>> \/ entry = 0
      /\ wait'[Tx] # <<>> => wait[Tx] # <<>> \/ entry = Size
  BY <1>2, <1>3, MailFacts
<1> QED BY <1>2, <1>4, MailQuiet

\* Steps that change nobody's way, and no list becomes longer.
LEMMA MailStill ==
  ASSUME MailAssumption, MailInv, RetryInv', UNCHANGED <<pool, entry, in, out>>,
         mail' \in [Thread -> Msg], got' = got,
         \A l \in List : Woken(Kind(l), l)' = Woken(Kind(l), l),
         \A l \in List : wait'[l] # <<>> => wait[l] # <<>>
  PROVE  MailInv' /\ MailStep
<1>1. PICK T : T = {}
  OBVIOUS
<1>2. /\ T = {} \/ \E x \in Thread : T = {x}
      /\ \A m \in List : Woken(Kind(m), m)' = Woken(Kind(m), m) \ T
      /\ T \intersect Woken("wait", Rx) = {} /\ T \intersect Woken("send", Tx) = {}
      /\ wait'[Rx] # <<>> => wait[Rx] # <<>> \/ entry = 0
      /\ wait'[Tx] # <<>> => wait[Tx] # <<>> \/ entry = Size
  BY <1>1, MailFacts
<1> QED BY <1>2, MailQuiet

LEMMA MailOutside ==
  ASSUME MailAssumption, MailInv, Mailbox!Outside
  PROVE  MailInv' /\ MailStep
<1>1. /\ RetryInv /\ Lists /\ DetachUnarmed /\ UNCHANGED left
      /\ \/ TimerExpires
         \/ \E t \in Thread :
              RetryDetach(t, Rx, List) \/ DetachTest(t, List \ {Rx}) \/ DetachResume(t)
      /\ UNCHANGED <<pool, entry, in, out>> /\ mail' = mail /\ got' = got
  BY MailSame, MailFacts DEF Mailbox!Outside, Mailbox!ring, MailInv, MailAssumption
<1>2. /\ RetryInv'
      /\ \A l \in List : Woken(Kind(l), l)' = Woken(Kind(l), l)
      /\ \A l \in List : wait'[l] # <<>> => wait[l] # <<>>
  BY <1>1, OutsideFacts
<1> QED BY <1>1, <1>2, MailStill DEF MailInv, MailTypes

LEMMA MailSend ==
  ASSUME MailAssumption, MailInv, NEW m \in Msg,
         \/ Mailbox!SendIsr(m)
         \/ \E t \in Thread :
              Mailbox!SendNow(t, m) \/ \E limit \in Limits : Mailbox!SendWait(t, m, limit)
  PROVE  MailInv' /\ MailStep
<1>1. RetryInv /\ Lists /\ mail \in [Thread -> Msg] /\ Limits \subseteq Waiting
  BY MailFacts DEF MailInv, MailTypes
<1>2. CASE Mailbox!SendIsr(m) \/ \E t \in Thread : Mailbox!SendNow(t, m)
  <2>1. /\ gone = {} /\ Mailbox!Put(m) /\ UNCHANGED <<callVars, left>> /\ mail' = mail /\ got' = got
    BY <1>1, <1>2, MailSame, CallFacts, ThereFacts DEF Mailbox!SendNow, Mailbox!SendIsr, Mailbox!callVars, callVars
  <2>2. Leaving({}) /\ {} \intersect Woken("wait", Rx) = {}
    BY <1>1, <2>1, LeavingFacts
  <2> QED BY <1>1, <2>1, <2>2, MailPut
<1>3. ASSUME NEW t \in Thread, NEW limit \in Limits, Mailbox!SendWait(t, m, limit)
      PROVE  MailInv' /\ MailStep
  <2>1. /\ gone = {} /\ ~Suspended(t) /\ pc[t] = "run" /\ entry = Size
        /\ WaitOn(t, "send", Tx, Enqueue(Tx, t), limit)
        /\ mail' = [mail EXCEPT ![t] = m] /\ UNCHANGED <<pool, entry, in, out>> /\ got' = got
    BY <1>1, <1>3, MailSame, CallFacts DEF Mailbox!SendWait, Mailbox!ring
  <2>2. /\ mail' \in [Thread -> Msg] /\ limit \in Waiting
        /\ \A c \in {"wait", "send"} : \A l : t \notin Woken(c, l)
    BY <1>1, <2>1 DEF Woken, Back
  <2> QED BY <1>1, <2>1, <2>2, MailWait, MailFacts
<1> QED BY <1>2, <1>3

LEMMA MailFail ==
  ASSUME MailAssumption, MailInv, NEW t \in Thread, Mailbox!SendFail(t) \/ Mailbox!RecvFail(t)
  PROVE  MailInv' /\ MailStep
<1>1. /\ RetryInv /\ mail \in [Thread -> Msg] /\ UNCHANGED waitVars /\ got' = got
      /\ Over(t) /\ mail' = [mail EXCEPT ![t] = Mailbox!SomeMsg]
      /\ \E c \in {"wait", "send"} : Failed(t, c)
      /\ UNCHANGED <<pool, entry, in, out>>
  BY MailSame DEF Mailbox!SendFail, Mailbox!RecvFail, Mailbox!Done, Mailbox!waitVars, waitVars,
       Mailbox!ring, MailInv, MailTypes
<1>2. /\ RetryInv' /\ wait' = wait /\ mail' \in [Thread -> Msg]
      /\ \A l \in List : Woken(Kind(l), l)' = Woken(Kind(l), l)
  BY <1>1, FailFacts, MailFacts
<1> QED BY <1>1, <1>2, MailStill

\* A call that gives up.
LEMMA MailGiveUp ==
  ASSUME MailAssumption, MailInv, NEW t \in Thread, NEW l \in {Rx, Tx}, NEW limit,
         Looks(t, Kind(l), limit), Mailbox!Done(t),
         l = Rx => entry = 0, l = Tx => entry = Size,
         wait' = wait, armed' = armed, err' = err \/ err' = [err EXCEPT ![t] = "ETIMEOUT"],
         UNCHANGED <<pool, entry, in, out>>, got' = got
  PROVE  MailInv' /\ MailStep
<1>1. /\ RetryInv /\ mail \in [Thread -> Msg] /\ Over(t) /\ Kind(l) \in {"wait", "send"}
      /\ mail' \in [Thread -> Msg] /\ pc[t] = Kind(l)
  BY MailSame, MailFacts DEF MailInv, MailTypes, Mailbox!Done, Kind, Looks, Back
<1>2. RetryInv' /\ \A m \in List : Woken(Kind(m), m)' = Woken(Kind(m), m) \ {t}
  BY <1>1, GiveUpFacts
<1>3. PICK T : T = {t}
  OBVIOUS
<1>4. /\ T = {} \/ \E x \in Thread : T = {x}
      /\ \A m \in List : Woken(Kind(m), m)' = Woken(Kind(m), m) \ T
      /\ T \intersect Woken("wait", Rx) # {} => entry = 0
      /\ T \intersect Woken("send", Tx) # {} => entry = Size
      /\ wait'[Rx] # <<>> => wait[Rx] # <<>> \/ entry = 0
      /\ wait'[Tx] # <<>> => wait[Tx] # <<>> \/ entry = Size
  BY <1>1, <1>2, <1>3, MailFacts DEF Woken, Back
<1> QED BY <1>1, <1>2, <1>4, MailQuiet

LEMMA MailSendAgain ==
  ASSUME MailAssumption, MailInv, NEW t \in Thread, NEW limit, Mailbox!SendAgain(t, limit)
  PROVE  MailInv' /\ MailStep
<1>1. /\ RetryInv /\ mail \in [Thread -> Msg] /\ Looks(t, "send", limit) /\ got' = got
      /\ gone = {} /\ ~Suspended(t) /\ pc[t] = "send" /\ limit \in Waiting
      /\ t \notin Woken("wait", Rx)
  BY MailSame, LookFacts DEF MailInv, MailTypes, Mailbox!SendAgain, Woken, Back
<1>2. CASE Mailbox!Put(mail[t]) /\ Mailbox!Done(t)
  <2>1. Over(t) /\ mail' \in [Thread -> Msg] /\ mail[t] \in Msg
    BY <1>1, <1>2, MailSame, MailFacts DEF Mailbox!Done
  <2>2. Leaving({t}) /\ {t} \intersect Woken("wait", Rx) = {}
    BY <1>1, <2>1, LeavingFacts
  <2> QED BY <1>1, <1>2, <2>1, <2>2, MailPut
<1>3. CASE /\ entry = Size /\ Mailbox!WaitOn(t, "send", Tx, Mailbox!Enqueue(Tx, t), limit)
           /\ UNCHANGED <<Mailbox!ring, mail>>
  <2>1. /\ WaitOn(t, "send", Tx, Enqueue(Tx, t), limit) /\ mail' = mail
        /\ UNCHANGED <<pool, entry, in, out>>
    BY <1>3, MailSame DEF Mailbox!ring
  <2> QED BY <1>1, <1>3, <2>1, MailWait, MailFacts
<1>4. CASE entry = Size /\ Mailbox!Done(t) /\ UNCHANGED <<Mailbox!waitVars, Mailbox!ring>>
  <2>1. wait' = wait /\ armed' = armed /\ err' = err /\ UNCHANGED <<pool, entry, in, out>>
    BY <1>4 DEF Mailbox!waitVars, Mailbox!ring
  <2> QED BY <1>1, <1>4, <2>1, MailGiveUp, MailFacts
<1> QED BY <1>2, <1>3, <1>4 DEF Mailbox!SendAgain

LEMMA MailRecv ==
  ASSUME MailAssumption, MailInv, NEW t \in Thread,
         Mailbox!RecvNow(t) \/ \E limit \in Limits : Mailbox!RecvWait(t, limit)
  PROVE  MailInv' /\ MailStep
<1>1. RetryInv /\ Lists /\ mail \in [Thread -> Msg]
  BY MailFacts DEF MailInv, MailTypes
<1>2. CASE Mailbox!RecvNow(t)
  <2>1. /\ gone = {} /\ Mailbox!Take(t) /\ UNCHANGED <<callVars, left>> /\ mail' = mail
    BY <1>1, <1>2, MailSame, CallFacts DEF Mailbox!RecvNow, Mailbox!callVars, callVars
  <2>2. Leaving({}) /\ {} \intersect Woken("send", Tx) = {}
    BY <1>1, <2>1, LeavingFacts
  <2> QED BY <1>1, <2>1, <2>2, MailTake
<1>3. ASSUME NEW limit \in Limits, Mailbox!RecvWait(t, limit) PROVE MailInv' /\ MailStep
  <2>1. /\ gone = {} /\ ~Suspended(t) /\ pc[t] = "run" /\ entry = 0
        /\ WaitOn(t, "wait", Rx, Enqueue(Rx, t), limit)
        /\ mail' = mail /\ UNCHANGED <<pool, entry, in, out>> /\ got' = got
    BY <1>1, <1>3, MailSame, CallFacts DEF Mailbox!RecvWait, Mailbox!ring
  <2>2. limit \in Waiting /\ \A c \in {"wait", "send"} : \A l : t \notin Woken(c, l)
    BY <1>1, <2>1, MailFacts DEF Woken, Back
  <2> QED BY <1>1, <2>1, <2>2, MailWait, MailFacts
<1> QED BY <1>2, <1>3

LEMMA MailRecvAgain ==
  ASSUME MailAssumption, MailInv, NEW t \in Thread, NEW limit, Mailbox!RecvAgain(t, limit)
  PROVE  MailInv' /\ MailStep
<1>1. /\ RetryInv /\ mail \in [Thread -> Msg] /\ Looks(t, "wait", limit)
      /\ gone = {} /\ ~Suspended(t) /\ pc[t] = "wait" /\ limit \in Waiting
      /\ t \notin Woken("send", Tx)
  BY MailSame, LookFacts DEF MailInv, MailTypes, Mailbox!RecvAgain, Woken, Back
<1>2. CASE Mailbox!Take(t) /\ Mailbox!Done(t)
  <2>1. Over(t) /\ mail' \in [Thread -> Msg]
    BY <1>1, <1>2, MailSame, MailFacts DEF Mailbox!Done
  <2>2. Leaving({t}) /\ {t} \intersect Woken("send", Tx) = {}
    BY <1>1, <2>1, LeavingFacts
  <2> QED BY <1>1, <1>2, <2>1, <2>2, MailTake
<1>3. CASE /\ entry = 0 /\ Mailbox!WaitOn(t, "wait", Rx, Mailbox!Enqueue(Rx, t), limit)
           /\ UNCHANGED <<Mailbox!ring, mail, got>>
  <2>1. /\ WaitOn(t, "wait", Rx, Enqueue(Rx, t), limit) /\ mail' = mail /\ got' = got
        /\ UNCHANGED <<pool, entry, in, out>>
    BY <1>3, MailSame DEF Mailbox!ring
  <2> QED BY <1>1, <1>3, <2>1, MailWait, MailFacts
<1>4. CASE /\ entry = 0 /\ err' = [err EXCEPT ![t] = "ETIMEOUT"] /\ Mailbox!Done(t)
           /\ UNCHANGED <<wait, armed, Mailbox!ring, got>>
  <2>1. wait' = wait /\ armed' = armed /\ UNCHANGED <<pool, entry, in, out>> /\ got' = got
    BY <1>4 DEF Mailbox!ring
  <2> QED BY <1>1, <1>4, <2>1, MailGiveUp, MailFacts
<1> QED BY <1>2, <1>3, <1>4 DEF Mailbox!RecvAgain

LEMMA MailReset ==
  ASSUME MailAssumption, MailInv, NEW t \in Thread, Mailbox!Reset(t)
  PROVE  MailInv' /\ MailStep
<1>1. /\ RetryInv /\ Lists /\ gone = {} /\ ResumeAllFailed(List) /\ UNCHANGED <<callVars, left>>
      /\ entry' = 0 /\ in' = 0 /\ out' = 0 /\ pool' = pool /\ mail' = mail /\ got' = got
  BY MailSame, MailFacts, CallFacts DEF Mailbox!Reset, MailInv, Mailbox!callVars, callVars
<1>2. RetryInv' /\ \A l \in List : wait'[l] = <<>>
  BY <1>1, ResetAllFacts
<1>3. MailTypes'
  BY <1>1, MailFacts DEF MailInv, MailTypes
<1>4. Mailbox!RingConsistent'
  <2>1. 0 \in Place /\ 0 \in 0..Size
    BY MailFacts
  <2>2. (0 + 0) % Size = 0
    BY <2>1, MailFacts, PlaceFacts
  <2> QED BY <1>1, <2>2 DEF Mailbox!RingConsistent
<1>5. Mailbox!Mails' = <<>>
  BY <1>1 DEF Mailbox!Mails
<1>6. Enough(Rx, entry)' /\ Enough(Tx, Size - entry)'
  BY <1>2, MailFacts DEF Enough
<1> QED BY <1>1, <1>2, <1>3, <1>4, <1>5, <1>6 DEF MailInv, MailStep

LEMMA MailNext ==
  MailAssumption /\ MailInv /\ [Mailbox!Next]_Mailbox!vars => MailInv' /\ MailStep
<1> SUFFICES ASSUME MailAssumption, MailInv, [Mailbox!Next]_Mailbox!vars PROVE MailInv' /\ MailStep
  OBVIOUS
<1>1. CASE UNCHANGED Mailbox!vars
  <2>1. /\ UNCHANGED <<waitVars, callVars, left>>
        /\ UNCHANGED <<pool, entry, in, out>> /\ mail' = mail /\ got' = got
    BY <1>1 DEF Mailbox!vars, Mailbox!loopVars, Mailbox!objectVars, Mailbox!waitVars,
         Mailbox!callVars, Mailbox!ring, waitVars, callVars
  <2>2. /\ RetryInv' /\ \A l \in List : Woken(Kind(l), l)' = Woken(Kind(l), l)
        /\ \A l \in List : wait'[l] # <<>> => wait[l] # <<>>
    <3>1. RetryInv /\ Leaving({}) /\ CloseInv
      BY <2>1, LeavingFacts DEF MailInv, RetryInv
    <3> QED BY <2>1, <3>1, StandFacts DEF MailInv, RetryInv, CloseInv, CallTypeOK, WaitTypeOK, OneReason,
             Suspended, Parked, Closing, Ending, Unused, Woken, Back, waitVars, callVars
  <2> QED BY <2>1, <2>2, MailStill DEF MailInv, MailTypes
<1>2. CASE Mailbox!Outside
  BY <1>2, MailOutside
<1>3. ASSUME NEW m \in Msg, Mailbox!SendIsr(m) PROVE MailInv' /\ MailStep
  BY <1>3, MailSend
<1>4. ASSUME NEW t \in Thread, Mailbox!RecvFail(t) \/ Mailbox!SendFail(t) PROVE MailInv' /\ MailStep
  BY <1>4, MailFail
<1>5. ASSUME NEW t \in Thread, Mailbox!RecvNow(t) \/ \E limit \in Limits : Mailbox!RecvWait(t, limit)
      PROVE  MailInv' /\ MailStep
  BY <1>5, MailRecv
<1>6. ASSUME NEW t \in Thread, Mailbox!Reset(t) PROVE MailInv' /\ MailStep
  BY <1>6, MailReset
<1>7. ASSUME NEW t \in Thread, NEW m \in Msg,
             Mailbox!SendNow(t, m) \/ \E limit \in Limits : Mailbox!SendWait(t, m, limit)
      PROVE  MailInv' /\ MailStep
  BY <1>7, MailSend
<1>8. ASSUME NEW t \in Thread, NEW limit, Mailbox!SendAgain(t, limit) \/ Mailbox!RecvAgain(t, limit)
      PROVE  MailInv' /\ MailStep
  BY <1>8, MailSendAgain, MailRecvAgain
<1> QED BY <1>1, <1>2, <1>3, <1>4, <1>5, <1>6, <1>7, <1>8 DEF Mailbox!Next

\* The invariant of the mailbox, in the words of RtMailbox.
LEMMA MailShown ==
  ASSUME MailAssumption, MailInv
  PROVE  Mailbox!TypeOK /\ Mailbox!RingConsistent /\ Mailbox!NoLostWakeup
<1>1. Mailbox!TypeOK
  BY MailFacts DEF MailInv, MailTypes, RetryInv, CloseInv, CallTypeOK, WaitTypeOK, Calling, Waiting,
       Mailbox!TypeOK, Mailbox!RetryTypeOK, Mailbox!CallTypeOK, Mailbox!WaitTypeOK
<1>2. \A S : Mailbox!Cardinality(S) = Cardinality(S)
  BY DEF Mailbox!Cardinality, Cardinality, Mailbox!IsFiniteSet, IsFiniteSet
<1>3. \A c, l : Mailbox!Woken(c, l) = Woken(c, l)
  BY MailSame
<1>4. Mailbox!NoLostWakeup
  BY <1>2, <1>3, MailFacts DEF MailInv, Enough, Mailbox!NoLostWakeup
<1> QED BY <1>1, <1>4 DEF MailInv

-----------------------------------------------------------------------------
(* The message queue *)

QueueTypes ==
  /\ queue \in Seq(Element) /\ free \in Seq(Element) /\ body \in [Element -> Msg]
  /\ mine \in [Thread -> Element \union {None}]
  /\ mail \in [Thread -> Msg] /\ got \in [Thread -> Msg]

\* Every element is in one place.
ElementPlaces ==
  /\ Once(queue) /\ Once(free) /\ entry = Len(queue)
  /\ \A e \in Element :
       /\ \A t, u \in Thread : mine[t] = e /\ mine[u] = e => t = u
       /\ (Linked(queue, e) \/ Linked(free, e)) <=> \A t \in Thread : mine[t] # e
       /\ ~(Linked(queue, e) /\ Linked(free, e))

\* Who copies has an element, and nobody else has; and nobody copies from or to a queue that
\* is gone.
Copying ==
  \A t \in Thread :
    /\ mine[t] # None <=> pc[t] \in {"fill", "urge", "copy"}
    /\ mine[t] # None => gone = {}

QueueData == QueueTypes /\ ElementPlaces /\ Copying

QueueInv == RetryInv /\ QueueData /\ Enough(Rx, entry) /\ Enough(Tx, Len(free))

QueueAssumption == Queue!MessageQueueConstants /\ RetryConstants /\ DetachUnarmed

\* What a receiver gets and what is left, seen from outside.
QueueStep ==
  \/ Queue!Mails' = Queue!Mails /\ Queue!Received' = Queue!Received
  \/ Queue!Mails' = <<>> /\ Queue!Received' = Queue!Received
  \/ \E m \in Msg :
       /\ Len(Queue!Mails) < Cardinality(Element)
       /\ Queue!Mails' = Append(Queue!Mails, m) \/ Queue!Mails' = <<m>> \o Queue!Mails
       /\ Queue!Received' = Queue!Received
  \/ \E t \in Thread :
       /\ Queue!Mails # <<>> /\ Queue!Mails' = Tail(Queue!Mails)
       /\ Queue!Received' = [Queue!Received EXCEPT ![t] = Head(Queue!Mails)]

\* The same step said of any queue of messages m, n and of what is received r, s.
QueueMoves(m, n, r, s) ==
  \/ n = m /\ s = r
  \/ n = <<>> /\ s = r
  \/ \E x \in Msg :
       /\ Len(m) < Cardinality(Element)
       /\ n = Append(m, x) \/ n = <<x>> \o m
       /\ s = r
  \/ \E t \in Thread : m # <<>> /\ n = Tail(m) /\ s = [r EXCEPT ![t] = Head(m)]

LEMMA StepMoves ==
  ASSUME QueueStep
  PROVE  QueueMoves(Queue!Mails, Queue!Mails', Queue!Received, Queue!Received')
<1>1. CASE \E m \in Msg :
             /\ Len(Queue!Mails) < Cardinality(Element)
             /\ Queue!Mails' = Append(Queue!Mails, m) \/ Queue!Mails' = <<m>> \o Queue!Mails
             /\ Queue!Received' = Queue!Received
  BY <1>1, Zenon DEF QueueMoves
<1>2. CASE \E t \in Thread :
             /\ Queue!Mails # <<>> /\ Queue!Mails' = Tail(Queue!Mails)
             /\ Queue!Received' = [Queue!Received EXCEPT ![t] = Head(Queue!Mails)]
  BY <1>2, Zenon DEF QueueMoves
<1>3. CASE /\ Queue!Mails' = Queue!Mails \/ Queue!Mails' = <<>>
           /\ Queue!Received' = Queue!Received
  BY <1>3, Zenon DEF QueueMoves
<1> QED BY <1>1, <1>2, <1>3, Zenon DEF QueueStep

LEMMA QueueFacts ==
  ASSUME QueueAssumption
  PROVE  /\ Lists /\ List = {Rx, Tx} /\ Rx # Tx /\ Rx \in List /\ Tx \in List
         /\ List \ {Rx} = {Tx} /\ Limits \subseteq Waiting
         /\ Kind(Rx) = "wait" /\ Kind(Tx) = "send"
         /\ IsFiniteSet(Element) /\ None \notin Element /\ Queue!SomeMsg \in Msg
BY DEF QueueAssumption, Queue!MessageQueueConstants, RetryConstants, Lists, Kind, Waiting,
     Queue!SomeMsg, IsFiniteSet, Queue!IsFiniteSet

LEMMA ElementsShown ==
  ASSUME QueueAssumption, QueueData
  PROVE  Queue!ElementsExact /\ entry \in 0..Cardinality(Element)
<1>1. \A S : Queue!Cardinality(S) = Cardinality(S)
  BY DEF Queue!Cardinality, Cardinality, Queue!IsFiniteSet, IsFiniteSet
<1>2. /\ \A e : (Queue!Linked(queue, e) <=> Linked(queue, e)) /\ (Queue!Linked(free, e) <=> Linked(free, e))
      /\ Queue!Once(queue) /\ Queue!Once(free)
  BY DEF QueueData, ElementPlaces, Queue!Linked, Linked, Queue!Once, Once
<1>3. ASSUME NEW e \in Element
      PROVE  Cardinality({t \in Thread : mine[t] = e}) =
               IF Linked(queue, e) \/ Linked(free, e) THEN 0 ELSE 1
  <2> DEFINE S == {t \in Thread : mine[t] = e}
  <2>1. (\A x, y \in S : x = y) /\ (S = {} <=> Linked(queue, e) \/ Linked(free, e))
    BY DEF QueueData, ElementPlaces
  <2> HIDE DEF S
  <2>2. Cardinality(S) = IF S = {} THEN 0 ELSE 1
    BY <2>1, AtMostOne
  <2> QED BY <2>1, <2>2 DEF S
<1>4. Queue!ElementsExact
  BY <1>1, <1>2, <1>3 DEF Queue!ElementsExact, QueueData, ElementPlaces
<1>5. entry \in 0..Cardinality(Element)
  BY QueueFacts, LengthFacts DEF QueueData, QueueTypes, ElementPlaces
<1> QED BY <1>4, <1>5

LEMMA QueueSame ==
  /\ \A l : Queue!ResumeOne(l) <=> ResumeOne(l)
  /\ \A L : Queue!ResumeAllFailed(L) <=> ResumeAllFailed(L)
  /\ \A t, c, l, q, limit : Queue!WaitOn(t, c, l, q, limit) <=> WaitOn(t, c, l, q, limit)
  /\ \A t : Queue!Over(t) <=> Over(t)
  /\ \A t, l, L : Queue!RetryDetach(t, l, L) <=> RetryDetach(t, l, L)
  /\ \A t, L : Queue!DetachTest(t, L) <=> DetachTest(t, L)
  /\ \A t : Queue!DetachResume(t) <=> DetachResume(t)
  /\ Queue!TimerExpires <=> TimerExpires
  /\ \A t, c : Queue!Failed(t, c) <=> Failed(t, c)
  /\ \A t, c, limit : Queue!Looks(t, c, limit) <=> Looks(t, c, limit)
  /\ \A t, l : Queue!Calls(t, l) <=> Calls(t, l)
  /\ \A c, l : Queue!Woken(c, l) = Woken(c, l)
  /\ \A l, n : Queue!LinkFirst(l, n) = LinkFirst(l, n) /\ Queue!LinkLast(l, n) = LinkLast(l, n)
  /\ \A l, t : Queue!Enqueue(l, t) = Enqueue(l, t)
  /\ \A t, c, l : Queue!Goto(t, c, l) <=> Goto(t, c, l)
  /\ \A t, limit : Queue!Remains(t, limit) <=> Remains(t, limit)
  /\ \A q, e : Queue!Linked(q, e) <=> Linked(q, e)
<1>1. /\ \A l : Queue!ResumeOne(l) <=> ResumeOne(l)
      /\ \A L : Queue!ResumeAllFailed(L) <=> ResumeAllFailed(L)
  BY DEF Queue!ResumeOne, ResumeOne, Queue!Resume, Resume, Queue!waitVars, waitVars,
       Queue!ResumeAllFailed, ResumeAllFailed, Queue!Linked, Linked
<1>3. /\ \A t, c, l, q, limit : Queue!WaitOn(t, c, l, q, limit) <=> WaitOn(t, c, l, q, limit)
      /\ \A t : Queue!Over(t) <=> Over(t)
      /\ \A l, n : Queue!LinkFirst(l, n) = LinkFirst(l, n) /\ Queue!LinkLast(l, n) = LinkLast(l, n)
  BY DEF Queue!WaitOn, WaitOn, Queue!Park, Park, Queue!Goto, Goto, Queue!Remains, Remains,
       Queue!Over, Over, Queue!Return, Return, Queue!SomeList, SomeList, Queue!LinkFirst, LinkFirst,
       Queue!LinkLast, LinkLast
<1>4. /\ \A t, l, L : Queue!RetryDetach(t, l, L) <=> RetryDetach(t, l, L)
      /\ \A t, L : Queue!DetachTest(t, L) <=> DetachTest(t, L)
  BY DEF Queue!RetryDetach, RetryDetach, Queue!Detach, Detach, Queue!Calls, Calls,
       Queue!Goto, Goto, Queue!waitVars, waitVars, Queue!Suspended, Suspended,
       Queue!Linked, Linked, Queue!DetachTest, DetachTest, Queue!Return, Return,
       Queue!SomeList, SomeList
<1>5. /\ \A t : Queue!DetachResume(t) <=> DetachResume(t)
      /\ Queue!TimerExpires <=> TimerExpires
  BY DEF Queue!DetachResume, DetachResume, Queue!ResumeFailed, ResumeFailed,
       Queue!Goto, Goto, Queue!waitVars, waitVars,
       Queue!TimerExpires, TimerExpires, Queue!Timeout, Timeout, Queue!Unlink, Unlink,
       Queue!Linked, Linked, Queue!Position, Position, Queue!CutOut, CutOut,
       Queue!callVars, callVars
<1>6. /\ \A t, c : Queue!Failed(t, c) <=> Failed(t, c)
      /\ \A t, c, limit : Queue!Looks(t, c, limit) <=> Looks(t, c, limit)
      /\ \A t, l : Queue!Calls(t, l) <=> Calls(t, l)
      /\ \A c, l : Queue!Woken(c, l) = Woken(c, l)
  BY DEF Queue!Failed, Failed, Queue!Looks, Looks, Queue!Back, Back, Queue!Calls, Calls,
       Queue!Suspended, Suspended, Queue!Linked, Linked, Queue!Remaining, Remaining,
       Queue!Woken, Woken
<1>2. \A l, t : Queue!Enqueue(l, t) = Enqueue(l, t)
  BY DEF Queue!Enqueue, Enqueue, Queue!LinkBefore, LinkBefore, Queue!Lower, Lower,
       Queue!FirstOf, FirstOf, Queue!PutIn, PutIn
<1>7. /\ \A t, c, l : Queue!Goto(t, c, l) <=> Goto(t, c, l)
      /\ \A t, limit : Queue!Remains(t, limit) <=> Remains(t, limit)
      /\ \A q, e : Queue!Linked(q, e) <=> Linked(q, e)
  BY DEF Queue!Goto, Goto, Queue!Remains, Remains, Queue!Linked, Linked
<1> QED BY <1>1, <1>2, <1>3, <1>4, <1>5, <1>6, <1>7

LEMMA QueueInit ==
  ASSUME QueueAssumption, Queue!Init
  PROVE  QueueInv /\ Queue!Mails = <<>> /\ Queue!Received \in [Thread -> Msg]
<1>1. RetryInit
  BY DEF Queue!Init, Queue!RetryInit, Queue!ObjectInit, Queue!WaitInit, Queue!SomeList,
       RetryInit, ObjectInit, WaitInit, SomeList
<1>2. /\ queue = <<>> /\ free = ListOf(Element) /\ entry = 0
      /\ body = [e \in Element |-> Queue!SomeMsg] /\ mine = [t \in Thread |-> None]
      /\ mail = [t \in Thread |-> Queue!SomeMsg] /\ got = [t \in Thread |-> Queue!SomeMsg]
  BY DEF Queue!Init, Queue!ListOf, ListOf, Queue!Once, Once, Cardinality, Queue!Cardinality,
       IsFiniteSet, Queue!IsFiniteSet
<1>3. /\ ListOf(Element) \in Seq(Element) /\ Once(ListOf(Element))
      /\ \A x : Linked(ListOf(Element), x) <=> x \in Element
  BY QueueFacts, ListOfFacts
<1>4. QueueTypes
  BY <1>2, <1>3, QueueFacts DEF QueueTypes
<1>5. ElementPlaces
  BY <1>2, <1>3, QueueFacts DEF ElementPlaces, Linked, Once
<1>6. /\ Copying /\ Queue!Received \in [Thread -> Msg]
  BY <1>1, <1>2, QueueFacts DEF Copying, Queue!Received, RetryInit, ObjectInit
<1>7. Enough(Rx, entry) /\ Enough(Tx, Len(free))
  BY <1>1, RetryInitInv, QueueFacts DEF Enough
<1>8. Queue!Mails = <<>>
  BY <1>2 DEF Queue!Mails
<1> QED BY <1>1, <1>4, <1>5, <1>6, <1>7, <1>8, RetryInitInv DEF QueueInv, QueueData

\* Nobody changes an element, and nobody begins or ends to copy.
LEMMA DataStand ==
  ASSUME QueueAssumption, QueueData, UNCHANGED <<queue, free, body, entry, mine, got>>,
         mail' \in [Thread -> Msg], gone' = gone \/ \A t \in Thread : mine[t] = None,
         \A t \in Thread : \A c \in {"fill", "urge", "copy"} : pc'[t] = c <=> pc[t] = c
  PROVE  QueueData' /\ QueueStep /\ entry' = entry /\ free' = free
<1>1. QueueTypes' /\ ElementPlaces' /\ Copying'
  BY DEF QueueData, QueueTypes, ElementPlaces, Copying
<1>2. Queue!Mails' = Queue!Mails /\ Queue!Received' = Queue!Received
  BY DEF Queue!Mails, Queue!Received
<1> QED BY <1>1, <1>2 DEF QueueData, QueueStep

\* t gets the first free element.
LEMMA DataGet ==
  ASSUME QueueAssumption, QueueData, NEW t \in Thread, NEW c \in {"fill", "urge"},
         mine[t] = None, free # <<>>, pc \in [Thread -> Calling],
         free' = Tail(free), mine' = [mine EXCEPT ![t] = Head(free)],
         pc' = [pc EXCEPT ![t] = c], UNCHANGED <<queue, body, entry, got>>,
         mail' \in [Thread -> Msg], gone = {}, gone' = {}
  PROVE  QueueData' /\ QueueStep /\ entry' = entry /\ Len(free') = Len(free) - 1
<1>1. /\ queue \in Seq(Element) /\ free \in Seq(Element) /\ body \in [Element -> Msg]
      /\ mine \in [Thread -> Element \union {None}] /\ Once(free) /\ None \notin Element
  BY QueueFacts DEF QueueData, QueueTypes, ElementPlaces
<1>2. /\ free' \in Seq(Element) /\ Once(free') /\ Len(free') = Len(free) - 1
      /\ \A m : Linked(free', m) <=> Linked(free, m) /\ m # Head(free)
      /\ Head(free) \in Element /\ Linked(free, Head(free))
  BY <1>1, TailFacts, HeadFacts
<1>3. QueueTypes'
  BY <1>1, <1>2 DEF QueueData, QueueTypes
<1>4. ASSUME NEW e \in Element
      PROVE  /\ \A x, y \in Thread : mine'[x] = e /\ mine'[y] = e => x = y
             /\ (Linked(queue, e) \/ Linked(free', e)) <=> \A x \in Thread : mine'[x] # e
             /\ ~(Linked(queue, e) /\ Linked(free', e))
  <2>1. /\ \A x, y \in Thread : mine[x] = e /\ mine[y] = e => x = y
        /\ (Linked(queue, e) \/ Linked(free, e)) <=> \A x \in Thread : mine[x] # e
        /\ ~(Linked(queue, e) /\ Linked(free, e))
    BY DEF QueueData, ElementPlaces
  <2>2. \A x \in Thread : mine'[x] = e <=> (IF x = t THEN e = Head(free) ELSE mine[x] = e)
    BY <1>1
  <2> QED BY <1>1, <1>2, <2>1, <2>2
<1>5. ElementPlaces'
  BY <1>2, <1>4 DEF QueueData, ElementPlaces
<1>6. Copying'
  BY <1>1, <1>2 DEF QueueData, Copying
<1>7. Queue!Mails' = Queue!Mails
  BY DEF Queue!Mails
<1>8. Queue!Received' = Queue!Received
  <2>1. \A x \in Thread : (pc'[x] = "copy" <=> pc[x] = "copy") /\ (pc[x] = "copy" => mine'[x] = mine[x])
    BY <1>1 DEF QueueData, Copying
  <2> QED BY <2>1 DEF Queue!Received
<1> QED BY <1>2, <1>3, <1>5, <1>6, <1>7, <1>8 DEF QueueData, QueueStep

\* The messages in the queue.
LEMMA MessagesFacts ==
  ASSUME queue \in Seq(Element), body \in [Element -> Msg]
  PROVE  /\ Queue!Mails \in Seq(Msg) /\ Len(Queue!Mails) = Len(queue)
         /\ \A i \in 1..Len(queue) : Queue!Mails[i] = body[queue[i]]
<1>1. DOMAIN queue = 1..Len(queue) /\ Len(queue) \in Nat
  OBVIOUS
<1>2. PICK a : a = Queue!Mails
  OBVIOUS
<1>3. a = [i \in 1..Len(queue) |-> body[queue[i]]] /\ \A i \in 1..Len(queue) : body[queue[i]] \in Msg
  BY <1>1, <1>2 DEF Queue!Mails
<1>4. a \in Seq(Msg) /\ Len(a) = Len(queue) /\ \A i \in 1..Len(queue) : a[i] = body[queue[i]]
  BY <1>1, <1>3
<1> QED BY <1>2, <1>4

LEMMA MessagesNext ==
  ASSUME queue' \in Seq(Element), body' \in [Element -> Msg]
  PROVE  /\ Queue!Mails' \in Seq(Msg) /\ Len(Queue!Mails') = Len(queue')
         /\ \A i \in 1..Len(queue') : Queue!Mails'[i] = body'[queue'[i]]
<1>1. DOMAIN queue' = 1..Len(queue') /\ Len(queue') \in Nat
  OBVIOUS
<1>2. PICK a, n, q, f : a = Queue!Mails' /\ n = Len(queue') /\ q = queue' /\ f = body'
  OBVIOUS
<1>3. a = [i \in 1..n |-> f[q[i]]] /\ \A i \in 1..n : f[q[i]] \in Msg
  BY <1>1, <1>2 DEF Queue!Mails
<1>4. a \in Seq(Msg) /\ Len(a) = n /\ \A i \in 1..n : a[i] = f[q[i]]
  BY <1>1, <1>2, <1>3
<1> QED BY <1>2, <1>4

\* Element e joins the queue with message m.
LEMMA DataLink ==
  ASSUME QueueAssumption, QueueData, NEW e \in Element, NEW m \in Msg, NEW c \in {"fill", "urge"},
         ~Linked(queue, e),
         queue' = IF c = "fill" THEN LinkLast(queue, e) ELSE LinkFirst(queue, e),
         body' = [body EXCEPT ![e] = m]
  PROVE  /\ queue' \in Seq(Element) /\ Once(queue') /\ Len(queue') = Len(queue) + 1
         /\ Len(queue) \in Nat
         /\ \A x : Linked(queue', x) <=> Linked(queue, x) \/ x = e
         /\ body' \in [Element -> Msg]
         /\ Len(Queue!Mails) < Cardinality(Element)
         /\ Queue!Mails' = Append(Queue!Mails, m) \/ Queue!Mails' = <<m>> \o Queue!Mails
<1>1. /\ queue \in Seq(Element) /\ body \in [Element -> Msg] /\ Once(queue) /\ Len(queue) \in Nat
  BY DEF QueueData, QueueTypes, ElementPlaces
<1>2. Len(LinkLast(queue, e)) = Len(queue) + 1
  BY <1>1, AppendProperties DEF LinkLast
<1>3. /\ queue' \in Seq(Element) /\ Once(queue') /\ Len(queue') = Len(queue) + 1
      /\ \A x : Linked(queue', x) <=> Linked(queue, x) \/ x = e
  BY <1>1, <1>2, LinkLastFacts, LinkFirstFacts
<1>4. /\ body' \in [Element -> Msg] /\ body'[e] = m
      /\ \A i \in DOMAIN queue : body'[queue[i]] = body[queue[i]]
  BY <1>1 DEF Linked
<1>5. /\ Queue!Mails \in Seq(Msg) /\ Len(Queue!Mails) = Len(queue)
      /\ \A i \in 1..Len(queue) : Queue!Mails[i] = body[queue[i]]
  BY <1>1, MessagesFacts
<1>6. /\ Queue!Mails' \in Seq(Msg) /\ Len(Queue!Mails') = Len(queue) + 1
      /\ \A i \in 1..(Len(queue) + 1) : Queue!Mails'[i] = body'[queue'[i]]
  <2>1. queue' \in Seq(Element) /\ body' \in [Element -> Msg]
    BY <1>3, <1>4
  <2> QED BY <1>3, <2>1, MessagesNext
<1>7. Len(Queue!Mails) < Cardinality(Element)
  <2>1. Len(queue') <= Cardinality(Element) /\ Cardinality(Element) \in Nat
    BY <1>3, QueueFacts, LengthFacts
  <2> QED BY <1>1, <1>3, <1>5, <2>1
<1>8. Queue!Mails' = Append(Queue!Mails, m) \/ Queue!Mails' = <<m>> \o Queue!Mails
  <2>1. PICK g, a, b : g = body' /\ a = Queue!Mails /\ b = Queue!Mails'
    OBVIOUS
  <2>2. PICK r : r = queue'
    OBVIOUS
  <2>3. Carries(queue, g, a, Msg) /\ Carries(r, g, b, Msg) /\ g[e] = m
    <3>1. DOMAIN queue = 1..Len(queue)
      BY <1>1
    <3> QED BY <1>3, <1>4, <1>5, <1>6, <2>1, <2>2, <3>1 DEF Carries
  <2>4. CASE c = "fill"
    <3>1. r = LinkLast(queue, e)
      BY <2>2, <2>4
    <3>2. b = Append(a, m)
      BY <1>1, <2>3, <3>1, CarriedLast
    <3> QED BY <2>1, <3>2
  <2>5. CASE c = "urge"
    <3>1. r = LinkFirst(queue, e)
      BY <2>2, <2>5
    <3>2. b = LinkFirst(a, g[e])
      BY <1>1, <2>3, <3>1, CarriedFirst
    <3> QED BY <2>1, <2>3, <3>2 DEF LinkFirst
  <2> QED BY <2>4, <2>5
<1> QED BY <1>1, <1>3, <1>4, <1>7, <1>8

\* t links the element it has filled.
LEMMA DataSend ==
  ASSUME QueueAssumption, QueueData, NEW t \in Thread, pc[t] \in {"fill", "urge"},
         pc \in [Thread -> Calling],
         queue' = IF pc[t] = "fill" THEN LinkLast(queue, mine[t]) ELSE LinkFirst(queue, mine[t]),
         body' = [body EXCEPT ![mine[t]] = mail[t]], entry' = entry + 1,
         pc' = [pc EXCEPT ![t] = "run"], mine' = [mine EXCEPT ![t] = None],
         mail' \in [Thread -> Msg], UNCHANGED <<free, got>>, gone' = gone
  PROVE  QueueData' /\ QueueStep
<1>1. /\ mine \in [Thread -> Element \union {None}] /\ mine[t] \in Element /\ mail[t] \in Msg
      /\ None \notin Element /\ ~Linked(queue, mine[t]) /\ ~Linked(free, mine[t]) /\ entry = Len(queue)
      /\ Once(free)
  BY QueueFacts DEF QueueData, QueueTypes, ElementPlaces, Copying
<1>2. /\ queue' \in Seq(Element) /\ Once(queue') /\ Len(queue') = Len(queue) + 1
      /\ \A x : Linked(queue', x) <=> Linked(queue, x) \/ x = mine[t]
      /\ body' \in [Element -> Msg]
      /\ Len(Queue!Mails) < Cardinality(Element)
      /\ Queue!Mails' = Append(Queue!Mails, mail[t]) \/ Queue!Mails' = <<mail[t]>> \o Queue!Mails
  BY <1>1, DataLink
<1>3. QueueTypes'
  BY <1>1, <1>2 DEF QueueData, QueueTypes
<1>4. ASSUME NEW e \in Element
      PROVE  /\ \A x, y \in Thread : mine'[x] = e /\ mine'[y] = e => x = y
             /\ (Linked(queue', e) \/ Linked(free, e)) <=> \A x \in Thread : mine'[x] # e
             /\ ~(Linked(queue', e) /\ Linked(free, e))
  <2>1. /\ \A x, y \in Thread : mine[x] = e /\ mine[y] = e => x = y
        /\ (Linked(queue, e) \/ Linked(free, e)) <=> \A x \in Thread : mine[x] # e
        /\ ~(Linked(queue, e) /\ Linked(free, e))
    BY DEF QueueData, ElementPlaces
  <2>2. \A x \in Thread : mine'[x] = e <=> x # t /\ mine[x] = e
    BY <1>1
  <2> QED BY <1>1, <1>2, <2>1, <2>2
<1>5. ElementPlaces'
  BY <1>1, <1>2, <1>4 DEF ElementPlaces
<1>6. Copying'
  BY <1>1 DEF QueueData, Copying
<1>7. Queue!Received' = Queue!Received
  <2>1. ASSUME NEW x \in Thread
        PROVE  /\ pc'[x] = "copy" <=> pc[x] = "copy"
               /\ pc[x] = "copy" => mine'[x] = mine[x] /\ body'[mine[x]] = body[mine[x]]
    <3>1. pc[x] = "copy" => x # t /\ mine[x] \in Element /\ mine[x] # mine[t]
      BY <1>1 DEF QueueData, Copying, ElementPlaces
    <3> QED BY <1>1, <3>1 DEF QueueData, QueueTypes
  <2> QED BY <2>1 DEF Queue!Received
<1> QED BY <1>1, <1>2, <1>3, <1>5, <1>6, <1>7 DEF QueueData, QueueStep

\* The first free element joins the queue at once.
LEMMA DataSendIsr ==
  ASSUME QueueAssumption, QueueData, NEW m \in Msg, NEW c \in {"fill", "urge"}, free # <<>>,
         queue' = IF c = "fill" THEN LinkLast(queue, Head(free)) ELSE LinkFirst(queue, Head(free)),
         body' = [body EXCEPT ![Head(free)] = m], entry' = entry + 1, free' = Tail(free),
         UNCHANGED <<pc, mine, mail, got, gone>>
  PROVE  QueueData' /\ QueueStep /\ Len(free') = Len(free) - 1
<1>1. /\ free \in Seq(Element) /\ Once(free) /\ entry = Len(queue)
      /\ mine \in [Thread -> Element \union {None}] /\ None \notin Element
  BY QueueFacts DEF QueueData, QueueTypes, ElementPlaces
<1>2. /\ free' \in Seq(Element) /\ Once(free') /\ Len(free') = Len(free) - 1
      /\ \A x : Linked(free', x) <=> Linked(free, x) /\ x # Head(free)
      /\ Head(free) \in Element /\ Linked(free, Head(free))
  BY <1>1, TailFacts, HeadFacts
<1>3. ~Linked(queue, Head(free)) /\ \A x \in Thread : mine[x] # Head(free)
  BY <1>2 DEF QueueData, ElementPlaces
<1>4. /\ queue' \in Seq(Element) /\ Once(queue') /\ Len(queue') = Len(queue) + 1
      /\ \A x : Linked(queue', x) <=> Linked(queue, x) \/ x = Head(free)
      /\ body' \in [Element -> Msg]
      /\ Len(Queue!Mails) < Cardinality(Element)
      /\ Queue!Mails' = Append(Queue!Mails, m) \/ Queue!Mails' = <<m>> \o Queue!Mails
  BY <1>2, <1>3, DataLink
<1>5. QueueTypes'
  BY <1>2, <1>4 DEF QueueData, QueueTypes
<1>6. ASSUME NEW e \in Element
      PROVE  /\ (Linked(queue', e) \/ Linked(free', e)) <=> \A x \in Thread : mine[x] # e
             /\ ~(Linked(queue', e) /\ Linked(free', e))
  <2>1. /\ (Linked(queue, e) \/ Linked(free, e)) <=> \A x \in Thread : mine[x] # e
        /\ ~(Linked(queue, e) /\ Linked(free, e))
    BY DEF QueueData, ElementPlaces
  <2> QED BY <1>2, <1>3, <1>4, <2>1
<1>7. ElementPlaces'
  BY <1>1, <1>2, <1>4, <1>6 DEF QueueData, ElementPlaces
<1>8. Copying'
  BY DEF QueueData, Copying
<1>9. Queue!Received' = Queue!Received
  <2>1. ASSUME NEW x \in Thread, pc[x] = "copy" PROVE body'[mine[x]] = body[mine[x]]
    <3>1. mine[x] \in Element /\ mine[x] # Head(free)
      BY <1>1, <1>3, <2>1 DEF QueueData, Copying
    <3> QED BY <3>1 DEF QueueData, QueueTypes
  <2> QED BY <2>1 DEF Queue!Received
<1> QED BY <1>2, <1>4, <1>5, <1>7, <1>8, <1>9 DEF QueueData, QueueStep

\* t gets the element at the head of the queue.
LEMMA DataUnlink ==
  ASSUME QueueAssumption, QueueData, NEW t \in Thread, mine[t] = None, entry > 0,
         pc \in [Thread -> Calling],
         queue' = Tail(queue), entry' = entry - 1, mine' = [mine EXCEPT ![t] = Head(queue)],
         pc' = [pc EXCEPT ![t] = "copy"], UNCHANGED <<free, body, mail, got>>, gone = {}, gone' = {}
  PROVE  QueueData' /\ QueueStep
<1>1. /\ queue \in Seq(Element) /\ queue # <<>> /\ body \in [Element -> Msg] /\ Once(queue)
      /\ mine \in [Thread -> Element \union {None}] /\ None \notin Element /\ entry = Len(queue)
  BY QueueFacts DEF QueueData, QueueTypes, ElementPlaces
<1>2. /\ queue' \in Seq(Element) /\ Once(queue') /\ Len(queue') = Len(queue) - 1
      /\ \A m : Linked(queue', m) <=> Linked(queue, m) /\ m # Head(queue)
      /\ Head(queue) \in Element /\ Linked(queue, Head(queue))
  BY <1>1, TailFacts, HeadFacts
<1>3. QueueTypes'
  BY <1>1, <1>2 DEF QueueData, QueueTypes
<1>4. ASSUME NEW e \in Element
      PROVE  /\ \A x, y \in Thread : mine'[x] = e /\ mine'[y] = e => x = y
             /\ (Linked(queue', e) \/ Linked(free, e)) <=> \A x \in Thread : mine'[x] # e
             /\ ~(Linked(queue', e) /\ Linked(free, e))
  <2>1. /\ \A x, y \in Thread : mine[x] = e /\ mine[y] = e => x = y
        /\ (Linked(queue, e) \/ Linked(free, e)) <=> \A x \in Thread : mine[x] # e
        /\ ~(Linked(queue, e) /\ Linked(free, e))
    BY DEF QueueData, ElementPlaces
  <2>2. \A x \in Thread : mine'[x] = e <=> (IF x = t THEN e = Head(queue) ELSE mine[x] = e)
    BY <1>1
  <2> QED BY <1>1, <1>2, <2>1, <2>2
<1>5. ElementPlaces'
  BY <1>1, <1>2, <1>4 DEF QueueData, ElementPlaces
<1>6. Copying'
  BY <1>1, <1>2 DEF QueueData, Copying
<1>7. /\ Queue!Mails' = Tail(Queue!Mails) /\ Queue!Mails # <<>>
      /\ Head(Queue!Mails) = body[Head(queue)]
  <2>1. /\ Queue!Mails \in Seq(Msg) /\ Len(Queue!Mails) = Len(queue)
        /\ \A i \in 1..Len(queue) : Queue!Mails[i] = body[queue[i]]
    BY <1>1, MessagesFacts
  <2>2. body' \in [Element -> Msg] /\ body' = body
    BY <1>1
  <2>3. /\ Queue!Mails' \in Seq(Msg) /\ Len(Queue!Mails') = Len(queue) - 1
        /\ \A i \in 1..(Len(queue) - 1) : Queue!Mails'[i] = body[Tail(queue)[i]]
    BY <1>2, <2>2, MessagesNext
  <2>4. PICK a, b : a = Queue!Mails /\ b = Queue!Mails'
    OBVIOUS
  <2>5. Carries(queue, body, a, Msg) /\ Carries(Tail(queue), body, b, Msg)
    BY <1>1, <1>2, <2>1, <2>3, <2>4 DEF Carries
  <2>6. b = Tail(a) /\ a # <<>> /\ Head(a) = body[Head(queue)]
    BY <1>1, <2>5, CarriedTail
  <2> QED BY <2>4, <2>6
<1>8. Queue!Received' = [Queue!Received EXCEPT ![t] = body[Head(queue)]]
  <2>1. \A x \in Thread : x # t => (pc'[x] = pc[x] /\ mine'[x] = mine[x])
    BY <1>1
  <2>2. pc'[t] = "copy" /\ mine'[t] = Head(queue)
    BY <1>1
  <2>3. Queue!Received' = [x \in Thread |-> IF pc'[x] = "copy" THEN body[mine'[x]] ELSE got[x]]
    BY DEF Queue!Received
  <2>4. [Queue!Received EXCEPT ![t] = body[Head(queue)]] =
          [x \in Thread |-> IF x = t THEN body[Head(queue)]
                           ELSE IF pc[x] = "copy" THEN body[mine[x]] ELSE got[x]]
    BY DEF Queue!Received
  <2>5. ASSUME NEW x \in Thread
        PROVE  (IF pc'[x] = "copy" THEN body[mine'[x]] ELSE got[x]) =
                 IF x = t THEN body[Head(queue)]
                 ELSE IF pc[x] = "copy" THEN body[mine[x]] ELSE got[x]
    BY <2>1, <2>2
  <2> QED BY <2>3, <2>4, <2>5
<1> QED BY <1>3, <1>5, <1>6, <1>7, <1>8 DEF QueueData, QueueStep

\* t has copied its element, which is free again.
LEMMA DataFree ==
  ASSUME QueueAssumption, QueueData, NEW t \in Thread, pc[t] = "copy", pc \in [Thread -> Calling],
         got' = [got EXCEPT ![t] = body[mine[t]]],
         body' = [body EXCEPT ![mine[t]] = Queue!SomeMsg], free' = LinkFirst(free, mine[t]),
         pc' = [pc EXCEPT ![t] = "run"], mine' = [mine EXCEPT ![t] = None],
         mail' \in [Thread -> Msg], UNCHANGED <<queue, entry>>, gone' = gone
  PROVE  QueueData' /\ QueueStep /\ Len(free') = Len(free) + 1
<1>1. /\ mine \in [Thread -> Element \union {None}] /\ mine[t] \in Element
      /\ queue \in Seq(Element) /\ free \in Seq(Element) /\ body \in [Element -> Msg]
      /\ None \notin Element /\ ~Linked(queue, mine[t]) /\ ~Linked(free, mine[t])
      /\ Once(free) /\ Queue!SomeMsg \in Msg /\ got \in [Thread -> Msg]
  BY QueueFacts DEF QueueData, QueueTypes, ElementPlaces, Copying
<1>2. /\ free' \in Seq(Element) /\ Once(free') /\ Len(free') = Len(free) + 1
      /\ \A x : Linked(free', x) <=> Linked(free, x) \/ x = mine[t]
  BY <1>1, LinkFirstFacts
<1>3. QueueTypes'
  BY <1>1, <1>2 DEF QueueTypes
<1>4. ASSUME NEW e \in Element
      PROVE  /\ \A x, y \in Thread : mine'[x] = e /\ mine'[y] = e => x = y
             /\ (Linked(queue, e) \/ Linked(free', e)) <=> \A x \in Thread : mine'[x] # e
             /\ ~(Linked(queue, e) /\ Linked(free', e))
  <2>1. /\ \A x, y \in Thread : mine[x] = e /\ mine[y] = e => x = y
        /\ (Linked(queue, e) \/ Linked(free, e)) <=> \A x \in Thread : mine[x] # e
        /\ ~(Linked(queue, e) /\ Linked(free, e))
    BY DEF QueueData, ElementPlaces
  <2>2. \A x \in Thread : mine'[x] = e <=> x # t /\ mine[x] = e
    BY <1>1
  <2> QED BY <1>1, <1>2, <2>1, <2>2
<1>5. ElementPlaces'
  BY <1>2, <1>4 DEF QueueData, ElementPlaces
<1>6. Copying'
  BY <1>1 DEF QueueData, Copying
<1>7. Queue!Mails' = Queue!Mails
  <2>1. \A i \in DOMAIN queue : body'[queue[i]] = body[queue[i]]
    BY <1>1 DEF Linked
  <2> QED BY <2>1 DEF Queue!Mails
<1>8. Queue!Received' = Queue!Received
  <2>1. ASSUME NEW x \in Thread, x # t
        PROVE  /\ pc'[x] = pc[x] /\ got'[x] = got[x]
               /\ pc[x] = "copy" => mine'[x] = mine[x] /\ body'[mine[x]] = body[mine[x]]
    <3>1. pc[x] = "copy" => mine[x] \in Element /\ mine[x] # mine[t]
      BY <1>1, <2>1 DEF QueueData, Copying, ElementPlaces
    <3> QED BY <1>1, <2>1, <3>1
  <2>2. pc'[t] = "run" /\ got'[t] = body[mine[t]]
    BY <1>1
  <2> QED BY <2>1, <2>2 DEF Queue!Received
<1> QED BY <1>2, <1>3, <1>5, <1>6, <1>7, <1>8 DEF QueueData, QueueStep

\* All elements of the queue are free.
LEMMA DataReset ==
  ASSUME QueueAssumption, QueueData, queue' = <<>>, entry' = 0,
         free' = [i \in DOMAIN queue |-> queue[Len(queue) + 1 - i]] \o free,
         body' = [e \in Element |-> IF Linked(queue, e) THEN Queue!SomeMsg ELSE body[e]],
         UNCHANGED <<pc, mine, mail, got, gone>>
  PROVE  QueueData' /\ QueueStep
<1>1. /\ queue \in Seq(Element) /\ free \in Seq(Element) /\ body \in [Element -> Msg]
      /\ Once(queue) /\ Once(free) /\ Queue!SomeMsg \in Msg
      /\ mine \in [Thread -> Element \union {None}]
      /\ \A x : Linked(queue, x) => x \in Element
  BY QueueFacts, HeadFacts DEF QueueData, QueueTypes, ElementPlaces
<1>2. \A x : ~(Linked(queue, x) /\ Linked(free, x))
  BY <1>1 DEF QueueData, ElementPlaces
<1>3. /\ free' \in Seq(Element) /\ Once(free')
      /\ \A x : Linked(free', x) <=> Linked(queue, x) \/ Linked(free, x)
  <2>1. PICK r : r = free'
    OBVIOUS
  <2>2. /\ r \in Seq(Element) /\ Once(r)
        /\ \A x : Linked(r, x) <=> Linked(queue, x) \/ Linked(free, x)
    <3>1. r = Backwards(queue, free)
      BY <2>1 DEF Backwards, Reversed
    <3> QED BY <1>1, <1>2, <3>1, BackwardsFacts
  <2> QED BY <2>1, <2>2
<1>4. QueueTypes'
  BY <1>1, <1>3 DEF QueueData, QueueTypes
<1>5. ElementPlaces'
  <2>1. Once(<<>>) /\ \A x : ~Linked(<<>>, x)
    BY DEF Once, Linked
  <2> QED BY <1>3, <2>1 DEF QueueData, ElementPlaces
<1>6. Copying'
  BY DEF QueueData, Copying
<1>7. Queue!Mails' = <<>>
  BY DEF Queue!Mails
<1>8. Queue!Received' = Queue!Received
  <2>1. ASSUME NEW x \in Thread, pc[x] = "copy" PROVE body'[mine[x]] = body[mine[x]]
    <3>1. mine[x] \in Element /\ ~Linked(queue, mine[x])
      BY <1>1, <2>1, QueueFacts DEF QueueData, Copying, ElementPlaces
    <3> QED BY <3>1
  <2> QED BY <2>1 DEF Queue!Received
<1> QED BY <1>4, <1>5, <1>6, <1>7, <1>8 DEF QueueData, QueueStep

\* Steps that change neither the queue nor the free list.
LEMMA QueueQuiet ==
  ASSUME QueueAssumption, QueueInv, RetryInv', QueueData', entry' = entry, free' = free,
         NEW T, T = {} \/ \E t \in Thread : T = {t},
         \A l \in List : Woken(Kind(l), l)' = Woken(Kind(l), l) \ T,
         T \intersect Woken("wait", Rx) # {} => entry = 0,
         T \intersect Woken("send", Tx) # {} => free = <<>>,
         wait'[Rx] # <<>> => wait[Rx] # <<>> \/ entry = 0,
         wait'[Tx] # <<>> => wait[Tx] # <<>> \/ free = <<>>
  PROVE  QueueInv'
<1>1. /\ RetryInv /\ entry \in Int /\ Len(free) \in Int /\ (free = <<>> => Len(free) <= 0)
      /\ Enough(Rx, entry) /\ Enough(Tx, Len(free)) /\ Rx \in List /\ Tx \in List
  BY QueueFacts DEF QueueInv, QueueData, QueueTypes, ElementPlaces
<1>2. wait'[Rx] # <<>> => entry <= Cardinality(Woken(Kind(Rx), Rx)')
  <2>1. /\ T \intersect Woken(Kind(Rx), Rx) # {} => entry <= 0
        /\ wait'[Rx] # <<>> => wait[Rx] # <<>> \/ entry <= 0
        /\ Woken(Kind(Rx), Rx)' = Woken(Kind(Rx), Rx) \ T
    BY <1>1, QueueFacts
  <2> QED BY <1>1, <2>1, EnoughStays
<1>3. wait'[Tx] # <<>> => Len(free) <= Cardinality(Woken(Kind(Tx), Tx)')
  <2>1. /\ T \intersect Woken(Kind(Tx), Tx) # {} => Len(free) <= 0
        /\ wait'[Tx] # <<>> => wait[Tx] # <<>> \/ Len(free) <= 0
        /\ Woken(Kind(Tx), Tx)' = Woken(Kind(Tx), Tx) \ T
    BY <1>1, QueueFacts
  <2> QED BY <1>1, <2>1, EnoughStays
<1>4. Enough(Rx, entry)' /\ Enough(Tx, Len(free))'
  BY <1>2, <1>3 DEF Enough
<1> QED BY <1>4 DEF QueueInv

\* Who waits and who is in a call copies nothing.
LEMMA CopiesNothing ==
  ASSUME QueueAssumption, QueueInv, NEW t \in Thread, pc[t] \notin {"fill", "urge", "copy"}
  PROVE  mine[t] = None
BY DEF QueueInv, QueueData, Copying

\* A thread begins or goes on to wait on l.
LEMMA QueueWait ==
  ASSUME QueueAssumption, QueueInv, NEW t \in Thread, NEW l \in {Rx, Tx}, ~Suspended(t), gone = {},
         pc[t] \notin {"fill", "urge", "copy"},
         NEW limit \in Waiting, WaitOn(t, Kind(l), l, Enqueue(l, t), limit),
         l = Rx => entry = 0, l = Tx => free = <<>>,
         t \notin Woken(Kind(Rx), Rx) \/ l = Rx, t \notin Woken(Kind(Tx), Tx) \/ l = Tx,
         UNCHANGED <<queue, free, body, entry, mine, got>>, mail' \in [Thread -> Msg]
  PROVE  QueueInv' /\ QueueStep
<1>1. RetryInv /\ l \in List
  BY QueueFacts DEF QueueInv
<1>2. /\ RetryInv'
      /\ \A m \in List : Woken(Kind(m), m)' = Woken(Kind(m), m) \ {t}
      /\ \A m \in List : m # l => wait'[m] = wait[m]
  BY <1>1, EnqueuedFacts
<1>3. PICK T : T = {t}
  OBVIOUS
<1>4. /\ T = {} \/ \E x \in Thread : T = {x}
      /\ \A m \in List : Woken(Kind(m), m)' = Woken(Kind(m), m) \ T
      /\ T \intersect Woken("wait", Rx) # {} => entry = 0
      /\ T \intersect Woken("send", Tx) # {} => free = <<>>
      /\ wait'[Rx] # <<>> => wait[Rx] # <<>> \/ entry = 0
      /\ wait'[Tx] # <<>> => wait[Tx] # <<>> \/ free = <<>>
  BY <1>2, <1>3, QueueFacts
<1>5. /\ gone' = gone
      /\ \A x \in Thread : \A c \in {"fill", "urge", "copy"} : pc'[x] = c <=> pc[x] = c
  <2>1. pc \in [Thread -> Calling] /\ pc' = [pc EXCEPT ![t] = Kind(l)] /\ gone' = gone
    BY <1>1, CloseFacts DEF RetryInv, WaitOn, Goto
  <2> QED BY <2>1 DEF Kind
<1>6. QueueData' /\ QueueStep /\ entry' = entry /\ free' = free
  BY <1>5, DataStand DEF QueueInv
<1> QED BY <1>2, <1>4, <1>6, QueueQuiet

\* Steps that change nobody's way, and no list becomes longer.
LEMMA QueueStill ==
  ASSUME QueueAssumption, QueueInv, RetryInv', UNCHANGED <<queue, free, body, entry, mine, got>>,
         mail' \in [Thread -> Msg], gone' = gone \/ \A t \in Thread : mine[t] = None,
         \A t \in Thread : \A c \in {"fill", "urge", "copy"} : pc'[t] = c <=> pc[t] = c,
         \A l \in List : Woken(Kind(l), l)' = Woken(Kind(l), l),
         \A l \in List : wait'[l] # <<>> => wait[l] # <<>>
  PROVE  QueueInv' /\ QueueStep
<1>1. PICK T : T = {}
  OBVIOUS
<1>2. /\ T = {} \/ \E x \in Thread : T = {x}
      /\ \A m \in List : Woken(Kind(m), m)' = Woken(Kind(m), m) \ T
      /\ T \intersect Woken("wait", Rx) = {} /\ T \intersect Woken("send", Tx) = {}
      /\ wait'[Rx] # <<>> => wait[Rx] # <<>> \/ entry = 0
      /\ wait'[Tx] # <<>> => wait[Tx] # <<>> \/ free = <<>>
  BY <1>1, QueueFacts
<1>3. QueueData' /\ QueueStep /\ entry' = entry /\ free' = free
  BY DataStand DEF QueueInv
<1> QED BY <1>2, <1>3, QueueQuiet

LEMMA QueueOutside ==
  ASSUME QueueAssumption, QueueInv, Queue!Outside
  PROVE  QueueInv' /\ QueueStep
<1>1. /\ RetryInv /\ Lists /\ DetachUnarmed /\ UNCHANGED left
      /\ \/ TimerExpires
         \/ \E t \in Thread :
              RetryDetach(t, Rx, List) \/ DetachTest(t, List \ {Rx}) \/ DetachResume(t)
      /\ UNCHANGED <<queue, free, body, entry, mine, got>> /\ mail' = mail
  BY QueueSame, QueueFacts DEF Queue!Outside, Queue!mqVars, QueueInv, QueueAssumption
<1>2. /\ RetryInv'
      /\ \A l \in List : Woken(Kind(l), l)' = Woken(Kind(l), l)
      /\ \A l \in List : wait'[l] # <<>> => wait[l] # <<>>
  BY <1>1, OutsideFacts
<1>3. /\ gone' = gone \/ \A t \in Thread : mine[t] = None
      /\ \A t \in Thread : \A c \in {"fill", "urge", "copy"} : pc'[t] = c <=> pc[t] = c
  <2>1. pc \in [Thread -> Calling] /\ SomeList \in List
    BY <1>1, CloseFacts, ObjectAssumption DEF RetryInv, SomeList
  <2>2. CASE TimerExpires
    BY <2>2 DEF TimerExpires, callVars
  <2>3. ASSUME NEW t \in Thread, RetryDetach(t, Rx, List), \A x \in Thread : mine[x] = None
        PROVE  \A x \in Thread : \A c \in {"fill", "urge", "copy"} : pc'[x] = c <=> pc[x] = c
    BY <2>1, <2>3 DEF RetryDetach, Detach, Calls, Goto
  <2>4. ASSUME NEW t \in Thread, DetachTest(t, List \ {Rx}) \/ DetachResume(t)
        PROVE  /\ gone' = gone
               /\ \A x \in Thread : \A c \in {"fill", "urge", "copy"} : pc'[x] = c <=> pc[x] = c
    <3>1. CASE DetachTest(t, List \ {Rx})
      BY <2>1, <3>1 DEF DetachTest, Goto, Return
    <3>2. CASE DetachResume(t)
      BY <2>1, <3>2 DEF DetachResume, Goto
    <3> QED BY <2>4, <3>1, <3>2
  <2> QED BY <2>2, <2>3, <2>4, QueueSame, QueueFacts DEF Queue!Outside
<1> QED BY <1>1, <1>2, <1>3, QueueStill DEF QueueInv, QueueData, QueueTypes

\* An element off the free list.
LEMMA QueueGet ==
  ASSUME QueueAssumption, QueueInv, NEW t \in Thread, NEW c \in {"fill", "urge"},
         Queue!GetElement(t, c), gone = {}, ~Suspended(t), pc[t] \in {"run", "send"},
         mail' \in [Thread -> Msg]
  PROVE  QueueInv' /\ QueueStep
<1>1. /\ free # <<>> /\ free' = Tail(free) /\ Goto(t, c, Rx) /\ Remains(t, "none")
      /\ mine' = [mine EXCEPT ![t] = Head(free)]
      /\ UNCHANGED <<queue, body, entry, got>> /\ wait' = wait /\ armed' = armed /\ err' = err
      /\ gone' = gone
  BY QueueSame DEF Queue!GetElement, Queue!Copies, Queue!waitVars
<1>2. /\ RetryInv /\ pc \in [Thread -> Calling] /\ left \in [Thread -> Waiting]
      /\ err \in [Thread -> {"OK", "ERROR", "ETIMEOUT"}] /\ t \notin Ending
  BY CloseFacts DEF QueueInv, RetryInv, Ending
<1>3. QueueData' /\ QueueStep /\ entry' = entry /\ Len(free') = Len(free) - 1
  <2>1. pc' = [pc EXCEPT ![t] = c] /\ gone' = {} /\ QueueData
    BY <1>1 DEF Goto, QueueInv
  <2> QED BY <1>1, <1>2, <2>1, CopiesNothing, DataGet
<1>4. RetryInv' /\ \A m \in List : Woken(Kind(m), m)' = Woken(Kind(m), m) \ {t}
  <2>1. /\ left' \in [Thread -> Waiting] /\ Rx \in List
        /\ err[t] \in {"OK", "ERROR", "ETIMEOUT"} /\ err' = [err EXCEPT ![t] = err[t]]
    BY <1>1, <1>2, QueueFacts DEF Remains, Waiting
  <2>2. c \in {"run", "fill", "urge", "copy"}
    OBVIOUS
  <2> QED BY <1>1, <1>2, <2>1, <2>2, LeaveFacts2
<1>5. PICK T : T = {t}
  OBVIOUS
<1>6. /\ T = {} \/ \E x \in Thread : T = {x}
      /\ \A m \in List : Woken(Kind(m), m)' = Woken(Kind(m), m) \ T
      /\ T \intersect Woken(Kind(Rx), Rx) = {} /\ Rx \in List /\ Tx \in List
      /\ entry \in Int /\ Len(free) \in Int /\ Enough(Rx, entry) /\ Enough(Tx, Len(free))
  BY <1>2, <1>4, <1>5, QueueFacts DEF Woken, Back, QueueInv, QueueData, QueueTypes, ElementPlaces
<1>7. wait'[Rx] # <<>> => entry <= Cardinality(Woken(Kind(Rx), Rx)')
  BY <1>1, <1>2, <1>6, EnoughStays
<1>8. wait'[Tx] # <<>> => Len(free) - 1 <= Cardinality(Woken(Kind(Tx), Tx)')
  BY <1>1, <1>2, <1>6, EnoughTaken
<1> QED BY <1>3, <1>4, <1>7, <1>8 DEF QueueInv, Enough

\* The element at the head of the queue.
LEMMA QueueUnlink ==
  ASSUME QueueAssumption, QueueInv, NEW t \in Thread, Queue!UnlinkHead(t),
         gone = {}, ~Suspended(t), pc[t] \in {"run", "wait"}
  PROVE  QueueInv' /\ QueueStep
<1>1. /\ entry > 0 /\ queue' = Tail(queue) /\ entry' = entry - 1
      /\ Goto(t, "copy", Rx) /\ Remains(t, "none")
      /\ mine' = [mine EXCEPT ![t] = Head(queue)]
      /\ UNCHANGED <<free, body, mail, got>> /\ wait' = wait /\ armed' = armed /\ err' = err
      /\ gone' = gone
  BY QueueSame DEF Queue!UnlinkHead, Queue!Copies, Queue!waitVars
<1>2. /\ RetryInv /\ pc \in [Thread -> Calling] /\ left \in [Thread -> Waiting]
      /\ err \in [Thread -> {"OK", "ERROR", "ETIMEOUT"}] /\ t \notin Ending
  BY CloseFacts DEF QueueInv, RetryInv, Ending
<1>3. QueueData' /\ QueueStep
  <2>1. pc' = [pc EXCEPT ![t] = "copy"] /\ gone' = {} /\ QueueData
    BY <1>1 DEF Goto, QueueInv
  <2> QED BY <1>1, <1>2, <2>1, CopiesNothing, DataUnlink
<1>4. RetryInv' /\ \A m \in List : Woken(Kind(m), m)' = Woken(Kind(m), m) \ {t}
  <2>1. /\ left' \in [Thread -> Waiting] /\ Rx \in List
        /\ err[t] \in {"OK", "ERROR", "ETIMEOUT"} /\ err' = [err EXCEPT ![t] = err[t]]
    BY <1>1, <1>2, QueueFacts DEF Remains, Waiting
  <2> QED BY <1>1, <1>2, <2>1, LeaveFacts2
<1>5. PICK T : T = {t}
  OBVIOUS
<1>6. /\ T = {} \/ \E x \in Thread : T = {x}
      /\ \A m \in List : Woken(Kind(m), m)' = Woken(Kind(m), m) \ T
      /\ T \intersect Woken(Kind(Tx), Tx) = {} /\ Rx \in List /\ Tx \in List
      /\ entry \in Int /\ Len(free) \in Int /\ Enough(Rx, entry) /\ Enough(Tx, Len(free))
  BY <1>2, <1>4, <1>5, QueueFacts DEF Woken, Back, QueueInv, QueueData, QueueTypes, ElementPlaces
<1>7. wait'[Rx] # <<>> => entry - 1 <= Cardinality(Woken(Kind(Rx), Rx)')
  BY <1>1, <1>2, <1>6, EnoughTaken
<1>8. wait'[Tx] # <<>> => Len(free) <= Cardinality(Woken(Kind(Tx), Tx)')
  BY <1>1, <1>2, <1>6, EnoughStays
<1> QED BY <1>1, <1>3, <1>4, <1>7, <1>8 DEF QueueInv, Enough

LEMMA QueueFail ==
  ASSUME QueueAssumption, QueueInv, NEW t \in Thread, Queue!SendFail(t) \/ Queue!RecvFail(t)
  PROVE  QueueInv' /\ QueueStep
<1>1. /\ RetryInv /\ UNCHANGED waitVars /\ Over(t)
      /\ mail' = [mail EXCEPT ![t] = Queue!SomeMsg] /\ mine' = [mine EXCEPT ![t] = None]
      /\ UNCHANGED <<queue, free, body, entry, got>>
      /\ \E c \in {"wait", "send"} : Failed(t, c)
  BY QueueSame DEF Queue!SendFail, Queue!RecvFail, Queue!Done, Queue!waitVars, waitVars, QueueInv
<1>2. /\ RetryInv' /\ wait' = wait
      /\ \A l \in List : Woken(Kind(l), l)' = Woken(Kind(l), l)
  BY <1>1, FailFacts
<1>3. pc[t] \in {"wait", "send"} /\ pc \in [Thread -> Calling]
  BY <1>1, CloseFacts DEF Failed, Back, RetryInv
<1>4. mine' = mine /\ mail' \in [Thread -> Msg]
  BY <1>1, <1>3, CopiesNothing, QueueFacts DEF QueueInv, QueueData, QueueTypes
<1>5. gone' = gone /\ \A x \in Thread : \A c \in {"fill", "urge", "copy"} : pc'[x] = c <=> pc[x] = c
  BY <1>1, <1>3 DEF Over, Return, Goto
<1> QED BY <1>1, <1>2, <1>4, <1>5, QueueStill

\* A call that gives up.
LEMMA QueueGiveUp ==
  ASSUME QueueAssumption, QueueInv, NEW t \in Thread, NEW l \in {Rx, Tx}, NEW limit,
         Looks(t, Kind(l), limit), Queue!Done(t),
         l = Rx => entry = 0, l = Tx => free = <<>>,
         wait' = wait, armed' = armed, err' = err \/ err' = [err EXCEPT ![t] = "ETIMEOUT"],
         UNCHANGED <<queue, free, body, entry, got>>
  PROVE  QueueInv' /\ QueueStep
<1>1. /\ RetryInv /\ Over(t) /\ Kind(l) \in {"wait", "send"} /\ pc[t] = Kind(l)
      /\ mail' = [mail EXCEPT ![t] = Queue!SomeMsg] /\ mine' = [mine EXCEPT ![t] = None]
      /\ pc \in [Thread -> Calling]
  BY QueueSame, CloseFacts DEF QueueInv, RetryInv, Queue!Done, Kind, Looks, Back
<1>2. RetryInv' /\ \A m \in List : Woken(Kind(m), m)' = Woken(Kind(m), m) \ {t}
  BY <1>1, GiveUpFacts
<1>3. mine' = mine /\ mail' \in [Thread -> Msg]
  BY <1>1, CopiesNothing, QueueFacts DEF QueueInv, QueueData, QueueTypes
<1>4. gone' = gone /\ \A x \in Thread : \A c \in {"fill", "urge", "copy"} : pc'[x] = c <=> pc[x] = c
  BY <1>1 DEF Over, Return, Goto
<1>5. QueueData' /\ QueueStep /\ entry' = entry /\ free' = free
  BY <1>3, <1>4, DataStand DEF QueueInv
<1>6. PICK T : T = {t}
  OBVIOUS
<1>7. /\ T = {} \/ \E x \in Thread : T = {x}
      /\ \A m \in List : Woken(Kind(m), m)' = Woken(Kind(m), m) \ T
      /\ T \intersect Woken("wait", Rx) # {} => entry = 0
      /\ T \intersect Woken("send", Tx) # {} => free = <<>>
      /\ wait'[Rx] # <<>> => wait[Rx] # <<>> \/ entry = 0
      /\ wait'[Tx] # <<>> => wait[Tx] # <<>> \/ free = <<>>
  BY <1>1, <1>2, <1>6, QueueFacts DEF Woken, Back
<1> QED BY <1>2, <1>5, <1>7, QueueQuiet

\* The first section of a send.
LEMMA QueueSend ==
  ASSUME QueueAssumption, QueueInv, NEW t \in Thread, NEW m \in Msg,
         \/ \E c \in {"fill", "urge"} : Queue!SendNow(t, m, c)
         \/ \E limit \in Limits : Queue!SendWait(t, m, limit)
  PROVE  QueueInv' /\ QueueStep
<1>1. RetryInv /\ Lists /\ mail \in [Thread -> Msg] /\ Limits \subseteq Waiting
  BY QueueFacts DEF QueueInv, QueueData, QueueTypes
<1>2. ASSUME NEW c \in {"fill", "urge"}, Queue!SendNow(t, m, c) PROVE QueueInv' /\ QueueStep
  <2>1. Queue!GetElement(t, c) /\ Calls(t, Rx) /\ mail' = [mail EXCEPT ![t] = m]
    BY <1>2, QueueSame DEF Queue!SendNow
  <2>2. gone = {} /\ ~Suspended(t) /\ pc[t] \in {"run", "send"} /\ mail' \in [Thread -> Msg]
    BY <1>1, <2>1, CallFacts
  <2> QED BY <2>1, <2>2, QueueGet
<1>3. ASSUME NEW limit \in Limits, Queue!SendWait(t, m, limit) PROVE QueueInv' /\ QueueStep
  <2>1. /\ gone = {} /\ ~Suspended(t) /\ pc[t] = "run" /\ free = <<>>
        /\ WaitOn(t, "send", Tx, Enqueue(Tx, t), limit)
        /\ mail' = [mail EXCEPT ![t] = m] /\ UNCHANGED <<queue, free, body, entry, mine, got>>
    BY <1>1, <1>3, QueueSame, CallFacts DEF Queue!SendWait
  <2>2. /\ mail' \in [Thread -> Msg] /\ limit \in Waiting
        /\ \A c \in {"wait", "send"} : \A l : t \notin Woken(c, l)
    BY <1>1, <2>1 DEF Woken, Back
  <2> QED BY <2>1, <2>2, QueueWait, QueueFacts
<1> QED BY <1>2, <1>3

LEMMA QueueSendAgain ==
  ASSUME QueueAssumption, QueueInv, NEW t \in Thread, NEW limit, Queue!SendAgain(t, limit)
  PROVE  QueueInv' /\ QueueStep
<1>1. /\ RetryInv /\ mail \in [Thread -> Msg] /\ Looks(t, "send", limit)
      /\ gone = {} /\ ~Suspended(t) /\ pc[t] = "send" /\ limit \in Waiting
      /\ t \notin Woken("wait", Rx)
  BY QueueSame, LookFacts DEF QueueInv, QueueData, QueueTypes, Queue!SendAgain, Woken, Back
<1>2. CASE Queue!GetElement(t, "fill") /\ UNCHANGED mail
  BY <1>1, <1>2, QueueGet
<1>3. CASE /\ free = <<>> /\ Queue!WaitOn(t, "send", Tx, Queue!Enqueue(Tx, t), limit)
           /\ UNCHANGED Queue!mqVars
  <2>1. /\ WaitOn(t, "send", Tx, Enqueue(Tx, t), limit) /\ mail' = mail
        /\ UNCHANGED <<queue, free, body, entry, mine, got>>
    BY <1>3, QueueSame DEF Queue!mqVars
  <2> QED BY <1>1, <1>3, <2>1, QueueWait, QueueFacts
<1>4. CASE free = <<>> /\ Queue!Done(t) /\ UNCHANGED <<Queue!waitVars, queue, free, body, entry, got>>
  <2>1. wait' = wait /\ armed' = armed /\ err' = err
    BY <1>4 DEF Queue!waitVars
  <2> QED BY <1>1, <1>4, <2>1, QueueGiveUp, QueueFacts
<1> QED BY <1>2, <1>3, <1>4 DEF Queue!SendAgain

LEMMA QueueRecv ==
  ASSUME QueueAssumption, QueueInv, NEW t \in Thread,
         Queue!RecvNow(t) \/ \E limit \in Limits : Queue!RecvWait(t, limit)
  PROVE  QueueInv' /\ QueueStep
<1>1. RetryInv /\ Lists /\ mail \in [Thread -> Msg] /\ Limits \subseteq Waiting
  BY QueueFacts DEF QueueInv, QueueData, QueueTypes
<1>2. CASE Queue!RecvNow(t)
  <2>1. Queue!UnlinkHead(t) /\ Calls(t, Rx)
    BY <1>2, QueueSame DEF Queue!RecvNow
  <2>2. gone = {} /\ ~Suspended(t) /\ pc[t] \in {"run", "wait"}
    BY <1>1, <2>1, CallFacts
  <2> QED BY <2>1, <2>2, QueueUnlink
<1>3. ASSUME NEW limit \in Limits, Queue!RecvWait(t, limit) PROVE QueueInv' /\ QueueStep
  <2>1. /\ gone = {} /\ ~Suspended(t) /\ pc[t] = "run" /\ entry = 0
        /\ WaitOn(t, "wait", Rx, Enqueue(Rx, t), limit)
        /\ mail' = mail /\ UNCHANGED <<queue, free, body, entry, mine, got>>
    BY <1>1, <1>3, QueueSame, CallFacts DEF Queue!RecvWait, Queue!mqVars
  <2>2. limit \in Waiting /\ \A c \in {"wait", "send"} : \A l : t \notin Woken(c, l)
    BY <1>1, <2>1 DEF Woken, Back
  <2> QED BY <1>1, <2>1, <2>2, QueueWait, QueueFacts
<1> QED BY <1>2, <1>3

LEMMA QueueRecvAgain ==
  ASSUME QueueAssumption, QueueInv, NEW t \in Thread, NEW limit, Queue!RecvAgain(t, limit)
  PROVE  QueueInv' /\ QueueStep
<1>1. /\ RetryInv /\ mail \in [Thread -> Msg] /\ Looks(t, "wait", limit)
      /\ gone = {} /\ ~Suspended(t) /\ pc[t] = "wait" /\ limit \in Waiting
      /\ t \notin Woken("send", Tx)
  BY QueueSame, LookFacts DEF QueueInv, QueueData, QueueTypes, Queue!RecvAgain, Woken, Back
<1>2. CASE Queue!UnlinkHead(t)
  BY <1>1, <1>2, QueueUnlink
<1>3. CASE /\ entry = 0 /\ Queue!WaitOn(t, "wait", Rx, Queue!Enqueue(Rx, t), limit)
           /\ UNCHANGED Queue!mqVars
  <2>1. /\ WaitOn(t, "wait", Rx, Enqueue(Rx, t), limit) /\ mail' = mail
        /\ UNCHANGED <<queue, free, body, entry, mine, got>>
    BY <1>3, QueueSame DEF Queue!mqVars
  <2> QED BY <1>1, <1>3, <2>1, QueueWait, QueueFacts
<1>4. CASE /\ entry = 0 /\ err' = [err EXCEPT ![t] = "ETIMEOUT"] /\ Queue!Done(t)
           /\ UNCHANGED <<wait, armed, queue, free, body, entry, got>>
  BY <1>1, <1>4, QueueGiveUp, QueueFacts
<1> QED BY <1>2, <1>3, <1>4 DEF Queue!RecvAgain

\* An element joins the queue and the first receiver is woken.
LEMMA QueueLink ==
  ASSUME QueueAssumption, QueueInv, gone = {}, NEW T, Leaving(T),
         T \intersect Woken("wait", Rx) = {}, T \intersect Woken("send", Tx) = {},
         ResumeOne(Rx), entry' = entry + 1, QueueData', free' = free \/ Len(free') = Len(free) - 1
  PROVE  QueueInv'
<1>1. /\ RetryInv /\ entry \in Int /\ Len(free) \in Int
      /\ Enough(Rx, entry) /\ Enough(Tx, Len(free))
      /\ T \intersect Woken(Kind(Rx), Rx) = {} /\ T \intersect Woken(Kind(Tx), Tx) = {}
      /\ Rx \in List /\ Tx \in List /\ Tx # Rx
  BY QueueFacts DEF QueueInv, QueueData, QueueTypes, ElementPlaces
<1>2. /\ RetryInv'
      /\ Woken(Kind(Tx), Tx)' = (Woken(Kind(Tx), Tx) \ T) \union {}
      /\ wait'[Tx] # <<>> => wait[Tx] # <<>>
  BY <1>1, WakeFacts
<1>3. wait'[Rx] # <<>> => entry + 1 <= Cardinality(Woken(Kind(Rx), Rx)')
  BY <1>1, EnoughMore
<1>4. wait'[Tx] # <<>> => Len(free') <= Cardinality(Woken(Kind(Tx), Tx)')
  <2>1. CASE free' = free
    <3>1. Woken(Kind(Tx), Tx)' = Woken(Kind(Tx), Tx) \ T /\ (T = {} \/ \E t \in Thread : T = {t})
      BY <1>2 DEF Leaving
    <3> QED BY <1>1, <1>2, <2>1, <3>1, EnoughStays
  <2>2. CASE Len(free') = Len(free) - 1
    BY <1>1, <2>2, EnoughLess
  <2> QED BY <2>1, <2>2
<1> QED BY <1>2, <1>3, <1>4 DEF QueueInv, Enough

LEMMA QueueSendLink ==
  ASSUME QueueAssumption, QueueInv, NEW t \in Thread, Queue!SendLink(t)
  PROVE  QueueInv' /\ QueueStep
<1>1. /\ pc[t] \in {"fill", "urge"} /\ ResumeOne(Rx) /\ Over(t)
      /\ queue' = (IF pc[t] = "fill" THEN LinkLast(queue, mine[t]) ELSE LinkFirst(queue, mine[t]))
      /\ body' = [body EXCEPT ![mine[t]] = mail[t]] /\ entry' = entry + 1
      /\ mail' = [mail EXCEPT ![t] = Queue!SomeMsg] /\ mine' = [mine EXCEPT ![t] = None]
      /\ UNCHANGED <<free, got>>
  BY QueueSame DEF Queue!SendLink, Queue!Link, Queue!Done
<1>2. /\ RetryInv /\ pc \in [Thread -> Calling] /\ gone = {} /\ ~Suspended(t) /\ QueueData
      /\ mail' \in [Thread -> Msg]
  BY <1>1, CloseFacts, QueueFacts DEF QueueInv, RetryInv, QueueData, Copying, QueueTypes
<1>3. pc' = [pc EXCEPT ![t] = "run"] /\ gone' = gone
  BY <1>1 DEF Over, Return, Goto
<1>4. QueueData' /\ QueueStep
  BY <1>1, <1>2, <1>3, DataSend
<1>5. PICK T : T = {t}
  OBVIOUS
<1>6. Leaving(T) /\ T \intersect Woken("wait", Rx) = {} /\ T \intersect Woken("send", Tx) = {}
  BY <1>1, <1>2, <1>5, LeavingFacts DEF Woken, Back
<1>7. free' = free
  BY <1>1
<1> QED BY <1>1, <1>2, <1>4, <1>6, <1>7, QueueLink

LEMMA QueueSendIsr ==
  ASSUME QueueAssumption, QueueInv, NEW m \in Msg, NEW c \in {"fill", "urge"}, Queue!SendIsr(m, c)
  PROVE  QueueInv' /\ QueueStep
<1>1. /\ Rx \notin gone /\ free # <<>> /\ ResumeOne(Rx)
      /\ queue' = (IF c = "fill" THEN LinkLast(queue, Head(free)) ELSE LinkFirst(queue, Head(free)))
      /\ body' = [body EXCEPT ![Head(free)] = m] /\ entry' = entry + 1 /\ free' = Tail(free)
      /\ UNCHANGED <<pc, mine, mail, got, gone>> /\ UNCHANGED <<callVars, left>>
  BY QueueSame DEF Queue!SendIsr, Queue!Link, Queue!callVars, callVars
<1>2. RetryInv /\ gone = {} /\ QueueData
  BY <1>1, ThereFacts, QueueFacts DEF QueueInv
<1>3. QueueData' /\ QueueStep /\ Len(free') = Len(free) - 1
  BY <1>1, <1>2, DataSendIsr
<1>4. PICK T : T = {}
  OBVIOUS
<1>5. Leaving(T) /\ T \intersect Woken("wait", Rx) = {} /\ T \intersect Woken("send", Tx) = {}
  BY <1>1, <1>2, <1>4, LeavingFacts
<1>6. entry' = entry + 1
  BY <1>1
<1> QED BY <1>1, <1>2, <1>3, <1>5, <1>6, QueueLink

LEMMA QueueRecvFree ==
  ASSUME QueueAssumption, QueueInv, NEW t \in Thread, Queue!RecvFree(t)
  PROVE  QueueInv' /\ QueueStep
<1>1. /\ pc[t] = "copy" /\ ResumeOne(Tx) /\ Over(t)
      /\ got' = [got EXCEPT ![t] = body[mine[t]]]
      /\ body' = [body EXCEPT ![mine[t]] = Queue!SomeMsg] /\ free' = LinkFirst(free, mine[t])
      /\ mail' = [mail EXCEPT ![t] = Queue!SomeMsg] /\ mine' = [mine EXCEPT ![t] = None]
      /\ UNCHANGED <<queue, entry>>
  BY QueueSame DEF Queue!RecvFree, Queue!Done
<1>2. /\ RetryInv /\ pc \in [Thread -> Calling] /\ gone = {} /\ ~Suspended(t) /\ QueueData
      /\ mail' \in [Thread -> Msg]
  BY <1>1, CloseFacts, QueueFacts DEF QueueInv, RetryInv, QueueData, Copying, QueueTypes
<1>3. pc' = [pc EXCEPT ![t] = "run"] /\ gone' = gone
  BY <1>1 DEF Over, Return, Goto
<1>4. QueueData' /\ QueueStep /\ Len(free') = Len(free) + 1
  BY <1>1, <1>2, <1>3, DataFree
<1>5. PICK T : T = {t}
  OBVIOUS
<1>6. /\ Leaving(T) /\ T \intersect Woken(Kind(Rx), Rx) = {} /\ T \intersect Woken(Kind(Tx), Tx) = {}
      /\ T = {} \/ \E x \in Thread : T = {x}
  BY <1>1, <1>2, <1>5, LeavingFacts, QueueFacts DEF Woken, Back
<1>7. /\ entry \in Int /\ Len(free) \in Int /\ Enough(Rx, entry) /\ Enough(Tx, Len(free))
      /\ Rx \in List /\ Tx \in List /\ Tx # Rx
  BY QueueFacts DEF QueueInv, QueueData, QueueTypes, ElementPlaces
<1>8. /\ RetryInv'
      /\ Woken(Kind(Rx), Rx)' = (Woken(Kind(Rx), Rx) \ T) \union {}
      /\ wait'[Rx] # <<>> => wait[Rx] # <<>>
  BY <1>1, <1>2, <1>6, <1>7, WakeFacts
<1>9. wait'[Tx] # <<>> => Len(free) + 1 <= Cardinality(Woken(Kind(Tx), Tx)')
  BY <1>1, <1>2, <1>6, <1>7, EnoughMore
<1>10. wait'[Rx] # <<>> => entry <= Cardinality(Woken(Kind(Rx), Rx)')
  <2>1. Woken(Kind(Rx), Rx)' = Woken(Kind(Rx), Rx) \ T
    BY <1>8
  <2> QED BY <1>2, <1>6, <1>7, <1>8, <2>1, EnoughStays
<1> QED BY <1>1, <1>4, <1>8, <1>9, <1>10 DEF QueueInv, Enough

LEMMA QueueReset ==
  ASSUME QueueAssumption, QueueInv, NEW t \in Thread, Queue!Reset(t)
  PROVE  QueueInv' /\ QueueStep
<1>1. /\ RetryInv /\ Lists /\ ResumeAllFailed(List) /\ UNCHANGED <<callVars, left>>
      /\ Calls(t, Rx) /\ queue' = <<>> /\ entry' = 0
      /\ free' = [i \in DOMAIN queue |-> queue[Len(queue) + 1 - i]] \o free
      /\ body' = [e \in Element |-> IF Linked(queue, e) THEN Queue!SomeMsg ELSE body[e]]
      /\ UNCHANGED <<pc, mine, mail, got, gone>>
  BY QueueSame, QueueFacts DEF Queue!Reset, QueueInv, Queue!callVars, callVars, Queue!Linked, Linked
<1>2. gone = {}
  BY <1>1, CallFacts
<1>3. RetryInv' /\ \A l \in List : wait'[l] = <<>>
  BY <1>1, <1>2, ResetAllFacts
<1>4. QueueData' /\ QueueStep
  BY <1>1, DataReset DEF QueueInv
<1>5. Enough(Rx, entry)' /\ Enough(Tx, Len(free))'
  BY <1>3, QueueFacts DEF Enough
<1> QED BY <1>3, <1>4, <1>5 DEF QueueInv

LEMMA QueueNext ==
  QueueAssumption /\ QueueInv /\ [Queue!Next]_Queue!vars => QueueInv' /\ QueueStep
<1> SUFFICES ASSUME QueueAssumption, QueueInv, [Queue!Next]_Queue!vars PROVE QueueInv' /\ QueueStep
  OBVIOUS
<1>1. CASE UNCHANGED Queue!vars
  <2>1. /\ UNCHANGED <<waitVars, callVars, left>> /\ mail' = mail
        /\ UNCHANGED <<queue, free, body, entry, mine, got>>
    BY <1>1 DEF Queue!vars, Queue!loopVars, Queue!objectVars, Queue!waitVars,
         Queue!callVars, Queue!mqVars, waitVars, callVars
  <2>2. /\ RetryInv' /\ wait' = wait /\ gone' = gone /\ pc' = pc
        /\ \A l \in List : Woken(Kind(l), l)' = Woken(Kind(l), l)
    BY <2>1, RetryStand DEF QueueInv, callVars
  <2> QED BY <2>1, <2>2, QueueStill DEF QueueInv, QueueData, QueueTypes
<1>2. CASE Queue!Outside
  BY <1>2, QueueOutside
<1>3. ASSUME NEW m \in Msg, NEW c \in {"fill", "urge"}, Queue!SendIsr(m, c)
      PROVE  QueueInv' /\ QueueStep
  BY <1>3, QueueSendIsr
<1>4. ASSUME NEW t \in Thread, Queue!RecvFail(t) \/ Queue!SendFail(t) PROVE QueueInv' /\ QueueStep
  BY <1>4, QueueFail
<1>5. ASSUME NEW t \in Thread, Queue!RecvNow(t) \/ \E limit \in Limits : Queue!RecvWait(t, limit)
      PROVE  QueueInv' /\ QueueStep
  BY <1>5, QueueRecv
<1>6. ASSUME NEW t \in Thread, Queue!Reset(t) \/ Queue!SendLink(t) \/ Queue!RecvFree(t)
      PROVE  QueueInv' /\ QueueStep
  BY <1>6, QueueReset, QueueSendLink, QueueRecvFree
<1>7. ASSUME NEW t \in Thread, NEW m \in Msg,
             \/ \E c \in {"fill", "urge"} : Queue!SendNow(t, m, c)
             \/ \E limit \in Limits : Queue!SendWait(t, m, limit)
      PROVE  QueueInv' /\ QueueStep
  BY <1>7, QueueSend
<1>8. ASSUME NEW t \in Thread, NEW limit, Queue!SendAgain(t, limit) \/ Queue!RecvAgain(t, limit)
      PROVE  QueueInv' /\ QueueStep
  BY <1>8, QueueSendAgain, QueueRecvAgain
<1> QED BY <1>1, <1>2, <1>3, <1>4, <1>5, <1>6, <1>7, <1>8 DEF Queue!Next

\* The invariant of the message queue, in the words of RtMessageQueue.
LEMMA QueueShown ==
  ASSUME QueueAssumption, QueueInv
  PROVE  Queue!TypeOK /\ Queue!ElementsExact /\ Queue!NoLostWakeup
<1>0. Queue!ElementsExact /\ entry \in 0..Cardinality(Element)
  BY ElementsShown DEF QueueInv
<1>1. \A S : Queue!Cardinality(S) = Cardinality(S)
  BY DEF Queue!Cardinality, Cardinality, Queue!IsFiniteSet, IsFiniteSet
<1>2. Queue!TypeOK
  BY <1>0, <1>1, QueueFacts DEF QueueInv, QueueData, QueueTypes, RetryInv, CloseInv, CallTypeOK, WaitTypeOK, Calling, Waiting,
       Queue!TypeOK, Queue!RetryTypeOK, Queue!CallTypeOK, Queue!WaitTypeOK
<1>3. \A c, l : Queue!Woken(c, l) = Woken(c, l)
  BY QueueSame
<1>4. Queue!NoLostWakeup
  BY <1>1, <1>3, QueueFacts DEF QueueInv, Enough, Queue!NoLostWakeup
<1> QED BY <1>0, <1>2, <1>4 DEF QueueInv

-----------------------------------------------------------------------------
(* The memory pool *)

Users == Thread \union {Isr}

PoolTypes ==
  /\ blocks \in Seq(Block) /\ count \in 0..Cardinality(Block)
  /\ used \in [Users -> SUBSET Block]

\* Every block is in one place.
BlockPlaces ==
  /\ Once(blocks) /\ count = Len(blocks)
  /\ \A b \in Block :
       /\ \A x, y \in Users : b \in used[x] /\ b \in used[y] => x = y
       /\ Linked(blocks, b) <=> \A x \in Users : b \notin used[x]

PoolInv == RetryInv /\ PoolTypes /\ BlockPlaces /\ Enough(Rx, count)

PoolAssumption == MemPool!PoolConstants /\ RetryConstants /\ DetachUnarmed

LEMMA PoolFacts ==
  ASSUME PoolAssumption
  PROVE  /\ Lists /\ List = {Rx} /\ Rx \in List /\ List \ {Rx} = {} /\ Limits \subseteq Waiting
         /\ Kind(Rx) = "wait" /\ IsFiniteSet(Block) /\ Isr \notin Thread
BY DEF PoolAssumption, MemPool!PoolConstants, RetryConstants, Lists, Kind, Waiting,
     IsFiniteSet, MemPool!IsFiniteSet

LEMMA BlocksShown ==
  ASSUME BlockPlaces, PoolTypes
  PROVE  MemPool!BlocksExact
<1> SUFFICES ASSUME NEW b \in Block
             PROVE  Cardinality({x \in DOMAIN used : b \in used[x]}) =
                      IF Linked(blocks, b) THEN 0 ELSE 1
  <2>1. \A S : MemPool!Cardinality(S) = Cardinality(S)
    BY DEF MemPool!Cardinality, Cardinality, MemPool!IsFiniteSet, IsFiniteSet
  <2>2. \A b : MemPool!Linked(blocks, b) <=> Linked(blocks, b)
    BY DEF MemPool!Linked, Linked
  <2>3. MemPool!Once(blocks) /\ count = Len(blocks)
    BY DEF BlockPlaces, MemPool!Once, Once
  <2> QED BY <2>1, <2>2, <2>3 DEF MemPool!BlocksExact
<1> DEFINE S == {x \in DOMAIN used : b \in used[x]}
<1>1. \A x, y \in S : x = y
  BY DEF BlockPlaces, PoolTypes
<1>2. S = {} <=> Linked(blocks, b)
  BY DEF BlockPlaces, PoolTypes
<1> HIDE DEF S
<1>3. Cardinality(S) = IF S = {} THEN 0 ELSE 1
  BY <1>1, AtMostOne
<1> QED BY <1>2, <1>3 DEF S

LEMMA PoolSame ==
  /\ \A l : MemPool!ResumeOne(l) <=> ResumeOne(l)
  /\ \A L : MemPool!ResumeAllFailed(L) <=> ResumeAllFailed(L)
  /\ \A t, c, l, q, limit : MemPool!WaitOn(t, c, l, q, limit) <=> WaitOn(t, c, l, q, limit)
  /\ \A t : MemPool!Over(t) <=> Over(t)
  /\ \A t, l, L : MemPool!RetryDetach(t, l, L) <=> RetryDetach(t, l, L)
  /\ \A t, L : MemPool!DetachTest(t, L) <=> DetachTest(t, L)
  /\ \A t : MemPool!DetachResume(t) <=> DetachResume(t)
  /\ MemPool!TimerExpires <=> TimerExpires
  /\ \A t, c : MemPool!Failed(t, c) <=> Failed(t, c)
  /\ \A t, c, limit : MemPool!Looks(t, c, limit) <=> Looks(t, c, limit)
  /\ \A t, l : MemPool!Calls(t, l) <=> Calls(t, l)
  /\ \A c, l : MemPool!Woken(c, l) = Woken(c, l)
  /\ \A l, n : MemPool!LinkFirst(l, n) = LinkFirst(l, n)
<1>1. /\ \A l : MemPool!ResumeOne(l) <=> ResumeOne(l)
      /\ \A L : MemPool!ResumeAllFailed(L) <=> ResumeAllFailed(L)
  BY DEF MemPool!ResumeOne, ResumeOne, MemPool!Resume, Resume, MemPool!waitVars, waitVars,
       MemPool!ResumeAllFailed, ResumeAllFailed, MemPool!Linked, Linked
<1>3. /\ \A t, c, l, q, limit : MemPool!WaitOn(t, c, l, q, limit) <=> WaitOn(t, c, l, q, limit)
      /\ \A t : MemPool!Over(t) <=> Over(t)
      /\ \A l, n : MemPool!LinkFirst(l, n) = LinkFirst(l, n)
  BY DEF MemPool!WaitOn, WaitOn, MemPool!Park, Park, MemPool!Goto, Goto, MemPool!Remains, Remains,
       MemPool!Over, Over, MemPool!Return, Return, MemPool!SomeList, SomeList, MemPool!LinkFirst, LinkFirst
<1>4. /\ \A t, l, L : MemPool!RetryDetach(t, l, L) <=> RetryDetach(t, l, L)
      /\ \A t, L : MemPool!DetachTest(t, L) <=> DetachTest(t, L)
  BY DEF MemPool!RetryDetach, RetryDetach, MemPool!Detach, Detach, MemPool!Calls, Calls,
       MemPool!Goto, Goto, MemPool!waitVars, waitVars, MemPool!Suspended, Suspended,
       MemPool!Linked, Linked, MemPool!DetachTest, DetachTest, MemPool!Return, Return,
       MemPool!SomeList, SomeList
<1>5. /\ \A t : MemPool!DetachResume(t) <=> DetachResume(t)
      /\ MemPool!TimerExpires <=> TimerExpires
  BY DEF MemPool!DetachResume, DetachResume, MemPool!ResumeFailed, ResumeFailed,
       MemPool!Goto, Goto, MemPool!waitVars, waitVars,
       MemPool!TimerExpires, TimerExpires, MemPool!Timeout, Timeout, MemPool!Unlink, Unlink,
       MemPool!Linked, Linked, MemPool!Position, Position, MemPool!CutOut, CutOut,
       MemPool!callVars, callVars
<1>6. /\ \A t, c : MemPool!Failed(t, c) <=> Failed(t, c)
      /\ \A t, c, limit : MemPool!Looks(t, c, limit) <=> Looks(t, c, limit)
      /\ \A t, l : MemPool!Calls(t, l) <=> Calls(t, l)
      /\ \A c, l : MemPool!Woken(c, l) = Woken(c, l)
  BY DEF MemPool!Failed, Failed, MemPool!Looks, Looks, MemPool!Back, Back, MemPool!Calls, Calls,
       MemPool!Suspended, Suspended, MemPool!Linked, Linked, MemPool!Remaining, Remaining,
       MemPool!Woken, Woken
<1> QED BY <1>1, <1>3, <1>4, <1>5, <1>6

LEMMA PoolInit ==
  ASSUME PoolAssumption, MemPool!Init
  PROVE  PoolInv
<1>1. RetryInit
  BY DEF MemPool!Init, MemPool!RetryInit, MemPool!ObjectInit, MemPool!WaitInit, MemPool!SomeList,
       RetryInit, ObjectInit, WaitInit, SomeList
<1>2. /\ blocks = ListOf(Block) /\ count = Cardinality(Block)
      /\ used = [x \in Users |-> {}]
  BY DEF MemPool!Init, MemPool!ListOf, ListOf, MemPool!Once, Once, Users, Cardinality, MemPool!Cardinality,
       IsFiniteSet, MemPool!IsFiniteSet
<1>3. /\ ListOf(Block) \in Seq(Block) /\ Once(ListOf(Block)) /\ Len(ListOf(Block)) = Cardinality(Block)
      /\ \A x : Linked(ListOf(Block), x) <=> x \in Block
  BY PoolFacts, ListOfFacts
<1>4. Cardinality(Block) \in Nat
  BY PoolFacts, FS_CardinalityType
<1>5. PoolTypes /\ BlockPlaces
  BY <1>2, <1>3, <1>4 DEF PoolTypes, BlockPlaces
<1>6. Enough(Rx, count)
  BY <1>1, RetryInitInv, PoolFacts DEF Enough
<1> QED BY <1>1, <1>5, <1>6, RetryInitInv DEF PoolInv

\* The first block of the list goes to x.
LEMMA PopBlocks ==
  ASSUME PoolAssumption, PoolInv, NEW x \in Users, MemPool!Pop(x)
  PROVE  PoolTypes' /\ BlockPlaces' /\ count' = count - 1
<1>1. /\ count > 0 /\ count' = count - 1 /\ blocks' = Tail(blocks)
      /\ used' = [used EXCEPT ![x] = @ \union {Head(blocks)}]
      /\ blocks \in Seq(Block) /\ count = Len(blocks) /\ Once(blocks)
      /\ used \in [Users -> SUBSET Block]
  BY DEF MemPool!Pop, PoolInv, PoolTypes, BlockPlaces
<1>2. blocks # <<>>
  BY <1>1
<1>3. /\ blocks' \in Seq(Block) /\ Once(blocks') /\ Len(blocks') = Len(blocks) - 1
      /\ \A m : Linked(blocks', m) <=> Linked(blocks, m) /\ m # Head(blocks)
      /\ Head(blocks) \in Block /\ Linked(blocks, Head(blocks))
  BY <1>1, <1>2, TailFacts, HeadFacts
<1>4. used' \in [Users -> SUBSET Block]
  BY <1>1, <1>3
<1>5. count' \in 0..Cardinality(Block) /\ count' = Len(blocks')
  BY <1>1, <1>3, LengthFacts, PoolFacts
<1>6. ASSUME NEW b \in Block
      PROVE  /\ \A y, z \in Users : b \in used'[y] /\ b \in used'[z] => y = z
             /\ Linked(blocks', b) <=> \A y \in Users : b \notin used'[y]
  <2>1. /\ \A y, z \in Users : b \in used[y] /\ b \in used[z] => y = z
        /\ Linked(blocks, b) <=> \A y \in Users : b \notin used[y]
    BY DEF PoolInv, BlockPlaces
  <2>2. \A y \in Users : b \in used'[y] <=> b \in used[y] \/ (y = x /\ b = Head(blocks))
    BY <1>1
  <2> QED BY <1>3, <2>1, <2>2
<1> QED BY <1>1, <1>3, <1>4, <1>5, <1>6 DEF PoolTypes, BlockPlaces

LEMMA FreeBlocks ==
  ASSUME PoolAssumption, PoolInv, NEW x \in Users, NEW b \in Block, b \in used[x],
         count' = count + 1, blocks' = LinkFirst(blocks, b),
         used' = [used EXCEPT ![x] = @ \ {b}]
  PROVE  PoolTypes' /\ BlockPlaces'
<1>1. /\ blocks \in Seq(Block) /\ count = Len(blocks) /\ Once(blocks)
      /\ used \in [Users -> SUBSET Block] /\ ~Linked(blocks, b)
  BY DEF PoolInv, PoolTypes, BlockPlaces
<1>3. /\ blocks' \in Seq(Block) /\ Once(blocks') /\ Len(blocks') = Len(blocks) + 1
      /\ \A m : Linked(blocks', m) <=> Linked(blocks, m) \/ m = b
  BY <1>1, LinkFirstFacts
<1>4. used' \in [Users -> SUBSET Block]
  BY <1>1
<1>5. count' \in 0..Cardinality(Block) /\ count' = Len(blocks')
  BY <1>1, <1>3, LengthFacts, PoolFacts
<1>6. ASSUME NEW a \in Block
      PROVE  /\ \A y, z \in Users : a \in used'[y] /\ a \in used'[z] => y = z
             /\ Linked(blocks', a) <=> \A y \in Users : a \notin used'[y]
  <2>1. /\ \A y, z \in Users : a \in used[y] /\ a \in used[z] => y = z
        /\ Linked(blocks, a) <=> \A y \in Users : a \notin used[y]
    BY DEF PoolInv, BlockPlaces
  <2>2. \A y \in Users : a \in used'[y] <=> a \in used[y] /\ ~(y = x /\ a = b)
    BY <1>1
  <2> QED BY <1>3, <2>1, <2>2
<1> QED BY <1>1, <1>3, <1>4, <1>5, <1>6 DEF PoolTypes, BlockPlaces

LEMMA PassBlocks ==
  ASSUME PoolAssumption, PoolInv, NEW t \in Thread, NEW b \in Block, b \in used[t],
         used' = [used EXCEPT ![t] = @ \ {b}, ![Isr] = @ \union {b}],
         blocks' = blocks, count' = count
  PROVE  PoolTypes' /\ BlockPlaces'
<1>1. used \in [Users -> SUBSET Block] /\ t \in Users /\ Isr \in Users /\ t # Isr
  BY PoolFacts DEF PoolInv, PoolTypes, Users
<1>4. used' \in [Users -> SUBSET Block]
  BY <1>1
<1>6. ASSUME NEW a \in Block
      PROVE  /\ \A y, z \in Users : a \in used'[y] /\ a \in used'[z] => y = z
             /\ Linked(blocks, a) <=> \A y \in Users : a \notin used'[y]
  <2>1. /\ \A y, z \in Users : a \in used[y] /\ a \in used[z] => y = z
        /\ Linked(blocks, a) <=> \A y \in Users : a \notin used[y]
    BY DEF PoolInv, BlockPlaces
  <2>2. \A y \in Users : a \in used'[y] <=>
          (IF a = b THEN y = Isr \/ (y # t /\ a \in used[y]) ELSE a \in used[y])
    BY <1>1
  <2> QED BY <1>1, <2>1, <2>2
<1> QED BY <1>4, <1>6 DEF PoolTypes, BlockPlaces, PoolInv

\* Steps that leave the blocks alone, or move one that is not free.
LEMMA PoolQuiet ==
  ASSUME PoolAssumption, PoolInv, RetryInv', PoolTypes', BlockPlaces', count' = count,
         NEW T, T = {} \/ \E t \in Thread : T = {t},
         Woken("wait", Rx)' = Woken("wait", Rx) \ T,
         T \intersect Woken("wait", Rx) # {} => count = 0,
         wait'[Rx] # <<>> => wait[Rx] # <<>> \/ count = 0
  PROVE  PoolInv'
<1>1. /\ RetryInv /\ Rx \in List /\ count \in Int /\ Enough(Rx, count)
      /\ Woken(Kind(Rx), Rx)' = Woken(Kind(Rx), Rx) \ T
      /\ T \intersect Woken(Kind(Rx), Rx) # {} => count <= 0
      /\ wait'[Rx] # <<>> => wait[Rx] # <<>> \/ count <= 0
  BY PoolFacts DEF PoolInv, PoolTypes
<1>2. wait'[Rx] # <<>> => count <= Cardinality(Woken(Kind(Rx), Rx)')
  BY <1>1, EnoughStays
<1>3. Enough(Rx, count)'
  BY <1>2, PoolFacts DEF Enough
<1> QED BY <1>3 DEF PoolInv

\* A block is taken.
LEMMA PoolTaken ==
  ASSUME PoolAssumption, PoolInv, RetryInv', PoolTypes', BlockPlaces', count' = count - 1,
         NEW T, T = {} \/ \E t \in Thread : T = {t},
         Woken("wait", Rx)' = Woken("wait", Rx) \ T, wait' = wait
  PROVE  PoolInv'
<1>1. /\ RetryInv /\ Rx \in List /\ count \in Int /\ Enough(Rx, count)
      /\ Woken(Kind(Rx), Rx)' = Woken(Kind(Rx), Rx) \ T
      /\ wait'[Rx] # <<>> => wait[Rx] # <<>>
  BY PoolFacts DEF PoolInv, PoolTypes
<1>2. wait'[Rx] # <<>> => count - 1 <= Cardinality(Woken(Kind(Rx), Rx)')
  BY <1>1, EnoughTaken
<1>3. Enough(Rx, count)'
  BY <1>2, PoolFacts DEF Enough
<1> QED BY <1>3 DEF PoolInv

\* A thread begins or goes on to wait.
LEMMA PoolWait ==
  ASSUME PoolAssumption, PoolInv, NEW t \in Thread, ~Suspended(t), gone = {},
         NEW limit \in Waiting, WaitOn(t, "wait", Rx, LinkFirst(wait[Rx], t), limit),
         count = 0, UNCHANGED <<blocks, count, used>>
  PROVE  PoolInv'
<1>1. /\ RetryInv /\ Rx \in List /\ Kind(Rx) = "wait" /\ CloseInv
  BY PoolFacts DEF PoolInv, RetryInv
<1>2. /\ wait[Rx] \in Seq(Thread) /\ Once(wait[Rx]) /\ ~Linked(wait[Rx], t)
  BY <1>1, CloseFacts DEF Suspended, CloseInv, OneReason
<1>3. /\ LinkFirst(wait[Rx], t) \in Seq(Thread) /\ Once(LinkFirst(wait[Rx], t))
      /\ \A x : Linked(LinkFirst(wait[Rx], t), x) <=> Linked(wait[Rx], x) \/ x = t
  BY <1>2, LinkFirstFacts
<1>4. /\ RetryInv'
      /\ \A m \in List : Woken(Kind(m), m)' = Woken(Kind(m), m) \ {t}
  <2>1. PICK q : q = LinkFirst(wait[Rx], t)
    OBVIOUS
  <2>2. /\ q \in Seq(Thread) /\ Once(q)
        /\ \A x : Linked(q, x) <=> Linked(wait[Rx], x) \/ x = t
        /\ WaitOn(t, Kind(Rx), Rx, q, limit)
    BY <1>1, <1>3, <2>1
  <2> QED BY <1>1, <2>2, BlockFacts
<1>5. PICK T : T = {t}
  OBVIOUS
<1>6. /\ T = {} \/ \E x \in Thread : T = {x}
      /\ Woken("wait", Rx)' = Woken("wait", Rx) \ T
      /\ T \intersect Woken("wait", Rx) # {} => count = 0
      /\ wait'[Rx] # <<>> => wait[Rx] # <<>> \/ count = 0
  BY <1>1, <1>4, <1>5
<1>7. PoolTypes' /\ BlockPlaces' /\ count' = count
  BY DEF PoolInv, PoolTypes, BlockPlaces
<1> QED BY <1>4, <1>6, <1>7, PoolQuiet

\* Steps that change nobody's way.
LEMMA PoolStill ==
  ASSUME PoolAssumption, PoolInv, RetryInv', PoolTypes', BlockPlaces', count' = count,
         \A l \in List : Woken(Kind(l), l)' = Woken(Kind(l), l),
         \A l \in List : wait'[l] # <<>> => wait[l] # <<>>
  PROVE  PoolInv'
<1>1. PICK T : T = {}
  OBVIOUS
<1>2. /\ T = {} \/ \E x \in Thread : T = {x}
      /\ Woken("wait", Rx)' = Woken("wait", Rx) \ T
      /\ T \intersect Woken("wait", Rx) = {}
      /\ wait'[Rx] # <<>> => wait[Rx] # <<>> \/ count = 0
  BY <1>1, PoolFacts
<1> QED BY <1>2, PoolQuiet

LEMMA PoolOutside ==
  ASSUME PoolAssumption, PoolInv, MemPool!Outside
  PROVE  PoolInv'
<1>1. /\ RetryInv /\ Lists /\ DetachUnarmed /\ UNCHANGED left
      /\ \/ TimerExpires
         \/ \E t \in Thread :
              RetryDetach(t, Rx, List) \/ DetachTest(t, List \ {Rx}) \/ DetachResume(t)
      /\ UNCHANGED <<blocks, count, used>>
  BY PoolSame, PoolFacts DEF MemPool!Outside, MemPool!poolVars, PoolInv, PoolAssumption
<1>2. /\ RetryInv'
      /\ \A l \in List : Woken(Kind(l), l)' = Woken(Kind(l), l)
      /\ \A l \in List : wait'[l] # <<>> => wait[l] # <<>>
  BY <1>1, OutsideFacts
<1>3. PoolTypes' /\ BlockPlaces' /\ count' = count
  BY <1>1 DEF PoolInv, PoolTypes, BlockPlaces
<1> QED BY <1>2, <1>3, PoolStill

LEMMA PoolAlloc ==
  ASSUME PoolAssumption, PoolInv,
         \/ MemPool!AllocIsr
         \/ \E t \in Thread :
              \/ MemPool!AllocNow(t) \/ MemPool!AllocFail(t)
              \/ \E limit \in Limits : MemPool!AllocWait(t, limit)
  PROVE  PoolInv'
<1>1. RetryInv /\ Lists /\ Isr \in Users /\ Thread \subseteq Users /\ Limits \subseteq Waiting
  BY PoolFacts DEF PoolInv, Users
<1>2. ASSUME NEW x \in Users, MemPool!Pop(x), UNCHANGED MemPool!loopVars PROVE PoolInv'
  <2>1. UNCHANGED <<waitVars, callVars, left>>
    BY <1>2 DEF MemPool!loopVars, MemPool!objectVars, MemPool!waitVars, MemPool!callVars,
         waitVars, callVars
  <2>2. RetryInv' /\ wait' = wait /\ Woken("wait", Rx)' = Woken("wait", Rx)
    BY <1>1, <2>1, RetryStand, PoolFacts
  <2>3. PICK T : T = {}
    OBVIOUS
  <2>4. (T = {} \/ \E t \in Thread : T = {t}) /\ Woken("wait", Rx)' = Woken("wait", Rx) \ T
    BY <2>2, <2>3
  <2>5. PoolTypes' /\ BlockPlaces' /\ count' = count - 1
    BY <1>2, PopBlocks
  <2> QED BY <2>2, <2>4, <2>5, PoolTaken
<1>3. CASE MemPool!AllocIsr \/ \E t \in Thread : MemPool!AllocNow(t)
  BY <1>1, <1>2, <1>3 DEF MemPool!AllocIsr, MemPool!AllocNow
<1>4. ASSUME NEW t \in Thread, MemPool!AllocFail(t) PROVE PoolInv'
  <2>1. Failed(t, "wait") /\ Over(t) /\ UNCHANGED waitVars /\ UNCHANGED <<blocks, count, used>>
    BY <1>4, PoolSame DEF MemPool!AllocFail, MemPool!waitVars, waitVars, MemPool!poolVars
  <2>2. /\ RetryInv' /\ wait' = wait
        /\ \A l \in List : Woken(Kind(l), l)' = Woken(Kind(l), l)
    BY <1>1, <2>1, FailFacts
  <2>3. PoolTypes' /\ BlockPlaces' /\ count' = count
    BY <2>1 DEF PoolInv, PoolTypes, BlockPlaces
  <2> QED BY <2>2, <2>3, PoolStill
<1>5. ASSUME NEW t \in Thread, NEW limit \in Limits, MemPool!AllocWait(t, limit) PROVE PoolInv'
  <2>1. /\ gone = {} /\ ~Suspended(t) /\ count = 0 /\ limit \in Waiting
        /\ WaitOn(t, "wait", Rx, LinkFirst(wait[Rx], t), limit)
        /\ UNCHANGED <<blocks, count, used>>
    BY <1>1, <1>5, PoolSame, CallFacts DEF MemPool!AllocWait, MemPool!poolVars
  <2> QED BY <2>1, PoolWait
<1> QED BY <1>3, <1>4, <1>5

LEMMA PoolAllocAgain ==
  ASSUME PoolAssumption, PoolInv, NEW t \in Thread, NEW limit, MemPool!AllocAgain(t, limit)
  PROVE  PoolInv'
<1>1. /\ RetryInv /\ Looks(t, "wait", limit) /\ gone = {} /\ ~Suspended(t) /\ limit \in Waiting
      /\ t \in Users
  BY PoolSame, LookFacts DEF PoolInv, MemPool!AllocAgain, Users
<1>2. PICK T : T = {t}
  OBVIOUS
<1>3. ASSUME Over(t), UNCHANGED waitVars
      PROVE  /\ RetryInv' /\ wait' = wait /\ (T = {} \/ \E x \in Thread : T = {x})
             /\ Woken("wait", Rx)' = Woken("wait", Rx) \ T
  <2>1. wait' = wait /\ armed' = armed /\ err' = err
    BY <1>3 DEF waitVars
  <2> QED BY <1>1, <1>2, <1>3, <2>1, GiveUpFacts, PoolFacts
<1>4. CASE MemPool!Pop(t) /\ MemPool!Over(t) /\ UNCHANGED MemPool!waitVars
  <2>1. Over(t) /\ UNCHANGED waitVars
    BY <1>4, PoolSame DEF MemPool!waitVars, waitVars
  <2>2. PoolTypes' /\ BlockPlaces' /\ count' = count - 1
    BY <1>1, <1>4, PopBlocks
  <2> QED BY <1>3, <2>1, <2>2, PoolTaken
<1>5. CASE /\ count = 0 /\ MemPool!WaitOn(t, "wait", Rx, MemPool!LinkFirst(wait[Rx], t), limit)
           /\ UNCHANGED MemPool!poolVars
  <2>1. /\ WaitOn(t, "wait", Rx, LinkFirst(wait[Rx], t), limit)
        /\ UNCHANGED <<blocks, count, used>>
    BY <1>5, PoolSame DEF MemPool!poolVars
  <2> QED BY <1>1, <1>5, <2>1, PoolWait
<1>6. CASE count = 0 /\ MemPool!Over(t) /\ UNCHANGED <<MemPool!waitVars, MemPool!poolVars>>
  <2>1. Over(t) /\ UNCHANGED waitVars /\ UNCHANGED <<blocks, count, used>>
    BY <1>6, PoolSame DEF MemPool!waitVars, waitVars, MemPool!poolVars
  <2>2. PoolTypes' /\ BlockPlaces' /\ count' = count
    BY <2>1 DEF PoolInv, PoolTypes, BlockPlaces
  <2> QED BY <1>3, <1>6, <2>1, <2>2, PoolQuiet
<1> QED BY <1>4, <1>5, <1>6 DEF MemPool!AllocAgain

LEMMA PoolFree ==
  ASSUME PoolAssumption, PoolInv, NEW x \in Users, NEW b \in Block, MemPool!Free(x, b)
  PROVE  PoolInv'
<1>1. /\ RetryInv /\ gone = {} /\ ResumeOne(Rx) /\ UNCHANGED <<callVars, left>>
      /\ b \in used[x] /\ count' = count + 1 /\ blocks' = LinkFirst(blocks, b)
      /\ used' = [used EXCEPT ![x] = @ \ {b}]
  BY PoolSame, PoolFacts, ThereFacts DEF MemPool!Free, PoolInv, MemPool!callVars, callVars
<1>2. PoolTypes' /\ BlockPlaces'
  BY <1>1, FreeBlocks
<1>3. PICK T : T = {}
  OBVIOUS
<1>4. Leaving(T) /\ T \intersect Woken(Kind(Rx), Rx) = {}
  BY <1>1, <1>3, LeavingFacts
<1>5. /\ Rx \in List /\ count \in Int /\ Enough(Rx, count)
  BY PoolFacts DEF PoolInv, PoolTypes
<1>6. wait'[Rx] # <<>> => count + 1 <= Cardinality(Woken(Kind(Rx), Rx)')
  BY <1>1, <1>4, <1>5, EnoughMore
<1>7. RetryInv'
  BY <1>1, <1>4, <1>5, WakeFacts
<1>8. Enough(Rx, count)'
  BY <1>1, <1>6, PoolFacts DEF Enough
<1> QED BY <1>2, <1>7, <1>8 DEF PoolInv

LEMMA PoolPass ==
  ASSUME PoolAssumption, PoolInv, NEW t \in Thread, NEW b \in Block, MemPool!Pass(t, b)
  PROVE  PoolInv'
<1>1. /\ UNCHANGED <<waitVars, callVars, left>> /\ b \in used[t]
      /\ used' = [used EXCEPT ![t] = @ \ {b}, ![Isr] = @ \union {b}]
      /\ blocks' = blocks /\ count' = count /\ RetryInv
  BY DEF MemPool!Pass, MemPool!loopVars, MemPool!objectVars, MemPool!waitVars, MemPool!callVars,
       waitVars, callVars, PoolInv
<1>2. PoolTypes' /\ BlockPlaces'
  BY <1>1, PassBlocks
<1>3. /\ RetryInv' /\ wait' = wait
      /\ \A l \in List : Woken(Kind(l), l)' = Woken(Kind(l), l)
  BY <1>1, RetryStand
<1> QED BY <1>1, <1>2, <1>3, PoolStill

LEMMA PoolNext ==
  PoolAssumption /\ PoolInv /\ [MemPool!Next]_MemPool!vars => PoolInv'
<1> SUFFICES ASSUME PoolAssumption, PoolInv, [MemPool!Next]_MemPool!vars PROVE PoolInv'
  OBVIOUS
<1>1. CASE UNCHANGED MemPool!vars
  <2>1. UNCHANGED <<waitVars, callVars, left>> /\ UNCHANGED <<blocks, count, used>>
    BY <1>1 DEF MemPool!vars, MemPool!loopVars, MemPool!objectVars, MemPool!waitVars,
         MemPool!callVars, MemPool!poolVars, waitVars, callVars
  <2>2. /\ RetryInv' /\ wait' = wait
        /\ \A l \in List : Woken(Kind(l), l)' = Woken(Kind(l), l)
    BY <2>1, RetryStand DEF PoolInv
  <2>3. PoolTypes' /\ BlockPlaces' /\ count' = count
    BY <2>1 DEF PoolInv, PoolTypes, BlockPlaces
  <2> QED BY <2>2, <2>3, PoolStill
<1>2. CASE MemPool!Outside
  BY <1>2, PoolOutside
<1>3. ASSUME NEW x \in Users, NEW b \in Block, MemPool!Free(x, b) PROVE PoolInv'
  BY <1>3, PoolFree
<1>4. CASE \/ MemPool!AllocIsr
           \/ \E t \in Thread :
                \/ MemPool!AllocNow(t) \/ MemPool!AllocFail(t)
                \/ \E limit \in Limits : MemPool!AllocWait(t, limit)
  BY <1>4, PoolAlloc
<1>5. ASSUME NEW t \in Thread, NEW b \in Block, MemPool!Pass(t, b) PROVE PoolInv'
  BY <1>5, PoolPass
<1>6. ASSUME NEW t \in Thread, NEW limit, MemPool!AllocAgain(t, limit) PROVE PoolInv'
  BY <1>6, PoolAllocAgain
<1> QED BY <1>1, <1>2, <1>3, <1>4, <1>5, <1>6 DEF MemPool!Next, Users

\* The invariant of the memory pool, in the words of RtMemPool.
LEMMA PoolShown ==
  ASSUME PoolAssumption, PoolInv
  PROVE  MemPool!TypeOK /\ MemPool!BlocksExact /\ MemPool!NoLostWakeup
<1>0. MemPool!BlocksExact
  BY BlocksShown DEF PoolInv
<1>1. \A S : MemPool!Cardinality(S) = Cardinality(S)
  BY DEF MemPool!Cardinality, Cardinality, MemPool!IsFiniteSet, IsFiniteSet
<1>2. MemPool!TypeOK
  BY <1>0, <1>1, PoolFacts DEF PoolInv, PoolTypes, Users, RetryInv, CloseInv, CallTypeOK, WaitTypeOK, Calling, Waiting,
       MemPool!TypeOK, MemPool!RetryTypeOK, MemPool!CallTypeOK, MemPool!WaitTypeOK
<1>3. \A c, l : MemPool!Woken(c, l) = Woken(c, l)
  BY PoolSame
<1>4. MemPool!NoLostWakeup
  BY <1>1, <1>3, PoolFacts DEF PoolInv, Enough, MemPool!NoLostWakeup
<1> QED BY <1>0, <1>2, <1>4 DEF PoolInv

-----------------------------------------------------------------------------
(* The event set *)

(* The scan of rt_event_send. *)

ScanStart(new) == [set |-> set \union new, list |-> wait[Rx]]

\* What the scan has behind place i, and v in front of it.
ScanStep(v, i) ==
  IF Event!Satisfies(v.set, want[wait[Rx][i]], option[wait[Rx][i]])
    THEN Event!Served(v, wait[Rx][i]) ELSE v

IsScan(s, new) ==
  s = [i \in 1..(Len(wait[Rx]) + 1) |->
        IF i = 1 THEN [set |-> set \union new, list |-> wait[Rx]]
        ELSE IF Event!WokenAt(s, i - 1) THEN Event!Served(s[i - 1], wait[Rx][i - 1])
        ELSE s[i - 1]]

\* The scan up to place k.
ScanUpTo(s, k, new) ==
  /\ s = [i \in 1..k |-> s[i]]
  /\ s[1] = ScanStart(new)
  /\ \A i \in 2..k : s[i] = ScanStep(s[i - 1], i - 1)

LEMMA ScanReaches ==
  ASSUME NEW new, NEW n \in Nat, n >= 1
  PROVE  \E s : ScanUpTo(s, n, new)
<1> DEFINE I == {k \in 1..n : ~\E s : ScanUpTo(s, k, new)}
<1> SUFFICES ASSUME I # {} PROVE FALSE
  OBVIOUS
<1>1. PICK k \in I : \A i \in I : k <= i
  <2>1. I \subseteq Nat
    OBVIOUS
  <2> HIDE DEF I
  <2> QED BY <2>1, Least
<1>2. CASE k = 1
  <2>1. PICK v : v = ScanStart(new)
    OBVIOUS
  <2>2. PICK s : s = [i \in 1..1 |-> v]
    OBVIOUS
  <2>3. s[1] = v /\ s = [i \in 1..1 |-> s[i]] /\ 2..1 = {}
    BY <2>2
  <2>4. ScanUpTo(s, 1, new)
    BY <2>1, <2>3 DEF ScanUpTo
  <2> QED BY <1>2, <2>4
<1>3. CASE k # 1
  <2>1. k - 1 \in 1..n /\ k - 1 \notin I /\ k \in Nat
    BY <1>1, <1>3
  <2>2. PICK g : ScanUpTo(g, k - 1, new)
    BY <2>1
  <2>3. PICK v : v = ScanStep(g[k - 1], k - 1)
    OBVIOUS
  <2>4. PICK s : s = [i \in 1..k |-> IF i = k THEN v ELSE g[i]]
    OBVIOUS
  <2>5. /\ s[k] = v /\ s = [i \in 1..k |-> s[i]]
        /\ \A i \in 1..(k - 1) : s[i] = g[i]
    BY <1>3, <2>1, <2>4
  <2>6. s[1] = ScanStart(new)
    <3>1. 1 \in 1..(k - 1)
      BY <1>3, <2>1
    <3>2. s[1] = g[1]
      BY <2>5, <3>1
    <3> QED BY <2>2, <3>2 DEF ScanUpTo
  <2>7. ASSUME NEW i \in 2..k PROVE s[i] = ScanStep(s[i - 1], i - 1)
    <3>1. CASE i = k
      <4>1. i - 1 \in 1..(k - 1) /\ i - 1 = k - 1
        BY <2>1, <3>1
      <4>2. s[i - 1] = g[k - 1]
        BY <2>5, <4>1
      <4> QED BY <2>3, <2>5, <3>1, <4>1, <4>2
    <3>2. CASE i # k
      <4>1. i \in 2..(k - 1) /\ i - 1 \in 1..(k - 1) /\ i \in 1..(k - 1)
        BY <2>1, <3>2
      <4>2. g[i] = ScanStep(g[i - 1], i - 1)
        BY <2>2, <4>1 DEF ScanUpTo
      <4>3. s[i] = g[i] /\ s[i - 1] = g[i - 1]
        BY <2>5, <4>1
      <4> QED BY <4>2, <4>3
    <3> QED BY <3>1, <3>2
  <2>8. ScanUpTo(s, k, new)
    BY <2>5, <2>6, <2>7 DEF ScanUpTo
  <2> QED BY <2>8
<1> QED BY <1>2, <1>3

\* What the scan is, place by place.
LEMMA ScanFacts ==
  ASSUME NEW new, wait[Rx] \in Seq(Thread)
  PROVE  /\ Event!Scan(new)[1] = ScanStart(new)
         /\ \A i \in 1..Len(wait[Rx]) : Event!Scan(new)[i + 1] = ScanStep(Event!Scan(new)[i], i)
<1>1. Len(wait[Rx]) \in Nat
  OBVIOUS
<1>2. PICK n \in Nat : n = Len(wait[Rx])
  BY <1>1
<1>3. PICK s : ScanUpTo(s, n + 1, new)
  <2>1. PICK m \in Nat : m = n + 1 /\ m >= 1
    BY <1>2
  <2>2. \E s : ScanUpTo(s, m, new)
    BY <2>1, ScanReaches
  <2> QED BY <2>1, <2>2
<1>4. IsScan(s, new)
  <2>1. s = [i \in 1..(n + 1) |-> s[i]] /\ s[1] = ScanStart(new)
        /\ \A i \in 2..(n + 1) : s[i] = ScanStep(s[i - 1], i - 1)
    BY <1>3 DEF ScanUpTo
  <2>2. ASSUME NEW i \in 1..(n + 1)
        PROVE  s[i] = IF i = 1 THEN [set |-> set \union new, list |-> wait[Rx]]
                      ELSE IF Event!WokenAt(s, i - 1) THEN Event!Served(s[i - 1], wait[Rx][i - 1])
                      ELSE s[i - 1]
    <3>1. CASE i = 1
      BY <2>1, <3>1 DEF ScanStart
    <3>2. CASE i # 1
      <4>0. i \in 2..(n + 1)
        BY <1>2, <3>2
      <4>1. s[i] = ScanStep(s[i - 1], i - 1)
        BY <2>1, <4>0
      <4> QED BY <3>2, <4>1 DEF ScanStep, Event!WokenAt
    <3> QED BY <3>1, <3>2
  <2>3. s = [i \in 1..(n + 1) |->
               IF i = 1 THEN [set |-> set \union new, list |-> wait[Rx]]
               ELSE IF Event!WokenAt(s, i - 1) THEN Event!Served(s[i - 1], wait[Rx][i - 1])
               ELSE s[i - 1]]
    BY ONLY <2>1, <2>2, Zenon
  <2> QED BY <1>2, <2>3, Zenon DEF IsScan
<1>5. Event!Scan(new) = CHOOSE x : IsScan(x, new)
  BY Zenon DEF Event!Scan, IsScan
<1>6. IsScan(CHOOSE x : IsScan(x, new), new)
  BY <1>4, Zenon
<1>7. PICK r : r = Event!Scan(new)
  OBVIOUS
<1>8. IsScan(r, new)
  BY <1>5, <1>6, <1>7, Zenon
<1>9. \A i \in 1..(n + 1) :
        r[i] = IF i = 1 THEN [set |-> set \union new, list |-> wait[Rx]]
               ELSE IF Event!WokenAt(r, i - 1) THEN Event!Served(r[i - 1], wait[Rx][i - 1])
               ELSE r[i - 1]
  <2>1. PICK h : h = [i \in 1..(n + 1) |->
               IF i = 1 THEN [set |-> set \union new, list |-> wait[Rx]]
               ELSE IF Event!WokenAt(r, i - 1) THEN Event!Served(r[i - 1], wait[Rx][i - 1])
               ELSE r[i - 1]]
    OBVIOUS
  <2>2. r = h
    BY <1>2, <1>8, <2>1, Zenon DEF IsScan
  <2>3. \A i \in 1..(n + 1) : h[i] =
               IF i = 1 THEN [set |-> set \union new, list |-> wait[Rx]]
               ELSE IF Event!WokenAt(r, i - 1) THEN Event!Served(r[i - 1], wait[Rx][i - 1])
               ELSE r[i - 1]
    BY <2>1, Zenon
  <2> QED BY <2>2, <2>3, Zenon
<1>10. r[1] = ScanStart(new)
  <2>1. 1 \in 1..(n + 1)
    BY <1>2
  <2> QED BY <1>9, <2>1, Zenon DEF ScanStart
<1>11. ASSUME NEW i \in 1..n PROVE r[i + 1] = ScanStep(r[i], i)
  <2>1. i + 1 \in 1..(n + 1) /\ i + 1 # 1 /\ (i + 1) - 1 = i
    BY <1>2
  <2> QED BY <1>9, <2>1 DEF ScanStep, Event!WokenAt
<1> QED BY <1>2, <1>7, <1>10, <1>11

-----------------------------------------------------------------------------
(* What the scan has at a place. *)

ScanOf(s, new) ==
  /\ s[1] = ScanStart(new)
  /\ \A i \in 1..Len(wait[Rx]) : s[i + 1] = ScanStep(s[i], i)

Sight(s, i) == Event!Got(s[i].set, wait[Rx][i])

\* At place k: the bits no waiter in front has cleared, and the waiters but the woken ones.
ScanAt(s, k, new) ==
  /\ \A b : b \in s[k].set <=>
       /\ b \in set \union new
       /\ \A j \in 1..(k - 1) :
            Event!WokenAt(s, j) /\ option[wait[Rx][j]].clear => b \notin Sight(s, j)
  /\ s[k].list \in Seq(Thread) /\ Once(s[k].list)
  /\ \A x : Linked(s[k].list, x) <=>
       Linked(wait[Rx], x) /\ \A j \in 1..(k - 1) : Event!WokenAt(s, j) => wait[Rx][j] # x

LEMMA ServedFacts ==
  ASSUME NEW v, NEW t, v.list \in Seq(Thread), Once(v.list)
  PROVE  LET r == Event!Served(v, t) IN
         /\ \A b : b \in r.set <=> b \in v.set /\ (option[t].clear => b \notin Event!Got(v.set, t))
         /\ r.list \in Seq(Thread) /\ Once(r.list)
         /\ \A x : Linked(r.list, x) <=> Linked(v.list, x) /\ x # t
<1>1. Event!Unlink(v.list, t) = Unlink(v.list, t)
  BY DEF Event!Unlink, Unlink, Event!Position, Position, Event!Linked, Linked, Event!CutOut, CutOut
<1>2. PICK q \in Seq(Thread) : q = v.list
  OBVIOUS
<1>3. /\ Unlink(q, t) \in Seq(Thread) /\ Once(Unlink(q, t))
      /\ \A x : Linked(Unlink(q, t), x) <=> Linked(q, x) /\ x # t
  BY <1>2, UnlinkFacts
<1>4. PICK r : r = Event!Served(v, t)
  OBVIOUS
<1>5. /\ r.set = Event!Left(v.set, Event!Got(v.set, t), option[t])
      /\ r.list = Unlink(q, t)
  BY <1>1, <1>2, <1>4 DEF Event!Served
<1>6. \A b : b \in r.set <=> b \in v.set /\ (option[t].clear => b \notin Event!Got(v.set, t))
  BY <1>5 DEF Event!Left
<1> QED BY <1>2, <1>3, <1>4, <1>5, <1>6

LEMMA ScanNext ==
  ASSUME NEW s, NEW new, ScanOf(s, new), NEW k \in 1..Len(wait[Rx]), ScanAt(s, k, new)
  PROVE  ScanAt(s, k + 1, new)
<1>1. /\ s[k + 1] = ScanStep(s[k], k)
      /\ (k + 1) - 1 = k /\ 1..k = 1..(k - 1) \union {k}
  BY DEF ScanOf
<1>2. CASE Event!WokenAt(s, k)
  <2>1. s[k + 1] = Event!Served(s[k], wait[Rx][k])
    BY <1>1, <1>2 DEF ScanStep, Event!WokenAt
  <2>2. PICK v : v = s[k]
    OBVIOUS
  <2>3. PICK t : t = wait[Rx][k]
    OBVIOUS
  <2>4. PICK r : r = Event!Served(v, t)
    OBVIOUS
  <2>5. /\ \A b : b \in r.set <=> b \in v.set /\ (option[t].clear => b \notin Event!Got(v.set, t))
        /\ r.list \in Seq(Thread) /\ Once(r.list)
        /\ \A x : Linked(r.list, x) <=> Linked(v.list, x) /\ x # t
    BY <2>2, <2>4, ServedFacts DEF ScanAt
  <2>6. s[k + 1] = r /\ Sight(s, k) = Event!Got(v.set, t)
    BY <2>1, <2>2, <2>3, <2>4 DEF Sight
  <2>7. \A b : b \in s[k + 1].set <=>
          /\ b \in set \union new
          /\ \A j \in 1..k :
               Event!WokenAt(s, j) /\ option[wait[Rx][j]].clear => b \notin Sight(s, j)
    BY <1>1, <1>2, <2>2, <2>3, <2>5, <2>6 DEF ScanAt
  <2>8. \A x : Linked(s[k + 1].list, x) <=>
          Linked(wait[Rx], x) /\ \A j \in 1..k : Event!WokenAt(s, j) => wait[Rx][j] # x
    BY <1>1, <1>2, <2>2, <2>3, <2>5, <2>6 DEF ScanAt
  <2> QED BY <1>1, <2>5, <2>6, <2>7, <2>8 DEF ScanAt
<1>3. CASE ~Event!WokenAt(s, k)
  <2>1. s[k + 1] = s[k]
    BY <1>1, <1>3 DEF ScanStep, Event!WokenAt
  <2> QED BY <1>1, <1>3, <2>1 DEF ScanAt
<1> QED BY <1>2, <1>3

LEMMA ScanPlaces ==
  ASSUME NEW s, NEW new, ScanOf(s, new), wait[Rx] \in Seq(Thread), Once(wait[Rx])
  PROVE  \A k \in 1..(Len(wait[Rx]) + 1) : ScanAt(s, k, new)
<1> DEFINE I == {k \in 1..(Len(wait[Rx]) + 1) : ~ScanAt(s, k, new)}
<1>1. Len(wait[Rx]) \in Nat
  OBVIOUS
<1> SUFFICES ASSUME I # {} PROVE FALSE
  OBVIOUS
<1>2. PICK k \in I : \A i \in I : k <= i
  <2>1. I \subseteq Nat
    BY <1>1
  <2> HIDE DEF I
  <2> QED BY <2>1, Least
<1>3. CASE k = 1
  <2>1. s[1].set = set \union new /\ s[1].list = wait[Rx] /\ 1..(1 - 1) = {}
    BY DEF ScanOf, ScanStart
  <2> QED BY <1>3, <2>1 DEF ScanAt
<1>4. CASE k # 1
  <2>1. PICK j : j = k - 1
    OBVIOUS
  <2>2. j \in 1..Len(wait[Rx]) /\ j \in 1..(Len(wait[Rx]) + 1) /\ j + 1 = k /\ j \notin I
    BY <1>1, <1>2, <1>4, <2>1
  <2>3. ScanAt(s, j, new)
    BY <2>2
  <2> QED BY <2>2, <2>3, ScanNext
<1> QED BY <1>3, <1>4

-----------------------------------------------------------------------------
EventTypes ==
  /\ set \in SUBSET Bits /\ want \in [Thread -> SUBSET Bits]
  /\ option \in [Thread -> Options] /\ asked \in [Thread -> SUBSET Bits]

\* A waiter waits for what its call was given.
Asking ==
  \A t \in Thread : Linked(wait[Rx], t) => asked[t] # {} /\ want[t] = asked[t]

Unserved ==
  \A t \in Thread : Linked(wait[Rx], t) => ~Event!Satisfies(set, want[t], option[t])

Answered ==
  \A t \in Woken("wait", Rx) :
    /\ want[t] # {} /\ want[t] \subseteq asked[t]
    /\ option[t].all => want[t] = asked[t]

EventInv == CloseInv /\ EventTypes /\ Asking /\ Unserved /\ Answered

EventAssumption == Event!EventConstants /\ Options # {} /\ DetachUnarmed

LEMMA EventFacts ==
  ASSUME EventAssumption
  PROVE  /\ Lists /\ List = {Rx} /\ Rx \in List /\ List \ {Rx} = {}
         /\ Kind(Rx) = "wait" /\ Event!AnyOption \in Options
         /\ Options \subseteq [all : BOOLEAN, clear : BOOLEAN]
BY DEF EventAssumption, Event!EventConstants, Lists, Kind, Event!AnyOption

LEMMA EventSame ==
  /\ \A L : Event!ResumeAllFailed(L) <=> ResumeAllFailed(L)
  /\ \A l, t, limited : Event!Suspend(l, t, limited) <=> Suspend(l, t, limited)
  /\ \A t, c, l : Event!Goto(t, c, l) <=> Goto(t, c, l)
  /\ \A t : Event!Return(t) <=> Return(t)
  /\ \A t, l, L : Event!Detach(t, l, L) <=> Detach(t, l, L)
  /\ \A t, L : Event!DetachTest(t, L) <=> DetachTest(t, L)
  /\ \A t : Event!DetachResume(t) <=> DetachResume(t)
  /\ Event!TimerExpires <=> TimerExpires
  /\ \A t, c : Event!Back(t, c) <=> Back(t, c)
  /\ \A t, l : Event!Calls(t, l) <=> Calls(t, l)
  /\ Event!NobodyWaitsForNothing <=> Unserved
  /\ Event!GotWhatItAskedFor <=> Answered
  /\ Event!GotWhatItAskedFor' <=> Answered'
  /\ Event!Newly = Woken("wait", Rx)' \ Woken("wait", Rx)
<1>1. /\ \A L : Event!ResumeAllFailed(L) <=> ResumeAllFailed(L)
      /\ \A l, t, limited : Event!Suspend(l, t, limited) <=> Suspend(l, t, limited)
  BY DEF Event!ResumeAllFailed, ResumeAllFailed, Event!Linked, Linked,
       Event!Suspend, Suspend, Event!Park, Park, Event!Enqueue, Enqueue,
       Event!LinkBefore, LinkBefore, Event!FirstOf, FirstOf, Event!PutIn, PutIn, Event!Lower, Lower
<1>2. /\ \A t, c, l : Event!Goto(t, c, l) <=> Goto(t, c, l)
      /\ \A t : Event!Return(t) <=> Return(t)
      /\ \A t, c : Event!Back(t, c) <=> Back(t, c)
      /\ \A t, l : Event!Calls(t, l) <=> Calls(t, l)
  BY DEF Event!Goto, Goto, Event!Return, Return, Event!SomeList, SomeList, Event!Back, Back,
       Event!Suspended, Suspended, Event!Linked, Linked, Event!Calls, Calls
<1>3. /\ \A t, l, L : Event!Detach(t, l, L) <=> Detach(t, l, L)
      /\ \A t, L : Event!DetachTest(t, L) <=> DetachTest(t, L)
      /\ \A t : Event!DetachResume(t) <=> DetachResume(t)
      /\ Event!TimerExpires <=> TimerExpires
  BY DEF Event!Detach, Detach, Event!Calls, Calls, Event!Goto, Goto, Event!waitVars, waitVars,
       Event!DetachTest, DetachTest, Event!Return, Return, Event!SomeList, SomeList,
       Event!DetachResume, DetachResume, Event!ResumeFailed, ResumeFailed,
       Event!TimerExpires, TimerExpires, Event!Timeout, Timeout, Event!Unlink, Unlink,
       Event!Linked, Linked, Event!Position, Position, Event!CutOut, CutOut,
       Event!callVars, callVars
<1>4. Event!NobodyWaitsForNothing <=> Unserved
  BY DEF Event!NobodyWaitsForNothing, Unserved, Event!Linked, Linked
<1>5. /\ Event!GotWhatItAskedFor <=> Answered
      /\ Event!GotWhatItAskedFor' <=> Answered'
      /\ Event!Newly = Woken("wait", Rx)' \ Woken("wait", Rx)
  BY DEF Event!GotWhatItAskedFor, Answered, Event!Newly, Event!Woken, Woken, Event!Back, Back,
       Event!Suspended, Suspended, Event!Linked, Linked
<1> QED BY <1>1, <1>2, <1>3, <1>4, <1>5

LEMMA EventInit ==
  ASSUME EventAssumption, Event!Init
  PROVE  EventInv
<1>1. ObjectInit
  BY DEF Event!Init, Event!ObjectInit, Event!WaitInit, Event!SomeList, ObjectInit, WaitInit, SomeList
<1>2. /\ CloseInv /\ wait[Rx] = <<>> /\ \A t : ~Linked(wait[Rx], t)
  BY <1>1, CloseInit, EventFacts DEF Linked
<1>3. EventTypes
  BY EventFacts DEF Event!Init, EventTypes
<1>4. Woken("wait", Rx) = {}
  BY <1>1 DEF ObjectInit, Woken, Back
<1> QED BY <1>2, <1>3, <1>4 DEF EventInv, Asking, Unserved, Answered

\* Steps that wake nobody: whoever still waits waits for the same, and no bit is set.
LEMMA EventQuiet ==
  ASSUME EventAssumption, EventInv, CloseInv', EventTypes', NEW T,
         \A t \in Thread : Linked(wait'[Rx], t) => Linked(wait[Rx], t) /\ t \notin T,
         \A t \in Thread \ T : want'[t] = want[t] /\ option'[t] = option[t] /\ asked'[t] = asked[t],
         set' \subseteq set,
         Woken("wait", Rx)' = Woken("wait", Rx) \ T
  PROVE  EventInv' /\ Event!BitsGoOnceStep
<1>1. Asking'
  BY DEF EventInv, Asking
<1>2. Unserved'
  BY DEF EventInv, Unserved, Event!Satisfies
<1>3. Answered'
  BY DEF EventInv, Answered, Woken
<1>4. Event!Newly = {}
  BY EventSame
<1> QED BY <1>1, <1>2, <1>3, <1>4 DEF EventInv, Event!BitsGoOnceStep

LEMMA EventOutside ==
  ASSUME EventAssumption, EventInv, Event!Outside
  PROVE  EventInv' /\ Event!BitsGoOnceStep
<1>1. /\ UNCHANGED <<set, want, option, asked>> /\ CloseInv /\ Lists /\ List = {Rx} /\ List \ {Rx} = {}
      /\ \/ TimerExpires
         \/ \E t \in Thread : Detach(t, Rx, List) \/ DetachTest(t, List \ {Rx}) \/ DetachResume(t)
  BY EventSame, EventFacts DEF Event!Outside, Event!eventVars, EventInv
<1>2. /\ CloseInv'
      /\ Woken("wait", Rx)' = Woken("wait", Rx)
      /\ \A t \in Thread : Linked(wait'[Rx], t) => Linked(wait[Rx], t)
  BY <1>1, CloseOutside DEF EventAssumption
<1>3. PICK T : T = {}
  OBVIOUS
<1>4. /\ EventTypes' /\ set' \subseteq set
      /\ \A t \in Thread : Linked(wait'[Rx], t) => Linked(wait[Rx], t) /\ t \notin T
      /\ \A t \in Thread \ T : want'[t] = want[t] /\ option'[t] = option[t] /\ asked'[t] = asked[t]
      /\ Woken("wait", Rx)' = Woken("wait", Rx) \ T
  BY <1>1, <1>2, <1>3 DEF EventInv, EventTypes
<1> QED BY <1>2, <1>4, EventQuiet

LEMMA EventRecvNow ==
  ASSUME EventAssumption, EventInv, NEW t \in Thread, NEW w \in Event!Interest, NEW o \in Options,
         Event!RecvNow(t, w, o)
  PROVE  EventInv' /\ Event!BitsGoOnceStep
<1>1. /\ UNCHANGED <<waitVars, callVars, want, option, asked>> /\ set' = Event!Left(set, w, o)
      /\ CloseInv
  BY DEF Event!RecvNow, Event!objectVars, Event!waitVars, Event!callVars, waitVars, callVars, EventInv
<1>2. /\ CloseInv' /\ wait' = wait /\ Woken("wait", Rx)' = Woken("wait", Rx)
  BY <1>1, CloseStand
<1>3. set' \subseteq set
  BY <1>1 DEF Event!Left
<1>4. PICK T : T = {}
  OBVIOUS
<1>5. /\ EventTypes' /\ set' \subseteq set
      /\ \A x \in Thread : Linked(wait'[Rx], x) => Linked(wait[Rx], x) /\ x \notin T
      /\ \A x \in Thread \ T : want'[x] = want[x] /\ option'[x] = option[x] /\ asked'[x] = asked[x]
      /\ Woken("wait", Rx)' = Woken("wait", Rx) \ T
  BY <1>1, <1>2, <1>3, <1>4 DEF EventInv, EventTypes
<1> QED BY <1>2, <1>5, EventQuiet

LEMMA EventRecvWait ==
  ASSUME EventAssumption, EventInv, NEW t \in Thread, NEW w \in Event!Interest, NEW o \in Options,
         NEW limited \in Timed, Event!RecvWait(t, w, o, limited)
  PROVE  EventInv' /\ Event!BitsGoOnceStep
<1>1. /\ Calls(t, Rx) /\ ~Event!Satisfies(set, w, o) /\ Suspend(Rx, t, limited) /\ Goto(t, "wait", Rx)
      /\ want' = [want EXCEPT ![t] = w] /\ asked' = [asked EXCEPT ![t] = w]
      /\ option' = [option EXCEPT ![t] = o] /\ gone' = gone /\ set' = set
      /\ CloseInv /\ Rx \in List /\ Kind(Rx) = "wait"
  BY EventSame, EventFacts DEF Event!RecvWait, EventInv
<1>2. ~Suspended(t) /\ gone = {}
  <2>1. ~Suspended(t)
    BY <1>1, CloseFacts DEF Calls
  <2>2. gone = {}
    BY <1>1, EventFacts DEF CloseInv, Closing, Calls
  <2> QED BY <2>1, <2>2
<1>3. PICK q \in Seq(Thread) : /\ q = Enqueue(Rx, t) /\ Once(q)
                               /\ \A x : Linked(q, x) <=> Linked(wait[Rx], x) \/ x = t
  BY <1>1, <1>2, CloseFacts, EnqueueFacts
<1>4. Park(Rx, t, q, limited) /\ wait'[Rx] = q
  BY <1>1, <1>3, CloseFacts DEF Suspend, Park
<1>5. /\ CloseInv' /\ Woken("wait", Rx)' = Woken("wait", Rx) \ {t}
  BY <1>1, <1>2, <1>3, <1>4, WaitOnFacts
<1>6. EventTypes' /\ w # {}
  <2>1. w \in SUBSET Bits /\ w # {}
    BY DEF Event!Interest
  <2>2. want' \in [Thread -> SUBSET Bits] /\ asked' \in [Thread -> SUBSET Bits]
    BY <1>1, <2>1 DEF EventInv, EventTypes
  <2>3. option' \in [Thread -> Options] /\ set' \in SUBSET Bits
    BY <1>1 DEF EventInv, EventTypes
  <2> QED BY <2>1, <2>2, <2>3 DEF EventTypes
<1>7. /\ want'[t] = w /\ asked'[t] = w /\ option'[t] = o
      /\ \A x \in Thread \ {t} : want'[x] = want[x] /\ option'[x] = option[x] /\ asked'[x] = asked[x]
  BY <1>1 DEF EventInv, EventTypes
<1>8. Asking'
  BY <1>3, <1>4, <1>6, <1>7 DEF EventInv, Asking
<1>9. Unserved'
  BY <1>1, <1>3, <1>4, <1>7 DEF EventInv, Unserved
<1>10. Answered'
  BY <1>5, <1>7 DEF EventInv, Answered, Woken
<1>11. Event!Newly = {}
  BY <1>5, EventSame
<1> QED BY <1>5, <1>6, <1>8, <1>9, <1>10, <1>11 DEF EventInv, Event!BitsGoOnceStep

LEMMA EventRecvReturn ==
  ASSUME EventAssumption, EventInv, NEW t \in Thread, Event!RecvReturn(t)
  PROVE  EventInv' /\ Event!BitsGoOnceStep
<1>1. /\ Back(t, "wait") /\ Return(t) /\ UNCHANGED waitVars /\ gone' = gone /\ set' = set
      /\ want' = [want EXCEPT ![t] = {}] /\ asked' = [asked EXCEPT ![t] = {}]
      /\ option' = [option EXCEPT ![t] = Event!AnyOption]
      /\ CloseInv /\ Rx \in List /\ Kind(Rx) = "wait"
  BY EventSame, EventFacts DEF Event!RecvReturn, EventInv, Event!waitVars, waitVars
<1>2. PICK T : T = {t}
  OBVIOUS
<1>3. /\ CloseInv' /\ wait' = wait /\ ~Suspended(t)
      /\ Woken("wait", Rx)' = Woken("wait", Rx) \ T
  BY <1>1, <1>2, CloseReturn
<1>4. /\ EventTypes' /\ set' \subseteq set
      /\ \A x \in Thread : Linked(wait'[Rx], x) => Linked(wait[Rx], x) /\ x \notin T
      /\ \A x \in Thread \ T : want'[x] = want[x] /\ option'[x] = option[x] /\ asked'[x] = asked[x]
      /\ Woken("wait", Rx)' = Woken("wait", Rx) \ T
  <2>1. EventTypes'
    BY <1>1, EventFacts DEF EventInv, EventTypes
  <2>2. ~Linked(wait[Rx], t)
    BY <1>1, <1>3 DEF Suspended
  <2> QED BY <1>1, <1>2, <1>3, <2>1, <2>2 DEF EventInv, EventTypes
<1> QED BY <1>3, <1>4, EventQuiet

LEMMA EventReset ==
  ASSUME EventAssumption, EventInv, NEW t \in Thread, Event!Reset(t)
  PROVE  EventInv' /\ Event!BitsGoOnceStep
<1>1. /\ Calls(t, Rx) /\ ResumeAllFailed(List) /\ UNCHANGED callVars /\ set' = {}
      /\ UNCHANGED <<want, option, asked>> /\ CloseInv /\ Rx \in List /\ Kind(Rx) = "wait"
  BY EventSame, EventFacts DEF Event!Reset, EventInv, Event!callVars, callVars
<1>2. gone = {}
  BY <1>1, EventFacts DEF CloseInv, Closing, Calls
<1>3. /\ CloseInv' /\ Woken("wait", Rx)' = Woken("wait", Rx)
      /\ \A x : ~Linked(wait'[Rx], x)
  BY <1>1, <1>2, ResetFacts DEF Linked
<1>4. PICK T : T = {}
  OBVIOUS
<1>5. /\ EventTypes' /\ set' \subseteq set
      /\ \A x \in Thread : Linked(wait'[Rx], x) => Linked(wait[Rx], x) /\ x \notin T
      /\ \A x \in Thread \ T : want'[x] = want[x] /\ option'[x] = option[x] /\ asked'[x] = asked[x]
      /\ Woken("wait", Rx)' = Woken("wait", Rx) \ T
  BY <1>1, <1>3, <1>4 DEF EventInv, EventTypes
<1> QED BY <1>3, <1>5, EventQuiet

\* What a send hands to the waiters it wakes.
LEMMA SendFacts ==
  ASSUME EventAssumption, EventInv, NEW new \in Event!Interest, Event!Send(new)
  PROVE  \E s, W : \E n \in Nat :
           /\ n = Len(wait[Rx])
           /\ \A k \in 1..(n + 1) : ScanAt(s, k, new)
           /\ W \subseteq Thread
           /\ \A x : x \in W <=> \E j \in 1..n : wait[Rx][j] = x /\ Event!WokenAt(s, j)
           /\ \A j \in 1..n : wait[Rx][j] \in W => Event!WokenAt(s, j)
           /\ set' = s[n + 1].set /\ wait' = [wait EXCEPT ![Rx] = s[n + 1].list]
           /\ want' \in [Thread -> SUBSET Bits]
           /\ \A t \in Thread \ W : want'[t] = want[t]
           /\ \A j \in 1..n : Event!WokenAt(s, j) => want'[wait[Rx][j]] = Sight(s, j)
           /\ armed' = armed \ W /\ gone = {}
           /\ UNCHANGED <<err, callVars, option, asked>>
<1>1. wait[Rx] \in Seq(Thread) /\ Once(wait[Rx]) /\ CloseInv
  BY CloseFacts, EventFacts DEF EventInv, CloseInv, OneReason
<1>2. PICK s : s = Event!Scan(new)
  OBVIOUS
<1>3. PICK n \in Nat : n = Len(wait[Rx]) /\ DOMAIN wait[Rx] = 1..n
  BY <1>1
<1>4. ScanOf(s, new)
  BY <1>1, <1>2, ScanFacts DEF ScanOf
<1>5. \A k \in 1..(n + 1) : ScanAt(s, k, new)
  BY <1>1, <1>3, <1>4, ScanPlaces
<1>6. PICK W : W = {wait[Rx][i] : i \in {i \in DOMAIN wait[Rx] : Event!WokenAt(s, i)}}
  OBVIOUS
<1>7. /\ Rx \notin gone /\ set' = s[n + 1].set
      /\ wait' = [wait EXCEPT ![Rx] = s[n + 1].list]
      /\ want' = [t \in Thread |-> IF t \in W
                    THEN Event!Got(s[Event!Position(wait[Rx], t)].set, t) ELSE want[t]]
      /\ armed' = armed \ W
      /\ UNCHANGED <<err, callVars, option, asked>>
  BY <1>2, <1>3, <1>6 DEF Event!Send, Event!callVars, callVars
<1>8. gone = {}
  BY <1>7, EventFacts DEF EventInv, CloseInv, Closing
<1>9. \A x : x \in W <=> \E j \in 1..n : wait[Rx][j] = x /\ Event!WokenAt(s, j)
  BY <1>3, <1>6
<1>10. W \subseteq Thread
  BY <1>1, <1>3, <1>9
<1>11. \A j \in 1..n : wait[Rx][j] \in W => Event!WokenAt(s, j)
  BY <1>1, <1>3, <1>9 DEF Once
<1>12. ASSUME NEW j \in 1..n
       PROVE  Event!Position(wait[Rx], wait[Rx][j]) = j
  BY <1>1, <1>3 DEF Event!Position, Once
<1>13. \A t \in Thread \ W : want'[t] = want[t]
  BY <1>7
<1>14. ASSUME NEW j \in 1..n, Event!WokenAt(s, j) PROVE want'[wait[Rx][j]] = Sight(s, j)
  <2>1. wait[Rx][j] \in W /\ wait[Rx][j] \in Thread
    BY <1>9, <1>10, <1>14
  <2> QED BY <1>7, <1>12, <2>1 DEF Sight
<1>15. want' \in [Thread -> SUBSET Bits]
  <2>1. \A t, b : Event!Got(b, t) \subseteq want[t]
    BY DEF Event!Got
  <2>2. want \in [Thread -> SUBSET Bits]
    BY DEF EventInv, EventTypes
  <2>3. ASSUME NEW t \in Thread PROVE want'[t] \in SUBSET Bits
    BY <1>7, <2>1, <2>2
  <2>4. want' = [t \in Thread |-> want'[t]]
    BY <1>7
  <2> QED BY <2>3, <2>4
<1> QED BY <1>3, <1>5, <1>7, <1>8, <1>9, <1>10, <1>11, <1>13, <1>14, <1>15

LEMMA EventSend ==
  ASSUME EventAssumption, EventInv, NEW new \in Event!Interest, Event!Send(new)
  PROVE  EventInv' /\ Event!BitsGoOnceStep
<1>1. PICK s, W : \E n \in Nat :
           /\ n = Len(wait[Rx])
           /\ \A k \in 1..(n + 1) : ScanAt(s, k, new)
           /\ W \subseteq Thread
           /\ \A x : x \in W <=> \E j \in 1..n : wait[Rx][j] = x /\ Event!WokenAt(s, j)
           /\ \A j \in 1..n : wait[Rx][j] \in W => Event!WokenAt(s, j)
           /\ set' = s[n + 1].set /\ wait' = [wait EXCEPT ![Rx] = s[n + 1].list]
           /\ want' \in [Thread -> SUBSET Bits]
           /\ \A t \in Thread \ W : want'[t] = want[t]
           /\ \A j \in 1..n : Event!WokenAt(s, j) => want'[wait[Rx][j]] = Sight(s, j)
           /\ armed' = armed \ W /\ gone = {}
           /\ UNCHANGED <<err, callVars, option, asked>>
  BY SendFacts
<1>2. PICK n \in Nat :
        /\ n = Len(wait[Rx])
        /\ \A k \in 1..(n + 1) : ScanAt(s, k, new)
        /\ W \subseteq Thread
        /\ \A x : x \in W <=> \E j \in 1..n : wait[Rx][j] = x /\ Event!WokenAt(s, j)
        /\ \A j \in 1..n : wait[Rx][j] \in W => Event!WokenAt(s, j)
        /\ set' = s[n + 1].set /\ wait' = [wait EXCEPT ![Rx] = s[n + 1].list]
        /\ want' \in [Thread -> SUBSET Bits]
        /\ \A t \in Thread \ W : want'[t] = want[t]
        /\ \A j \in 1..n : Event!WokenAt(s, j) => want'[wait[Rx][j]] = Sight(s, j)
        /\ armed' = armed \ W /\ gone = {}
        /\ UNCHANGED <<err, callVars, option, asked>>
  BY <1>1
<1>3. /\ CloseInv /\ Rx \in List /\ List = {Rx} /\ Kind(Rx) = "wait"
      /\ wait[Rx] \in Seq(Thread) /\ DOMAIN wait[Rx] = 1..n
  BY <1>2, EventFacts, CloseFacts DEF EventInv
<1>4. \A x : Linked(wait[Rx], x) <=> \E j \in 1..n : wait[Rx][j] = x
  BY <1>3 DEF Linked
\* Who leaves the list.
<1>5. /\ s[n + 1].list \in Seq(Thread) /\ Once(s[n + 1].list)
      /\ \A x : Linked(s[n + 1].list, x) <=> Linked(wait[Rx], x) /\ x \notin W
  <2>1. n + 1 \in 1..(n + 1) /\ (n + 1) - 1 = n
    OBVIOUS
  <2>2. ScanAt(s, n + 1, new)
    BY <1>2, <2>1
  <2> QED BY <1>2, <2>1, <2>2 DEF ScanAt
<1>6. wait \in [List -> Seq(Thread)] /\ wait'[Rx] = s[n + 1].list /\ wait' \in [List -> Seq(Thread)]
  BY <1>2, <1>3, <1>5, CloseFacts
<1>7. Leave(W) /\ err' = err
  <2>1. /\ \A l \in List : Once(wait'[l])
        /\ \A l \in List : \A x : Linked(wait'[l], x) <=> Linked(wait[l], x) /\ x \notin W
    BY <1>3, <1>5, <1>6
  <2>2. err' \in [Thread -> {"OK", "ERROR", "ETIMEOUT"}] /\ err' = err /\ WaitInv /\ armed' = armed \ W
    BY <1>2, <1>3, CloseFacts
  <2> QED BY <1>6, <2>1, <2>2, LeaveFacts
<1>8. /\ CloseInv'
      /\ Woken("wait", Rx)' = Woken("wait", Rx) \union W
  <2>1. PICK T : T = {}
    OBVIOUS
  <2>2. /\ T \in SUBSET Thread /\ gone = {} /\ gone' = gone
        /\ \A t \in T : ~Suspended(t) /\ t \notin Ending /\ pc'[t] \in {"run", "fill", "urge", "copy"}
        /\ \A t \in Thread \ T : /\ pc'[t] = pc[t] /\ on'[t] = on[t]
                                 /\ err'[t] = err[t] \/ (t \in W /\ Suspended(t) /\ err'[t] # "OK")
        /\ pc' \in [Thread -> Calling] /\ on' \in [Thread -> List]
    BY <1>2, <1>3, <2>1, CloseFacts DEF callVars
  <2>3. /\ CloseInv'
        /\ \A l \in List : Woken(Kind(l), l)' =
             (Woken(Kind(l), l) \ T) \union {t \in W : Linked(wait[l], t) /\ err'[t] = "OK"}
    BY <1>3, <1>7, <2>2, StepFacts
  <2>4. \A t \in W : Linked(wait[Rx], t) /\ err'[t] = "OK"
    BY <1>2, <1>3, <1>4 DEF CloseInv, Parked
  <2> QED BY <1>3, <2>1, <2>3, <2>4
<1>9. \A t \in W : t \notin Woken("wait", Rx)
  BY <1>2, <1>3, <1>4 DEF Woken, Back, Suspended
<1>10. Event!Newly = W
  BY <1>8, <1>9, EventSame
\* What they get.
<1>11. /\ new \in SUBSET Bits /\ set \in SUBSET Bits
       /\ \A j \in 1..(n + 1) : s[j].set \subseteq set \union new
       /\ \A j \in 1..n : s[n + 1].set \subseteq s[j].set
  <2>1. new \in SUBSET Bits /\ set \in SUBSET Bits
    BY DEF Event!Interest, EventInv, EventTypes
  <2>2. \A j \in 1..(n + 1) : s[j].set \subseteq set \union new
    BY <1>2 DEF ScanAt
  <2>3. ASSUME NEW j \in 1..n PROVE s[n + 1].set \subseteq s[j].set
    <3>1. n + 1 \in 1..(n + 1) /\ j \in 1..(n + 1) /\ 1..(j - 1) \subseteq 1..((n + 1) - 1)
      OBVIOUS
    <3>2. ScanAt(s, n + 1, new) /\ ScanAt(s, j, new)
      BY <1>2, <3>1
    <3> QED BY <3>1, <3>2 DEF ScanAt
  <2> QED BY <2>1, <2>2, <2>3
<1>12. EventTypes'
  <2>1. n + 1 \in 1..(n + 1)
    OBVIOUS
  <2>2. set' \in SUBSET Bits
    BY <1>2, <1>11, <2>1
  <2> QED BY <1>2, <2>2 DEF EventInv, EventTypes
<1>13. Asking'
  BY <1>2, <1>5, <1>6 DEF EventInv, Asking
<1>14. Unserved'
  <2> SUFFICES ASSUME NEW t \in Thread, Linked(wait'[Rx], t)
               PROVE  ~Event!Satisfies(set', want'[t], option'[t])
    BY DEF Unserved
  <2>1. t \notin W /\ Linked(wait[Rx], t) /\ want'[t] = want[t] /\ option'[t] = option[t]
    BY <1>2, <1>5, <1>6
  <2>2. PICK j \in 1..n : wait[Rx][j] = t /\ ~Event!WokenAt(s, j)
    BY <1>2, <1>4, <2>1
  <2>3. ~Event!Satisfies(s[j].set, want[t], option[t])
    BY <2>2 DEF Event!WokenAt
  <2>4. set' \subseteq s[j].set
    BY <1>2, <1>11
  <2> QED BY <2>1, <2>3, <2>4 DEF Event!Satisfies
<1>15. ASSUME NEW t \in W
       PROVE  /\ want'[t] # {} /\ want'[t] \subseteq asked[t]
              /\ option[t].all => want'[t] = asked[t]
              /\ want'[t] \subseteq set \union new
  <2>1. PICK j \in 1..n : wait[Rx][j] = t /\ Event!WokenAt(s, j)
    BY <1>2
  <2>2. /\ want'[t] = Event!Got(s[j].set, t) /\ Event!Satisfies(s[j].set, want[t], option[t])
    BY <1>2, <2>1 DEF Event!WokenAt, Sight
  <2>3. asked[t] # {} /\ want[t] = asked[t] /\ s[j].set \subseteq set \union new
    BY <1>2, <1>4, <1>11, <2>1 DEF EventInv, Asking
  <2> QED BY <2>2, <2>3 DEF Event!Got, Event!Satisfies
<1>16. Answered'
  <2> SUFFICES ASSUME NEW t \in Woken("wait", Rx)'
               PROVE  /\ want'[t] # {} /\ want'[t] \subseteq asked'[t]
                      /\ option'[t].all => want'[t] = asked'[t]
    BY DEF Answered
  <2>1. CASE t \in W
    BY <1>2, <1>15, <2>1
  <2>2. CASE t \notin W
    <3>1. t \in Woken("wait", Rx) /\ t \in Thread
      BY <1>8, <2>2 DEF Woken
    <3> QED BY <1>2, <2>2, <3>1 DEF EventInv, Answered
  <2> QED BY <2>1, <2>2
\* A bit that is cleared is got once.
<1>17. PICK C : C = {t \in W : option[t].clear}
  OBVIOUS
<1>18. ASSUME NEW t \in C, NEW u \in C, t # u PROVE want'[t] \intersect want'[u] = {}
  <2>1. PICK j \in 1..n, k \in 1..n :
          /\ wait[Rx][j] = t /\ Event!WokenAt(s, j) /\ wait[Rx][k] = u /\ Event!WokenAt(s, k)
    BY <1>2, <1>17
  <2>2. /\ want'[t] = Sight(s, j) /\ want'[u] = Sight(s, k) /\ j # k
        /\ option[t].clear /\ option[u].clear
    BY <1>2, <1>17, <1>18, <2>1
  <2>3. Sight(s, j) \subseteq s[j].set /\ Sight(s, k) \subseteq s[k].set
    BY <2>1 DEF Sight, Event!WokenAt, Event!Got, Event!Satisfies
  <2>4. j \in 1..(n + 1) /\ k \in 1..(n + 1) /\ (j < k => j \in 1..(k - 1)) /\ (k < j => k \in 1..(j - 1))
        /\ (j < k \/ k < j)
    BY <2>2
  <2>5. ScanAt(s, j, new) /\ ScanAt(s, k, new)
    BY <1>2, <2>4
  <2>6. CASE j < k
    <3>1. \A b \in s[k].set : b \notin Sight(s, j)
      BY <2>1, <2>2, <2>4, <2>5, <2>6 DEF ScanAt
    <3> QED BY <2>2, <2>3, <3>1
  <2>7. CASE k < j
    <3>1. \A b \in s[j].set : b \notin Sight(s, k)
      BY <2>1, <2>2, <2>4, <2>5, <2>7 DEF ScanAt
    <3> QED BY <2>2, <2>3, <3>1
  <2> QED BY <2>4, <2>6, <2>7
<1>19. set' = (set \union new) \ UNION {want'[t] : t \in C}
  <2>1. n + 1 \in 1..(n + 1) /\ (n + 1) - 1 = n
    OBVIOUS
  <2>2. ScanAt(s, n + 1, new)
    BY <1>2, <2>1
  <2>3. \A b : b \in set' <=>
          /\ b \in set \union new
          /\ \A j \in 1..n : Event!WokenAt(s, j) /\ option[wait[Rx][j]].clear => b \notin Sight(s, j)
    BY <1>2, <2>1, <2>2 DEF ScanAt
  <2>4. ASSUME NEW b
        PROVE  (\E t \in C : b \in want'[t]) <=>
               \E j \in 1..n : Event!WokenAt(s, j) /\ option[wait[Rx][j]].clear /\ b \in Sight(s, j)
    <3>1. ASSUME NEW t \in C, b \in want'[t]
          PROVE  \E j \in 1..n : Event!WokenAt(s, j) /\ option[wait[Rx][j]].clear /\ b \in Sight(s, j)
      BY <1>2, <1>17, <3>1
    <3>2. ASSUME NEW j \in 1..n, Event!WokenAt(s, j), option[wait[Rx][j]].clear, b \in Sight(s, j)
          PROVE  \E t \in C : b \in want'[t]
      BY <1>2, <1>17, <3>2
    <3> QED BY <3>1, <3>2
  <2> QED BY <2>3, <2>4
<1>20. Event!Clearing = C
  BY <1>10, <1>17 DEF Event!Clearing
<1>21. Event!BitsGoOnceStep
  <2>1. new \in Event!Interest /\ \A t \in Event!Newly : want'[t] \subseteq set \union new
    BY <1>10, <1>15
  <2> QED BY <1>18, <1>19, <1>20, <2>1 DEF Event!BitsGoOnceStep
<1> QED BY <1>8, <1>12, <1>13, <1>14, <1>16, <1>21 DEF EventInv

LEMMA EventNext ==
  EventAssumption /\ EventInv /\ [Event!Next]_Event!vars => EventInv' /\ Event!BitsGoOnceStep
<1> SUFFICES ASSUME EventAssumption, EventInv, [Event!Next]_Event!vars
             PROVE  EventInv' /\ Event!BitsGoOnceStep
  OBVIOUS
<1>1. CASE UNCHANGED Event!vars
  <2>1. UNCHANGED <<waitVars, callVars, set, want, option, asked>> /\ CloseInv
    BY <1>1 DEF Event!vars, Event!objectVars, Event!waitVars, Event!callVars, Event!eventVars,
         waitVars, callVars, EventInv
  <2>2. /\ CloseInv' /\ wait' = wait /\ Woken("wait", Rx)' = Woken("wait", Rx)
    BY <2>1, CloseStand
  <2>3. PICK T : T = {}
    OBVIOUS
  <2>4. /\ EventTypes' /\ set' \subseteq set
        /\ \A x \in Thread : Linked(wait'[Rx], x) => Linked(wait[Rx], x) /\ x \notin T
        /\ \A x \in Thread \ T : want'[x] = want[x] /\ option'[x] = option[x] /\ asked'[x] = asked[x]
        /\ Woken("wait", Rx)' = Woken("wait", Rx) \ T
    BY <2>1, <2>2, <2>3 DEF EventInv, EventTypes
  <2> QED BY <2>2, <2>4, EventQuiet
<1>2. CASE Event!Outside
  BY <1>2, EventOutside
<1>3. ASSUME NEW new \in Event!Interest, Event!Send(new)
      PROVE  EventInv' /\ Event!BitsGoOnceStep
  BY <1>3, EventSend
<1>4. ASSUME NEW t \in Thread, Event!RecvReturn(t) \/ Event!Reset(t)
      PROVE  EventInv' /\ Event!BitsGoOnceStep
  BY <1>4, EventRecvReturn, EventReset
<1>5. ASSUME NEW t \in Thread, NEW w \in Event!Interest, NEW o \in Options,
             Event!RecvNow(t, w, o) \/ \E limited \in Timed : Event!RecvWait(t, w, o, limited)
      PROVE  EventInv' /\ Event!BitsGoOnceStep
  BY <1>5, EventRecvNow, EventRecvWait
<1> QED BY <1>1, <1>2, <1>3, <1>4, <1>5 DEF Event!Next

\* The invariant of the event set, in the words of RtEvent.
LEMMA EventShown ==
  ASSUME EventAssumption, EventInv
  PROVE  Event!TypeOK /\ Event!NobodyWaitsForNothing /\ Event!GotWhatItAskedFor
<1>1. Event!TypeOK
  BY EventFacts DEF EventInv, EventTypes, CloseInv, CallTypeOK, WaitTypeOK, Calling,
       Event!TypeOK, Event!CallTypeOK, Event!WaitTypeOK
<1> QED BY <1>1, EventSame DEF EventInv

\* What the detach leaves behind, of any class.
LEMMA CloseShown ==
  CloseInv => DetachWakesAll /\ ResumesThreads
BY DEF CloseInv, Closing, Ending, DetachWakesAll, ResumesThreads
=============================================================================
