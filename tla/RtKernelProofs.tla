--------------------------- MODULE RtKernelProofs ---------------------------
(***************************************************************************)
(* What RtKernel keeps, for every set of threads, priorities, tick width   *)
(* and time slices, under the application's discipline                     *)
(* (ApplicationAssumption and DetachUnarmed): type correctness and the     *)
(* ready-table invariants, the timers on time, the waiting lists in the    *)
(* order of priority, and the promise of RtWait.                           *)
(***************************************************************************)
EXTENDS RtKernel, RtListProofs

\* The inductive invariant.
IInv == /\ TypeOK /\ ReadyTable /\ BitmapExact /\ WaitersSuspended
        /\ CallsInProgress /\ IdleReady /\ CurrentIsHighest /\ RunnerStarted

-----------------------------------------------------------------------------
(* A family of lists                                                       *)

\* rt_list_remove on a node, seen from a table of lists.
LEMMA UnlinkAllFacts ==
  ASSUME NEW D, NEW S, NEW q \in [D -> Seq(S)], NEW t, \A x \in D : Once(q[x])
  PROVE  /\ UnlinkAll(q, t) \in [D -> Seq(S)]
         /\ \A x \in D : Once(UnlinkAll(q, t)[x])
         /\ \A x \in D : \A m : Linked(UnlinkAll(q, t)[x], m) <=> Linked(q[x], m) /\ m # t
         /\ \A x \in D : ~Linked(q[x], t) => UnlinkAll(q, t)[x] = q[x]
         /\ \A x \in D : UnlinkAll(q, t)[x] # <<>> => q[x] # <<>>
<1> DEFINE r == UnlinkAll(q, t)
<1>1. \A x \in D : r[x] = Unlink(q[x], t)
  BY DEF UnlinkAll
<1>2. DOMAIN r = D /\ r = [x \in D |-> r[x]]
  BY DEF UnlinkAll
<1> HIDE DEF r
<1>3. ASSUME NEW x \in D
      PROVE  /\ r[x] \in Seq(S) /\ Once(r[x])
             /\ \A m : Linked(r[x], m) <=> Linked(q[x], m) /\ m # t
             /\ ~Linked(q[x], t) => r[x] = q[x]
  <2>1. q[x] \in Seq(S) /\ Once(q[x])
    OBVIOUS
  <2> QED BY <2>1, <1>1, UnlinkFacts
<1>4. ASSUME NEW x \in D, r[x] # <<>> PROVE q[x] # <<>>
  <2>1. Linked(r[x], Head(r[x]))
    BY <1>3, <1>4, HeadFacts
  <2> QED BY <2>1, <1>3, HeadFacts
<1>5. r \in [D -> Seq(S)]
  BY <1>2, <1>3
<1> QED BY <1>3, <1>4, <1>5 DEF r

\* rt_list_insert_before on the head of one list of a table.
LEMMA LinkAtFacts ==
  ASSUME NEW q \in [Prio -> Seq(Thread)], NEW d \in Prio, NEW t \in Thread,
         \A x \in Prio : Once(q[x]) /\ ~Linked(q[x], t)
  PROVE  /\ LinkAt(q, d, t) \in [Prio -> Seq(Thread)]
         /\ \A x \in Prio : Once(LinkAt(q, d, t)[x])
         /\ \A x \in Prio : \A m : Linked(LinkAt(q, d, t)[x], m) <=> Linked(q[x], m) \/ (x = d /\ m = t)
         /\ \A x \in Prio : LinkAt(q, d, t)[x] # <<>> <=> q[x] # <<>> \/ x = d
<1> DEFINE r == LinkAt(q, d, t)
<1>1. /\ DOMAIN r = Prio /\ r = [x \in Prio |-> r[x]]
      /\ r[d] = LinkLast(q[d], t)
      /\ \A x \in Prio : x # d => r[x] = q[x]
  BY DEF LinkAt
<1> HIDE DEF r
<1>2. /\ LinkLast(q[d], t) \in Seq(Thread) /\ Once(LinkLast(q[d], t))
      /\ \A m : Linked(LinkLast(q[d], t), m) <=> Linked(q[d], m) \/ m = t
      /\ LinkLast(q[d], t) # <<>>
  BY LinkLastFacts
<1>3. \A x \in Prio : r[x] \in Seq(Thread) /\ Once(r[x])
  BY <1>1, <1>2
<1>4. r \in [Prio -> Seq(Thread)]
  BY <1>1, <1>3
<1>5. \A x \in Prio : \A m : Linked(r[x], m) <=> Linked(q[x], m) \/ (x = d /\ m = t)
  BY <1>1, <1>2
<1>6. \A x \in Prio : r[x] # <<>> <=> q[x] # <<>> \/ x = d
  BY <1>1, <1>2
<1> QED BY <1>3, <1>4, <1>5, <1>6 DEF r

\* __rt_ffs finds a bit of a non-empty bitmap.
LEMMA HighestFacts ==
  ASSUME NEW g \in SUBSET Prio, g # {}
  PROVE  Highest(g) \in g /\ Highest(g) \in Prio /\ \A r \in g : Highest(g) <= r
<1>1. g \subseteq Nat
  BY PrioAssumption DEF Prio
<1>2. \E p \in g : \A r \in g : p <= r
  BY <1>1, Least
<1> QED BY <1>2 DEF Highest

\* rt_schedule picks a thread of the table when no bit of the map is stale.
LEMMA ChoiceFacts ==
  ASSUME NEW q \in [Prio -> Seq(Thread)], NEW g \in SUBSET Prio, g # {},
         \A p \in g : q[p] # <<>>
  PROVE  /\ Choice(q, g) \in Thread
         /\ \E p \in Prio : Linked(q[p], Choice(q, g))
<1>1. Highest(g) \in g /\ Highest(g) \in Prio
  BY HighestFacts
<1>2. q[Highest(g)] \in Seq(Thread) /\ q[Highest(g)] # <<>>
  BY <1>1
<1> QED BY <1>1, <1>2, HeadFacts DEF Choice

\* With the scheduler unlocked the bitmap has no stale bit, so rt_schedule finds
\* a ready thread, in the state q, g that a step leads to.
LEMMA ScheduledFacts ==
  ASSUME NEW q \in [Prio -> Seq(Thread)], NEW g \in SUBSET Prio,
         cur \in Thread, \E p \in Prio : Linked(q[p], Idle),
         \A p \in Prio : q[p] # <<>> => p \in g,
         lock = 0 => \A p \in g : q[p] # <<>>
  PROVE  /\ Scheduled(q, g) \in Thread
         /\ lock = 0 => \E p \in Prio : Linked(q[p], Scheduled(q, g))
         /\ lock # 0 => Scheduled(q, g) = cur
<1>1. g # {}
  BY HeadFacts
<1>2. lock = 0 => Choice(q, g) \in Thread /\ \E p \in Prio : Linked(q[p], Choice(q, g))
  BY <1>1, ChoiceFacts
<1> QED BY <1>2 DEF Scheduled

-----------------------------------------------------------------------------
(* The windows of rt_thread_resume and rt_thread_detach                    *)

Windows == {"res_unlink", "res_insert", "det_timer", "det_close"}

\* Unless the running thread is in such a window with the scheduler locked, no
\* thread is: then the table and its bitmap are exact.
LEMMA NoWindow ==
  ASSUME IInv, lock = 0 \/ pc[cur] \notin Windows
  PROVE  /\ \A x \in Thread : pc[x] \notin Windows
         /\ \A p \in Prio : p \in group <=> ready[p] # <<>>
         /\ \A t \in Thread : stat[t] = "READY" => Linked(ready[prio[t]], t)
<1>1. ASSUME NEW x \in Thread, pc[x] \in Windows PROVE FALSE
  <2>1. /\ pc[x] \in ClaimLabels \ {"start_insert"} /\ pc[x] # "susp"
        /\ cur \in Thread
    BY <1>1 DEF Windows, ClaimLabels, IInv, TypeOK
  <2>2. lock > 0 /\ x = cur
    BY <2>1 DEF IInv, CallsInProgress
  <2> QED BY <2>2, <1>1 DEF IInv, TypeOK
<1>2. \A p \in Prio : p \in group <=> ready[p] # <<>>
  BY <1>1 DEF IInv, BitmapExact, Windows
<1>3. \A t \in Thread : stat[t] = "READY" => Linked(ready[prio[t]], t)
  BY <1>1 DEF IInv, ReadyTable, InTransit, Windows
<1> QED BY <1>1, <1>2, <1>3

\* The idle thread is always in the table.
LEMMA IdleLinked ==
  ASSUME IInv
  PROVE  Linked(ready[prio[Idle]], Idle) /\ prio[Idle] \in Prio
<1>1. ~InTransit(Idle)
  BY DEF IInv, CallsInProgress, InTransit, ClaimLabels
<1> QED BY <1>1, ThreadAssumption DEF IInv, ReadyTable, IdleReady, TypeOK

\* A thread that runs its own code with the scheduler unlocked is ready.
LEMMA RunnerReady ==
  ASSUME IInv, lock = 0, pc[cur] = "run"
  PROVE  stat[cur] = "READY"
<1>1. /\ ready \in [Prio -> Seq(Thread)] /\ group \in SUBSET Prio
      /\ \A p \in group : ready[p] # <<>>
  BY NoWindow DEF IInv, TypeOK
<1>2. group # {}
  BY IdleLinked, HeadFacts, <1>1 DEF IInv, BitmapExact
<1>3. cur = Choice(ready, group)
  BY DEF IInv, CurrentIsHighest, SchedLabels
<1>4. \E p \in Prio : Linked(ready[p], cur)
  BY <1>1, <1>2, <1>3, ChoiceFacts
<1> QED BY <1>4 DEF IInv, ReadyTable, TypeOK

-----------------------------------------------------------------------------
(* What the list operations of an action do                                *)

\* rt_schedule_remove_thread: the bitmap stays exact, but for bits that were
\* stale before.
LEMMA RemoveReadyFacts ==
  ASSUME IInv, NEW s \in Thread, RemoveReady(s)
  PROVE  /\ ready' \in [Prio -> Seq(Thread)] /\ group' \in SUBSET Prio
         /\ \A p \in Prio : Once(ready'[p])
         /\ \A p \in Prio : \A m : Linked(ready'[p], m) <=> Linked(ready[p], m) /\ m # s
         /\ \A p \in Prio : ready'[p] # <<>> => p \in group'
         /\ \A p \in Prio : p \in group' => ready'[p] # <<>> \/ (p \in group /\ ready[p] = <<>>)
<1>1. /\ ready \in [Prio -> Seq(Thread)] /\ group \in SUBSET Prio /\ prio[s] \in Prio
      /\ \A p \in Prio : Once(ready[p])
      /\ \A p \in Prio : p # prio[s] => ~Linked(ready[p], s)
      /\ \A p \in Prio : ready[p] # <<>> => p \in group
  BY DEF IInv, TypeOK, ReadyTable, BitmapExact
<1>2. /\ ready' = UnlinkAll(ready, s)
      /\ group' = IF ready'[prio[s]] = <<>> THEN group \ {prio[s]} ELSE group
  BY DEF RemoveReady, GroupWithout
<1>3. /\ ready' \in [Prio -> Seq(Thread)]
      /\ \A p \in Prio : Once(ready'[p])
      /\ \A p \in Prio : \A m : Linked(ready'[p], m) <=> Linked(ready[p], m) /\ m # s
      /\ \A p \in Prio : ~Linked(ready[p], s) => ready'[p] = ready[p]
      /\ \A p \in Prio : ready'[p] # <<>> => ready[p] # <<>>
  <2>1. ready \in [Prio -> Seq(Thread)] /\ \A p \in Prio : Once(ready[p])
    BY <1>1
  <2>2. /\ UnlinkAll(ready, s) \in [Prio -> Seq(Thread)]
        /\ \A p \in Prio : Once(UnlinkAll(ready, s)[p])
        /\ \A p \in Prio : \A m : Linked(UnlinkAll(ready, s)[p], m) <=> Linked(ready[p], m) /\ m # s
        /\ \A p \in Prio : ~Linked(ready[p], s) => UnlinkAll(ready, s)[p] = ready[p]
        /\ \A p \in Prio : UnlinkAll(ready, s)[p] # <<>> => ready[p] # <<>>
    BY <2>1, UnlinkAllFacts, ZenonT(40)
  <2> QED BY <2>2, <1>2
<1>4. /\ group' \in SUBSET Prio
      /\ \A p \in Prio : ready'[p] # <<>> => p \in group'
      /\ \A p \in Prio : p \in group' => ready'[p] # <<>> \/ (p \in group /\ ready[p] = <<>>)
  BY <1>1, <1>2, <1>3
<1> QED BY <1>3, <1>4

\* The unlinking of a thread from the list of the object it waits on.
LEMMA UnlinkWaitFacts ==
  ASSUME IInv, NEW s \in Thread, waitq' = UnlinkAll(waitq, s)
  PROVE  /\ waitq' \in [Ipc -> Seq(Thread)]
         /\ \A o \in Ipc : Once(waitq'[o])
         /\ \A o \in Ipc : \A m : Linked(waitq'[o], m) <=> Linked(waitq[o], m) /\ m # s
<1>1. waitq \in [Ipc -> Seq(Thread)] /\ \A o \in Ipc : Once(waitq[o])
  BY DEF IInv, TypeOK, WaitersSuspended
<1>2. /\ UnlinkAll(waitq, s) \in [Ipc -> Seq(Thread)]
      /\ \A o \in Ipc : Once(UnlinkAll(waitq, s)[o])
      /\ \A o \in Ipc : \A m : Linked(UnlinkAll(waitq, s)[o], m) <=> Linked(waitq[o], m) /\ m # s
  BY <1>1, UnlinkAllFacts
<1> QED BY <1>2

\* rt_schedule_insert_thread of a thread that is on no list of table q.
LEMMA InsertThreadFacts ==
  ASSUME TypeOK, NEW s \in Thread, NEW q \in [Prio -> Seq(Thread)],
         \A p \in Prio : Once(q[p]) /\ ~Linked(q[p], s), InsertThread(q, s)
  PROVE  /\ ready' \in [Prio -> Seq(Thread)] /\ group' \in SUBSET Prio
         /\ \A p \in Prio : Once(ready'[p])
         /\ \A p \in Prio : \A m : Linked(ready'[p], m) <=> Linked(q[p], m) \/ (p = prio[s] /\ m = s)
         /\ \A p \in Prio : ready'[p] # <<>> <=> q[p] # <<>> \/ p = prio[s]
         /\ group' = group \union {prio[s]}
         /\ stat' = [stat EXCEPT ![s] = "READY"]
<1>1. /\ ready' = LinkAt(q, prio[s], s)
      /\ group' = group \union {prio[s]}
      /\ stat' = [stat EXCEPT ![s] = "READY"]
      /\ prio[s] \in Prio /\ group \in SUBSET Prio
  BY DEF InsertThread, TypeOK
<1>2. /\ ready' \in [Prio -> Seq(Thread)]
      /\ \A p \in Prio : Once(ready'[p])
      /\ \A p \in Prio : \A m : Linked(ready'[p], m) <=> Linked(q[p], m) \/ (p = prio[s] /\ m = s)
      /\ \A p \in Prio : ready'[p] # <<>> <=> q[p] # <<>> \/ p = prio[s]
  <2> DEFINE d == prio[s]
  <2>0. d \in Prio
    BY <1>1
  <2> HIDE DEF d
  <2>1. /\ LinkAt(q, d, s) \in [Prio -> Seq(Thread)]
        /\ \A p \in Prio : Once(LinkAt(q, d, s)[p])
        /\ \A p \in Prio : \A m : Linked(LinkAt(q, d, s)[p], m)
                               <=> Linked(q[p], m) \/ (p = d /\ m = s)
        /\ \A p \in Prio : LinkAt(q, d, s)[p] # <<>> <=> q[p] # <<>> \/ p = d
    BY <2>0, LinkAtFacts, ZenonT(40)
  <2> QED BY <2>1, <1>1 DEF d
<1> QED BY <1>1, <1>2

\* rt_timer_stop.
LEMMA StopTimerFacts ==
  ASSUME TypeOK, Once(tmrs), NEW s \in Thread, StopTimer(s)
  PROVE  /\ tmrs' \in Seq(Thread) /\ due' \in [Thread -> Tick] /\ Once(tmrs')
         /\ \A m : Linked(tmrs', m) <=> Linked(tmrs, m) /\ m # s
<1>1. tmrs' = Unlink(tmrs, s) /\ due' = [due EXCEPT ![s] = 0]
  BY DEF StopTimer
<1>2. tmrs \in Seq(Thread) /\ due \in [Thread -> Tick]
  BY DEF TypeOK
<1>3. 0 \in Tick
  BY TickAssumption DEF Tick
<1>4. /\ tmrs' \in Seq(Thread) /\ Once(tmrs')
      /\ \A m : Linked(tmrs', m) <=> Linked(tmrs, m) /\ m # s
  BY <1>1, <1>2, UnlinkFacts
<1> QED BY <1>1, <1>2, <1>3, <1>4

\* rt_timer_start.
LEMMA StartTimerFacts ==
  ASSUME TypeOK, Once(tmrs), NEW s \in Thread, NEW n \in Nat, StartTimer(s, n)
  PROVE  /\ tmrs' \in Seq(Thread) /\ due' \in [Thread -> Tick] /\ Once(tmrs')
         /\ \A m : Linked(tmrs', m) <=> Linked(tmrs, m) \/ m = s
<1> DEFINE d == (tick + n) % TickMod
           l == Unlink(tmrs, s)
           S == {u \in Thread : ExpiresAfter(u, d)}
<1>1. tmrs' = LinkBefore(l, s, S) /\ due' = [due EXCEPT ![s] = d]
  BY DEF StartTimer
<1>2. tmrs \in Seq(Thread) /\ due \in [Thread -> Tick] /\ tick \in Tick
  BY DEF TypeOK
<1>3. d \in Tick
  BY <1>2, TickAssumption DEF Tick
<1>4. /\ l \in Seq(Thread) /\ Once(l)
      /\ \A m : Linked(l, m) <=> Linked(tmrs, m) /\ m # s
  BY <1>2, UnlinkFacts
<1> HIDE DEF l, S, d
<1>5. /\ tmrs' \in Seq(Thread) /\ Once(tmrs')
      /\ \A m : Linked(tmrs', m) <=> Linked(l, m) \/ m = s
  BY <1>1, <1>4, LinkBeforeFacts
<1> QED BY <1>1, <1>2, <1>3, <1>4, <1>5

-----------------------------------------------------------------------------
(* Steps that leave the lists alone                                        *)

\* Everything the table invariants look at.
tableVars == <<ready, group, stat, prio, tmrs, waitq>>

\* Such a step keeps them all if it neither ends nor opens a window.
LEMMA TableKept ==
  ASSUME IInv, UNCHANGED tableVars,
         \A x \in Thread : pc[x] \in Windows => pc'[x] = pc[x] /\ arg'[x] = arg[x],
         \A x \in Thread : pc[x] = "res_insert" => lock' > 0
  PROVE  ReadyTable' /\ BitmapExact' /\ WaitersSuspended' /\ IdleReady'
<1>1. \A t \in Thread : InTransit(t) => InTransit(t)'
  BY DEF InTransit, Windows
<1>2. ReadyTable'
  BY <1>1 DEF IInv, ReadyTable, tableVars
<1>3. BitmapExact'
  BY DEF IInv, BitmapExact, tableVars, Windows
<1>4. WaitersSuspended' /\ IdleReady'
  BY DEF IInv, WaitersSuspended, IdleReady, tableVars
<1> QED BY <1>2, <1>3, <1>4

\* A step that opens no window keeps what is known about the open ones, when it
\* leaves the threads they are about alone and the lock with its holder.
LEMMA CallsKept ==
  ASSUME IInv,
         \A x \in Thread : pc'[x] \in ClaimLabels => pc'[x] = pc[x] /\ arg'[x] = arg[x],
         lock > 0 /\ pc[cur] \in ClaimLabels => lock' > 0 /\ cur' = cur,
         \A x \in Thread : pc'[x] \in ClaimLabels =>
           \/ stat'[arg[x]] = stat[arg[x]]
           \/ pc[x] = "res_unlink" /\ stat'[arg[x]] = "READY",
         \A s \in Thread : Loose(s) => Loose(s)' \/ \A x \in Thread : pc'[x] \in ClaimLabels => arg[x] # s
  PROVE  CallsInProgress'
<1> SUFFICES ASSUME NEW x \in Thread, pc'[x] \in ClaimLabels
    PROVE  LET s == arg[x] IN
      /\ \A y \in Thread : pc'[y] \in ClaimLabels /\ arg'[y] = s => x = y
      /\ pc[x] = "start_insert" => stat'[s] = "SUSPEND"
      /\ pc[x] \in {"res_unlink", "res_insert"} => stat'[s] \in {"SUSPEND", "READY"}
      /\ pc[x] \in {"det_timer", "det_close"} => stat'[s] # "CLOSE" /\ s # x
      /\ pc[x] = "susp" => stat'[s] = "READY"
      /\ pc[x] \in {"start_insert", "res_insert", "det_timer", "det_close"} => Loose(s)'
      /\ pc[x] \in ClaimLabels \ {"start_insert"} =>
           s # Idle /\ ((lock' > 0 /\ x = cur') \/ (pc[x] = "susp" /\ s = x))
  BY DEF CallsInProgress, ClaimLabels
<1>1. /\ pc'[x] = pc[x] /\ arg'[x] = arg[x] /\ arg[x] \in Thread
      /\ pc[x] \in ClaimLabels
  BY DEF IInv, TypeOK
<1>2. /\ \A y \in Thread :
           pc[x] \in ClaimLabels /\ pc[y] \in ClaimLabels /\ arg[y] = arg[x] => x = y
      /\ pc[x] = "start_insert" => stat[arg[x]] = "SUSPEND"
      /\ pc[x] \in {"res_unlink", "res_insert"} => stat[arg[x]] \in {"SUSPEND", "READY"}
      /\ pc[x] \in {"det_timer", "det_close"} => stat[arg[x]] # "CLOSE" /\ arg[x] # x
      /\ pc[x] = "susp" => stat[arg[x]] = "READY"
      /\ pc[x] \in {"start_insert", "res_insert", "det_timer", "det_close"} => Loose(arg[x])
      /\ pc[x] \in ClaimLabels \ {"start_insert"} =>
           arg[x] # Idle /\ ((lock > 0 /\ x = cur) \/ (pc[x] = "susp" /\ arg[x] = x))
  BY DEF IInv, CallsInProgress
<1>3. Loose(arg[x]) => Loose(arg[x])'
  BY <1>1
<1>4. stat'[arg[x]] = stat[arg[x]] \/ (pc[x] = "res_unlink" /\ stat'[arg[x]] = "READY")
  BY <1>1
<1> QED BY <1>1, <1>2, <1>3, <1>4

\* A step of the running thread t that opens or advances a window about s.
LEMMA CallsMoved ==
  ASSUME IInv, NEW t \in Thread, NEW s \in Thread, NEW l \in ClaimLabels,
         cur = t, cur' = cur, lock' = lock,
         pc' = [pc EXCEPT ![t] = l], arg' = [arg EXCEPT ![t] = s],
         \A x \in Thread \ {t} : pc[x] \in ClaimLabels => arg[x] # s,
         \A u \in Thread \ {s} : stat'[u] = stat[u] /\ (Loose(u) => Loose(u)'),
         l = "start_insert" => stat'[s] = "SUSPEND",
         l \in {"res_unlink", "res_insert"} => stat'[s] \in {"SUSPEND", "READY"},
         l \in {"det_timer", "det_close"} => stat'[s] # "CLOSE" /\ s # t,
         l = "susp" => stat'[s] = "READY",
         l \in {"start_insert", "res_insert", "det_timer", "det_close"} => Loose(s)',
         l # "start_insert" => s # Idle /\ (lock > 0 \/ (l = "susp" /\ s = t))
  PROVE  CallsInProgress'
<1>1. pc'[t] = l /\ arg'[t] = s
  BY DEF IInv, TypeOK
<1>2. ASSUME NEW x \in Thread \ {t}, pc'[x] \in ClaimLabels
      PROVE  /\ pc'[x] = pc[x] /\ arg'[x] = arg[x] /\ arg[x] \in Thread \ {s}
             /\ \A y \in Thread \ {t} : pc'[y] \in ClaimLabels /\ arg'[y] = arg[x] => x = y
             /\ pc[x] = "start_insert" => stat'[arg[x]] = "SUSPEND"
             /\ pc[x] \in {"start_insert", "susp"}
             /\ pc[x] = "susp" => stat'[arg[x]] = "READY" /\ arg[x] = x
             /\ pc[x] = "start_insert" => Loose(arg[x])'
             /\ pc[x] # "start_insert" => arg[x] # Idle
  BY <1>2, <1>1 DEF IInv, TypeOK, CallsInProgress, ClaimLabels
<1>3. ASSUME NEW x \in Thread, NEW y \in Thread,
             pc'[x] \in ClaimLabels, pc'[y] \in ClaimLabels, arg'[y] = arg'[x]
      PROVE  x = y
  BY <1>1, <1>2, <1>3
<1>4. ASSUME NEW x \in Thread
      PROVE  /\ pc'[x] = "start_insert" => stat'[arg'[x]] = "SUSPEND"
             /\ pc'[x] \in {"res_unlink", "res_insert"} => stat'[arg'[x]] \in {"SUSPEND", "READY"}
             /\ pc'[x] \in {"det_timer", "det_close"} => stat'[arg'[x]] # "CLOSE" /\ arg'[x] # x
             /\ pc'[x] = "susp" => stat'[arg'[x]] = "READY"
             /\ pc'[x] \in {"start_insert", "res_insert", "det_timer", "det_close"} => Loose(arg[x])'
             /\ pc'[x] \in ClaimLabels \ {"start_insert"} =>
                  arg'[x] # Idle /\ ((lock' > 0 /\ x = cur') \/ (pc'[x] = "susp" /\ arg'[x] = x))
  <2>1. CASE x = t
    BY <2>1, <1>1 DEF Loose
  <2>2. CASE x # t /\ pc'[x] \in ClaimLabels
    BY <2>2, <1>2 DEF ClaimLabels, Loose
  <2>3. CASE pc'[x] \notin ClaimLabels
    BY <2>3 DEF ClaimLabels
  <2> QED BY <2>1, <2>2, <2>3
<1>5. ASSUME NEW x \in Thread, NEW y \in Thread
      PROVE  pc'[x] \in ClaimLabels /\ pc'[y] \in ClaimLabels /\ arg'[y] = arg'[x] => x = y
  BY <1>3
<1> QED BY <1>4, <1>5 DEF CallsInProgress

\* A thread that is neither READY nor SUSPEND is on no list.
LEMMA OtherLoose ==
  ASSUME IInv, NEW s \in Thread, stat[s] \notin {"READY", "SUSPEND"}
  PROVE  Loose(s)
BY DEF IInv, ReadyTable, WaitersSuspended, Loose

LEMMA ScheduleStep ==
  ASSUME IInv, NEW t \in Thread, Schedule(t)
  PROVE  IInv'
<1>1. /\ UNCHANGED <<tableVars, lock, tick, slice, due, err, arg, isr>>
      /\ cur = t /\ pc[t] \in SchedLabels
      /\ cur' = Scheduled(ready, group)
      /\ pc' = [pc EXCEPT ![t] = AfterSched(pc[t])]
  BY DEF Schedule, Goto, tableVars, schedVars, timeVars, tmrVars
<1>2. AfterSched(pc[t]) \in {"run", "sleep_ret", "ipc_ret"}
  BY <1>1 DEF SchedLabels, AfterSched
<1>3. \A x \in Thread : pc[x] \notin Windows /\ pc'[x] \notin Windows
  BY <1>1, <1>2, NoWindow DEF Windows, SchedLabels, IInv, TypeOK
<1>4. /\ cur' \in Thread
      /\ lock = 0 => \E p \in Prio : Linked(ready[p], cur')
      /\ lock # 0 => cur' = cur
  <2>1. /\ ready \in [Prio -> Seq(Thread)] /\ group \in SUBSET Prio /\ cur \in Thread
        /\ \E p \in Prio : Linked(ready[p], Idle)
        /\ \A p \in Prio : p \in group <=> ready[p] # <<>>
    BY <1>1, <1>3, NoWindow, IdleLinked DEF IInv, TypeOK
  <2> QED BY <2>1, <1>1, ScheduledFacts
<1>5. TypeOK'
  BY <1>1, <1>2, <1>4 DEF IInv, TypeOK, Labels, tableVars
<1>6. ReadyTable' /\ BitmapExact' /\ WaitersSuspended' /\ IdleReady'
  BY <1>1, <1>3, TableKept DEF Windows
<1>7. CallsInProgress'
  BY <1>1, <1>2, <1>3 DEF IInv, TypeOK, CallsInProgress, ClaimLabels, Windows, Loose, tableVars
<1>8. CurrentIsHighest'
  BY <1>1 DEF CurrentIsHighest, Scheduled, tableVars, Choice, Highest
<1>9. RunnerStarted'
  <2>1. lock = 0 => stat[cur'] = "READY"
    BY <1>4 DEF IInv, ReadyTable
  <2>2. \A x \in Thread : pc'[x] = "start_insert" => pc[x] = "start_insert" /\ stat[arg[x]] = "SUSPEND"
    BY <1>1, <1>2 DEF IInv, TypeOK, CallsInProgress
  <2> QED BY <2>1, <2>2, <1>1, <1>4 DEF IInv, RunnerStarted, tableVars, TypeOK
<1> QED BY <1>5, <1>6, <1>7, <1>8, <1>9 DEF IInv

LEMMA EnterCriticalStep ==
  ASSUME IInv, NEW t \in Thread, EnterCritical(t)
  PROVE  IInv'
<1>1. /\ UNCHANGED <<tableVars, cur, tick, slice, due, err, pc, arg, isr>>
      /\ cur = t /\ pc[t] = "run" /\ lock < MaxNest /\ lock' = lock + 1
  BY DEF EnterCritical, At, tableVars, schedVars, timeVars, tmrVars, callVars
<1>2. TypeOK' /\ lock' > 0
  BY <1>1, ApplicationAssumption DEF IInv, TypeOK, tableVars
<1>3. ReadyTable' /\ BitmapExact' /\ WaitersSuspended' /\ IdleReady'
  BY <1>1, <1>2, TableKept
<1>4. \A s : Loose(s) => Loose(s)'
  BY <1>1 DEF Loose, tableVars
<1>5. CallsInProgress'
  BY <1>1, <1>2, <1>4, CallsKept DEF tableVars
<1>6. CurrentIsHighest' /\ RunnerStarted'
  BY <1>1, <1>2 DEF IInv, CurrentIsHighest, RunnerStarted, tableVars
<1> QED BY <1>2, <1>3, <1>5, <1>6 DEF IInv

LEMMA ExitCriticalStep ==
  ASSUME IInv, NEW t \in Thread, ExitCritical(t)
  PROVE  IInv'
<1>1. /\ UNCHANGED <<tableVars, cur, tick, slice, due, err, arg, isr>>
      /\ cur = t /\ pc[t] = "run"
      /\ lock' = IF lock <= 1 THEN 0 ELSE lock - 1
      /\ pc' = [pc EXCEPT ![t] = IF lock <= 1 THEN "sched" ELSE "run"]
  BY DEF ExitCritical, At, Goto, tableVars, schedVars, timeVars, tmrVars
<1>2. TypeOK'
  BY <1>1, ApplicationAssumption DEF IInv, TypeOK, Labels, tableVars
<1>3. \A x \in Thread : pc[x] \notin Windows
  BY <1>1, NoWindow DEF Windows
<1>4. ReadyTable' /\ BitmapExact' /\ WaitersSuspended' /\ IdleReady'
  BY <1>3, <1>1, TableKept DEF Windows
<1>5. \A s : Loose(s) => Loose(s)'
  BY <1>1 DEF Loose, tableVars
<1>6. pc[cur] \notin ClaimLabels /\ \A x \in Thread : pc'[x] \in ClaimLabels => pc'[x] = pc[x]
  BY <1>1 DEF ClaimLabels, IInv, TypeOK
<1>7. CallsInProgress'
  BY <1>1, <1>5, <1>6, CallsKept DEF tableVars
<1>8. CurrentIsHighest'
  BY <1>1, <1>2 DEF IInv, TypeOK, CurrentIsHighest, SchedLabels, tableVars
<1>9. RunnerStarted'
  BY <1>1, <1>2 DEF IInv, TypeOK, RunnerStarted, tableVars
<1> QED BY <1>2, <1>4, <1>7, <1>8, <1>9 DEF IInv

\* SleepReturn and IpcReturn: the thread is back in its own code.
LEMMA ReturnStep ==
  ASSUME IInv, NEW t \in Thread, SleepReturn(t) \/ IpcReturn(t)
  PROVE  IInv'
<1>1. /\ UNCHANGED <<tableVars, cur, lock, tick, slice, due, arg, isr>>
      /\ cur = t /\ pc[t] \in {"sleep_ret", "ipc_ret"}
      /\ err' \in [Thread -> {"OK", "ETIMEOUT"}]
      /\ pc' = [pc EXCEPT ![t] = "run"]
  BY DEF SleepReturn, IpcReturn, At, Goto, tableVars, schedVars, timeVars, tmrVars, IInv, TypeOK
<1>2. TypeOK'
  BY <1>1 DEF IInv, TypeOK, Labels, tableVars
<1>3. \A x \in Thread : pc[x] \notin Windows
  BY <1>1, NoWindow DEF Windows
<1>4. ReadyTable' /\ BitmapExact' /\ WaitersSuspended' /\ IdleReady'
  BY <1>3, <1>1, TableKept DEF Windows
<1>5. \A s : Loose(s) => Loose(s)'
  BY <1>1 DEF Loose, tableVars
<1>6. pc[cur] \notin ClaimLabels /\ \A x \in Thread : pc'[x] \in ClaimLabels => pc'[x] = pc[x]
  BY <1>1 DEF ClaimLabels, IInv, TypeOK
<1>7. CallsInProgress'
  BY <1>1, <1>5, <1>6, CallsKept DEF tableVars
<1>8. CurrentIsHighest'
  BY <1>1, <1>2 DEF IInv, TypeOK, CurrentIsHighest, SchedLabels, tableVars
<1>9. RunnerStarted'
  BY <1>1, <1>2 DEF IInv, TypeOK, RunnerStarted, tableVars
<1> QED BY <1>2, <1>4, <1>7, <1>8, <1>9 DEF IInv

LEMMA TickReturnStep ==
  ASSUME IInv, TickReturn
  PROVE  IInv'
<1>1. UNCHANGED <<tableVars, cur, lock, tick, slice, due, err, pc, arg>> /\ isr' = "none"
  BY DEF TickReturn, tableVars, schedVars, timeVars, tmrVars, callVars
<1>2. TypeOK'
  BY <1>1 DEF IInv, TypeOK, tableVars
<1>3. \A x \in Thread : pc[x] = "res_insert" => lock' > 0
  BY <1>1 DEF IInv, CallsInProgress, ClaimLabels
<1>4. ReadyTable' /\ BitmapExact' /\ WaitersSuspended' /\ IdleReady'
  BY <1>3, <1>1, TableKept
<1>5. \A s : Loose(s) => Loose(s)'
  BY <1>1 DEF Loose, tableVars
<1>6. CallsInProgress'
  BY <1>1, <1>5, CallsKept DEF tableVars
<1>7. CurrentIsHighest' /\ RunnerStarted'
  BY <1>1 DEF IInv, CurrentIsHighest, RunnerStarted, Choice, Highest, tableVars
<1> QED BY <1>2, <1>4, <1>6, <1>7 DEF IInv

-----------------------------------------------------------------------------
(* Steps that open a window                                                *)

LEMMA ThreadStartupStep ==
  ASSUME IInv, NEW t \in Thread, NEW s \in Thread, ThreadStartup(t, s)
  PROVE  IInv'
<1>1. /\ UNCHANGED <<ready, group, tmrs, waitq, cur, lock, tick, slice, due, err, isr>>
      /\ cur = t /\ pc[t] = "run" /\ stat[s] = "INIT"
      /\ \A x \in Thread : pc[x] \in ClaimLabels => arg[x] # s
      /\ prio' = [prio EXCEPT ![s] = InitPrio[s]]
      /\ stat' = [stat EXCEPT ![s] = "SUSPEND"]
      /\ pc' = [pc EXCEPT ![t] = "start_insert"] /\ arg' = [arg EXCEPT ![t] = s]
  BY DEF ThreadStartup, At, Call, Unclaimed, timeVars, tmrVars
<1>2. TypeOK'
  BY <1>1, PrioAssumption DEF IInv, TypeOK, Labels
<1>3. /\ \A x \in Thread : pc[x] \notin Windows
      /\ \A p \in Prio : p \in group <=> ready[p] # <<>>
      /\ \A u \in Thread : stat[u] = "READY" => Linked(ready[prio[u]], u)
  BY <1>1, NoWindow DEF Windows
<1>4. Loose(s) /\ \A u : Loose(u) => Loose(u)'
  BY <1>1, OtherLoose DEF Loose
<1>5. ReadyTable'
  BY <1>1, <1>3, <1>4 DEF IInv, TypeOK, ReadyTable, Loose
<1>6. BitmapExact'
  BY <1>1, <1>3 DEF BitmapExact
<1>7. WaitersSuspended' /\ IdleReady'
  BY <1>1, <1>4, ThreadAssumption DEF IInv, TypeOK, WaitersSuspended, IdleReady, Loose
<1>8. CallsInProgress'
  <2>1. "start_insert" \in ClaimLabels /\ stat'[s] = "SUSPEND" /\ Loose(s)'
    BY <1>1, <1>4 DEF ClaimLabels, IInv, TypeOK
  <2>2. \A u \in Thread \ {s} : stat'[u] = stat[u] /\ (Loose(u) => Loose(u)')
    BY <1>1, <1>4 DEF IInv, TypeOK
  <2> QED BY <2>1, <2>2, <1>1, CallsMoved, ZenonT(40)
<1>9. CurrentIsHighest' /\ RunnerStarted'
  BY <1>1 DEF IInv, TypeOK, CurrentIsHighest, RunnerStarted
<1> QED BY <1>2, <1>5, <1>6, <1>7, <1>8, <1>9 DEF IInv

LEMMA ThreadResumeStep ==
  ASSUME IInv, NEW t \in Thread, NEW s \in Movable, ThreadResume(t, s)
  PROVE  IInv'
<1>1. /\ UNCHANGED <<tableVars, cur, lock, tick, slice, due, err, isr>>
      /\ cur = t /\ pc[t] = "run" /\ stat[s] = "SUSPEND" /\ lock > 0
      /\ \A x \in Thread : pc[x] \in ClaimLabels => arg[x] # s
      /\ pc' = [pc EXCEPT ![t] = "res_unlink"] /\ arg' = [arg EXCEPT ![t] = s]
      /\ s \in Thread /\ s # Idle
  BY ApplicationAssumption
     DEF ThreadResume, At, Call, Exclusive, Unclaimed, tableVars, schedVars, timeVars, tmrVars
<1>2. TypeOK'
  BY <1>1 DEF IInv, TypeOK, Labels, tableVars
<1>3. \A x \in Thread : pc[x] \notin Windows
  BY <1>1, NoWindow DEF Windows
<1>4. ReadyTable' /\ BitmapExact' /\ WaitersSuspended' /\ IdleReady'
  BY <1>1, <1>3, TableKept
<1>5. \A u \in Thread \ {s} : stat'[u] = stat[u] /\ (Loose(u) => Loose(u)')
  BY <1>1 DEF Loose, tableVars
<1>6. CallsInProgress'
  <2>1. "res_unlink" \in ClaimLabels /\ stat'[s] = "SUSPEND"
    BY <1>1 DEF ClaimLabels, tableVars
  <2> QED BY <2>1, <1>1, <1>5, CallsMoved
<1>7. CurrentIsHighest' /\ RunnerStarted'
  BY <1>1 DEF IInv, TypeOK, CurrentIsHighest, RunnerStarted, tableVars
<1> QED BY <1>2, <1>4, <1>6, <1>7 DEF IInv

LEMMA ThreadSuspendStep ==
  ASSUME IInv, NEW t \in Thread, NEW s \in Movable, ThreadSuspend(t, s)
  PROVE  IInv'
<1>1. /\ UNCHANGED <<tableVars, cur, lock, tick, slice, due, err, isr>>
      /\ cur = t /\ pc[t] = "run" /\ stat[s] = "READY"
      /\ s = t \/ (lock > 0 /\ \A x \in Thread : pc[x] \in ClaimLabels => arg[x] # s)
      /\ pc' = [pc EXCEPT ![t] = "susp"] /\ arg' = [arg EXCEPT ![t] = s]
      /\ s \in Thread /\ s # Idle
  BY ApplicationAssumption
     DEF ThreadSuspend, At, Call, Exclusive, Unclaimed, tableVars, schedVars, timeVars, tmrVars
<1>2. TypeOK'
  BY <1>1 DEF IInv, TypeOK, Labels, tableVars
<1>3. \A x \in Thread : pc[x] \notin Windows
  BY <1>1, NoWindow DEF Windows
<1>4. ReadyTable' /\ BitmapExact' /\ WaitersSuspended' /\ IdleReady'
  BY <1>1, <1>3, TableKept DEF Windows
<1>5. \A u \in Thread \ {s} : stat'[u] = stat[u] /\ (Loose(u) => Loose(u)')
  BY <1>1 DEF Loose, tableVars
<1>6. ASSUME NEW x \in Thread \ {t}, pc[x] \in ClaimLabels PROVE arg[x] # s
  BY <1>6, <1>1, <1>3 DEF IInv, CallsInProgress, RunnerStarted, ClaimLabels, Windows
<1>7. CallsInProgress'
  <2>1. "susp" \in ClaimLabels /\ stat'[s] = "READY" /\ (lock > 0 \/ s = t)
    BY <1>1 DEF ClaimLabels, tableVars
  <2> QED BY <2>1, <1>1, <1>5, <1>6, CallsMoved
<1>8. CurrentIsHighest'
  <2>1. ready' = ready /\ group' = group
    BY <1>1 DEF tableVars
  <2>2. Choice(ready, group)' = Choice(ready, group)
    BY <2>1 DEF Choice, Highest
  <2>3. lock = 0 => cur = Choice(ready, group)
    BY <1>1 DEF IInv, CurrentIsHighest, SchedLabels
  <2> QED BY <2>2, <2>3, <1>1 DEF CurrentIsHighest
<1>9. RunnerStarted'
  BY <1>1 DEF IInv, TypeOK, RunnerStarted, tableVars
<1> QED BY <1>2, <1>4, <1>7, <1>8, <1>9 DEF IInv

-----------------------------------------------------------------------------
(* Steps of an open window                                                 *)

\* What is known about the thread s a call of the running thread is about.
LEMMA ClaimedFacts ==
  ASSUME IInv, NEW t \in Thread, cur = t, pc[t] \in ClaimLabels
  PROVE  /\ arg[t] \in Thread
         /\ \A x \in Thread \ {t} : pc[x] \in ClaimLabels => arg[x] # arg[t]
         /\ \A x \in Thread \ {t} : pc[x] \notin Windows
         /\ pc[t] # "start_insert" => arg[t] # Idle /\ (lock > 0 \/ (pc[t] = "susp" /\ arg[t] = t))
         /\ pc[t] \in {"start_insert", "res_insert", "det_timer", "det_close"} => Loose(arg[t])
         /\ pc[t] = "start_insert" => stat[arg[t]] = "SUSPEND"
         /\ pc[t] \in {"res_unlink", "res_insert"} => stat[arg[t]] \in {"SUSPEND", "READY"}
         /\ pc[t] \in {"det_timer", "det_close"} => stat[arg[t]] # "CLOSE" /\ arg[t] # t
         /\ pc[t] = "susp" => stat[arg[t]] = "READY"
<1>1. /\ arg[t] \in Thread
      /\ \A x \in Thread \ {t} : pc[x] \in ClaimLabels => arg[x] # arg[t]
  BY DEF IInv, TypeOK, CallsInProgress
<1>2. ASSUME NEW x \in Thread \ {t} PROVE pc[x] \notin Windows
  BY DEF IInv, CallsInProgress, ClaimLabels, Windows
<1>3. pc[t] # "start_insert" => arg[t] # Idle /\ (lock > 0 \/ (pc[t] = "susp" /\ arg[t] = t))
  BY DEF IInv, CallsInProgress
<1>4. /\ pc[t] \in {"start_insert", "res_insert", "det_timer", "det_close"} => Loose(arg[t])
      /\ pc[t] = "start_insert" => stat[arg[t]] = "SUSPEND"
      /\ pc[t] \in {"res_unlink", "res_insert"} => stat[arg[t]] \in {"SUSPEND", "READY"}
      /\ pc[t] \in {"det_timer", "det_close"} => stat[arg[t]] # "CLOSE" /\ arg[t] # t
      /\ pc[t] = "susp" => stat[arg[t]] = "READY"
  BY DEF IInv, CallsInProgress
<1> QED BY <1>1, <1>2, <1>3, <1>4

LEMMA ResumeInsertStep ==
  ASSUME IInv, NEW t \in Thread, ResumeInsert(t)
  PROVE  IInv'
<1>0. PICK s \in Thread : s = arg[t]
  BY DEF IInv, TypeOK
<1>1. /\ UNCHANGED <<prio, tmrs, waitq, cur, lock, tick, slice, due, err, isr>>
      /\ cur = t /\ pc[t] \in {"start_insert", "res_insert"}
      /\ InsertThread(ready, s)
      /\ pc' = [pc EXCEPT ![t] = IF pc[t] = "start_insert" THEN "sched" ELSE "run"]
      /\ arg' = [arg EXCEPT ![t] = t]
  BY <1>0 DEF ResumeInsert, Leave, timeVars, tmrVars
<1>2. /\ s \in Thread /\ Loose(s) /\ pc[t] \in ClaimLabels
      /\ \A x \in Thread \ {t} : pc[x] \in ClaimLabels => arg[x] # s
      /\ \A x \in Thread \ {t} : pc[x] \notin Windows
      /\ pc[t] = "res_insert" => lock > 0
  BY <1>0, <1>1, ClaimedFacts DEF ClaimLabels
<1>3. /\ ready \in [Prio -> Seq(Thread)]
      /\ \A p \in Prio : Once(ready[p]) /\ ~Linked(ready[p], s)
  BY <1>2 DEF IInv, TypeOK, ReadyTable, Loose
<1>4. /\ ready' \in [Prio -> Seq(Thread)] /\ group' \in SUBSET Prio
      /\ \A p \in Prio : Once(ready'[p])
      /\ \A p \in Prio : \A m : Linked(ready'[p], m) <=> Linked(ready[p], m) \/ (p = prio[s] /\ m = s)
      /\ \A p \in Prio : ready'[p] # <<>> <=> ready[p] # <<>> \/ p = prio[s]
      /\ group' = group \union {prio[s]}
      /\ stat' = [stat EXCEPT ![s] = "READY"]
  BY <1>1, <1>2, <1>3, InsertThreadFacts DEF IInv
<1>5. TypeOK'
  BY <1>1, <1>2, <1>4 DEF IInv, TypeOK, Labels
<1>6. ReadyTable'
  <2>1. ASSUME NEW p \in Prio, NEW u \in Thread, Linked(ready'[p], u)
        PROVE  stat'[u] = "READY" /\ prio'[u] = p
    BY <2>1, <1>1, <1>2, <1>4, SMTT(30) DEF IInv, TypeOK, ReadyTable
  <2>2. ASSUME NEW u \in Thread, stat'[u] = "READY", u # s
        PROVE  Linked(ready'[prio'[u]], u)
    <3>1. stat[u] = "READY" /\ prio[u] \in Prio
      BY <2>2, <1>2, <1>4 DEF IInv, TypeOK
    <3>2. ~InTransit(u)
      BY <1>0, <2>2, <1>1, <1>2 DEF InTransit, Windows
    <3> QED BY <3>1, <3>2, <1>1, <1>4 DEF IInv, ReadyTable
  <2>3. Linked(ready'[prio'[s]], s)
    BY <1>1, <1>2, <1>4 DEF IInv, TypeOK
  <2> QED BY <2>1, <2>2, <2>3, <1>4 DEF ReadyTable
<1>7. BitmapExact'
  <2>1. ASSUME NEW p \in Prio, p \in group, ready[p] = <<>> PROVE p = prio[s]
    BY <1>0, <2>1, <1>1, <1>2 DEF IInv, BitmapExact, Windows
  <2> QED BY <2>1, <1>4 DEF IInv, BitmapExact
<1>8. WaitersSuspended' /\ IdleReady'
  BY <1>1, <1>2, <1>4, ThreadAssumption, SMTT(30)
     DEF IInv, TypeOK, WaitersSuspended, IdleReady, Loose
<1>9. CallsInProgress'
  <2>1. \A x \in Thread : pc'[x] \in ClaimLabels => x # t /\ pc'[x] = pc[x] /\ arg'[x] = arg[x]
    BY <1>1 DEF IInv, TypeOK, ClaimLabels
  <2>2. \A x \in Thread : pc'[x] \in ClaimLabels => arg[x] # s /\ arg[x] \in Thread
    BY <2>1, <1>2 DEF IInv, TypeOK
  <2>3. \A x \in Thread : pc'[x] \in ClaimLabels => stat'[arg[x]] = stat[arg[x]]
    BY <2>2, <1>4, <1>2 DEF IInv, TypeOK
  <2>4. \A u \in Thread : u # s /\ Loose(u) => Loose(u)'
    BY <1>1, <1>4 DEF Loose
  <2>5. \A u \in Thread : Loose(u) => Loose(u)' \/ \A x \in Thread : pc'[x] \in ClaimLabels => arg[x] # u
    BY <2>2, <2>4
  <2> QED BY <2>1, <2>3, <2>5, <1>1, CallsKept
<1>10. CurrentIsHighest'
  BY <1>1, <1>2 DEF IInv, TypeOK, CurrentIsHighest, SchedLabels
<1>11. RunnerStarted'
  BY <1>1, <1>2, <1>4 DEF IInv, TypeOK, RunnerStarted
<1> QED BY <1>5, <1>6, <1>7, <1>8, <1>9, <1>10, <1>11 DEF IInv

LEMMA ResumeUnlinkStep ==
  ASSUME IInv, NEW t \in Thread, ResumeUnlink(t)
  PROVE  IInv'
<1>0. PICK s \in Thread : s = arg[t]
  BY DEF IInv, TypeOK
<1>1. /\ UNCHANGED <<group, stat, prio, cur, lock, tick, slice, err, isr, arg>>
      /\ cur = t /\ pc[t] = "res_unlink"
      /\ ready' = UnlinkAll(ready, s) /\ waitq' = UnlinkAll(waitq, s) /\ StopTimer(s)
      /\ pc' = [pc EXCEPT ![t] = "res_insert"]
  BY <1>0 DEF ResumeUnlink, At, Goto, timeVars
<1>2. /\ s \in Thread /\ pc[t] \in ClaimLabels /\ s # Idle /\ lock > 0
      /\ stat[s] \in {"SUSPEND", "READY"}
      /\ \A x \in Thread \ {t} : pc[x] \in ClaimLabels => arg[x] # s
      /\ \A x \in Thread : pc[x] \in Windows => x = t
      /\ pc'[t] = "res_insert" /\ arg'[t] = s
  BY <1>0, <1>1, ClaimedFacts DEF ClaimLabels, IInv, TypeOK
<1>3. /\ ready \in [Prio -> Seq(Thread)] /\ \A p \in Prio : Once(ready[p])
      /\ waitq \in [Ipc -> Seq(Thread)] /\ \A o \in Ipc : Once(waitq[o])
  BY DEF IInv, TypeOK, ReadyTable, WaitersSuspended
<1>4. /\ ready' \in [Prio -> Seq(Thread)]
      /\ \A p \in Prio : Once(ready'[p])
      /\ \A p \in Prio : \A m : Linked(ready'[p], m) <=> Linked(ready[p], m) /\ m # s
      /\ \A p \in Prio : ~Linked(ready[p], s) => ready'[p] = ready[p]
      /\ \A p \in Prio : ready'[p] # <<>> => ready[p] # <<>>
  <2>1. /\ UnlinkAll(ready, s) \in [Prio -> Seq(Thread)]
        /\ \A p \in Prio : Once(UnlinkAll(ready, s)[p])
        /\ \A p \in Prio : \A m : Linked(UnlinkAll(ready, s)[p], m) <=> Linked(ready[p], m) /\ m # s
        /\ \A p \in Prio : ~Linked(ready[p], s) => UnlinkAll(ready, s)[p] = ready[p]
        /\ \A p \in Prio : UnlinkAll(ready, s)[p] # <<>> => ready[p] # <<>>
    BY <1>3, UnlinkAllFacts, ZenonT(40)
  <2> QED BY <2>1, <1>1
<1>5. /\ waitq' \in [Ipc -> Seq(Thread)]
      /\ \A o \in Ipc : Once(waitq'[o])
      /\ \A o \in Ipc : \A m : Linked(waitq'[o], m) <=> Linked(waitq[o], m) /\ m # s
  BY <1>1, UnlinkWaitFacts
<1>6. /\ tmrs' \in Seq(Thread) /\ due' \in [Thread -> Tick] /\ Once(tmrs')
      /\ \A m : Linked(tmrs', m) <=> Linked(tmrs, m) /\ m # s
  BY <1>1, <1>2, StopTimerFacts DEF IInv, WaitersSuspended
<1>7. TypeOK'
  BY <1>1, <1>4, <1>5, <1>6 DEF IInv, TypeOK, Labels
<1>8. ReadyTable'
  <2>1. ASSUME NEW u \in Thread, stat'[u] = "READY", u # s
        PROVE  Linked(ready'[prio'[u]], u)
    <3>1. ~InTransit(u)
      BY <1>0, <2>1, <1>1, <1>2 DEF InTransit, Windows
    <3> QED BY <3>1, <2>1, <1>1, <1>4 DEF IInv, ReadyTable, TypeOK
  <2>2. InTransit(s)'
    BY <1>2 DEF InTransit
  <2> QED BY <2>1, <2>2, <1>1, <1>4 DEF IInv, ReadyTable
<1>9. BitmapExact'
  <2>1. ASSUME NEW p \in Prio, p \in group, ready'[p] = <<>> PROVE p = prio[s]
    <3>1. CASE Linked(ready[p], s)
      BY <3>1, <1>2 DEF IInv, ReadyTable
    <3>2. CASE ~Linked(ready[p], s)
      BY <3>2, <2>1, <1>4, <1>1, <1>2 DEF IInv, BitmapExact, Windows
    <3> QED BY <3>1, <3>2
  <2> QED BY <2>1, <1>1, <1>2, <1>4 DEF IInv, BitmapExact
<1>10. WaitersSuspended' /\ IdleReady'
  BY <1>1, <1>5, <1>6 DEF IInv, WaitersSuspended, IdleReady
<1>11. Loose(s)' /\ \A u \in Thread : Loose(u) => Loose(u)'
  BY <1>4, <1>5, <1>6 DEF Loose
<1>12. CallsInProgress'
  <2>1. "res_insert" \in ClaimLabels /\ stat'[s] \in {"SUSPEND", "READY"}
    BY <1>1, <1>2 DEF ClaimLabels
  <2>2. arg' = [arg EXCEPT ![t] = s]
    BY <1>0, <1>1 DEF IInv, TypeOK
  <2> QED BY <2>1, <2>2, <1>1, <1>2, <1>11, CallsMoved, ZenonT(40)
<1>13. CurrentIsHighest' /\ RunnerStarted'
  BY <1>1, <1>2 DEF IInv, TypeOK, CurrentIsHighest, RunnerStarted
<1> QED BY <1>7, <1>8, <1>9, <1>10, <1>12, <1>13 DEF IInv

-----------------------------------------------------------------------------
(* Steps that take a thread off its list                                   *)

\* rt_schedule_remove_thread and the new state of thread s, outside any window.
LEMMA RemovedFacts ==
  ASSUME IInv, NEW s \in Thread, s # Idle, RemoveReady(s), UNCHANGED prio,
         NEW c \in {"SUSPEND", "CLOSE"}, stat' = [stat EXCEPT ![s] = c],
         \A x \in Thread : pc[x] \notin Windows
  PROVE  /\ ReadyTable' /\ BitmapExact' /\ IdleReady'
         /\ ready' \in [Prio -> Seq(Thread)] /\ group' \in SUBSET Prio
         /\ \A p \in Prio : \A m : Linked(ready'[p], m) <=> Linked(ready[p], m) /\ m # s
         /\ \A p \in Prio : p \in group' <=> ready'[p] # <<>>
         /\ \E p \in Prio : Linked(ready'[p], Idle)
<1>1. /\ ready' \in [Prio -> Seq(Thread)] /\ group' \in SUBSET Prio
      /\ \A p \in Prio : Once(ready'[p])
      /\ \A p \in Prio : \A m : Linked(ready'[p], m) <=> Linked(ready[p], m) /\ m # s
      /\ \A p \in Prio : ready'[p] # <<>> => p \in group'
      /\ \A p \in Prio : p \in group' => ready'[p] # <<>> \/ (p \in group /\ ready[p] = <<>>)
  BY RemoveReadyFacts
<1>2. /\ \A p \in Prio : p \in group <=> ready[p] # <<>>
      /\ \A u \in Thread : stat[u] = "READY" => Linked(ready[prio[u]], u)
      /\ cur \in Thread
  BY NoWindow DEF IInv, TypeOK
<1>3. \A p \in Prio : p \in group' <=> ready'[p] # <<>>
  BY <1>1, <1>2
<1>4. ReadyTable'
  BY <1>1, <1>2 DEF IInv, TypeOK, ReadyTable
<1>5. BitmapExact' /\ IdleReady'
  BY <1>3, ThreadAssumption DEF BitmapExact, IInv, TypeOK, IdleReady
<1>6. \E p \in Prio : Linked(ready'[p], Idle)
  BY <1>1, IdleLinked
<1> QED BY <1>1, <1>3, <1>4, <1>5, <1>6

LEMMA SuspendSectionStep ==
  ASSUME IInv, NEW t \in Thread, SuspendSection(t)
  PROVE  IInv'
<1>0. PICK s \in Thread : s = arg[t]
  BY DEF IInv, TypeOK
<1>1. /\ UNCHANGED <<prio, cur, lock, tick, slice, err, isr>>
      /\ cur = t /\ pc[t] = "susp"
      /\ RemoveReady(s) /\ waitq' = UnlinkAll(waitq, s) /\ StopTimer(s)
      /\ stat' = [stat EXCEPT ![s] = "SUSPEND"]
      /\ pc' = [pc EXCEPT ![t] = IF s = t THEN "sched" ELSE "run"]
      /\ arg' = [arg EXCEPT ![t] = t]
  BY <1>0 DEF SuspendSection, RemoveThread, At, Leave, timeVars
<1>2. /\ s # Idle /\ (s # t => lock > 0)
      /\ \A x \in Thread \ {t} : pc[x] \in ClaimLabels => arg[x] # s
      /\ \A x \in Thread : pc[x] \notin Windows
  BY <1>0, <1>1, ClaimedFacts DEF ClaimLabels, Windows
<1>3. /\ ReadyTable' /\ BitmapExact' /\ IdleReady'
      /\ ready' \in [Prio -> Seq(Thread)] /\ group' \in SUBSET Prio
      /\ waitq' \in [Ipc -> Seq(Thread)]
      /\ \A o \in Ipc : Once(waitq'[o])
      /\ \A p \in Prio : \A m : Linked(ready'[p], m) <=> Linked(ready[p], m) /\ m # s
      /\ \A o \in Ipc : \A m : Linked(waitq'[o], m) <=> Linked(waitq[o], m) /\ m # s
  BY <1>1, <1>2, RemovedFacts, UnlinkWaitFacts
<1>4. /\ tmrs' \in Seq(Thread) /\ due' \in [Thread -> Tick] /\ Once(tmrs')
      /\ \A m : Linked(tmrs', m) <=> Linked(tmrs, m) /\ m # s
  BY <1>1, StopTimerFacts DEF IInv, WaitersSuspended
<1>5. TypeOK'
  BY <1>1, <1>3, <1>4 DEF IInv, TypeOK, Labels
<1>6. WaitersSuspended'
  BY <1>1, <1>3, <1>4 DEF IInv, TypeOK, WaitersSuspended
<1>7. CallsInProgress'
  <2>1. \A x \in Thread : pc'[x] \in ClaimLabels => x # t /\ pc'[x] = pc[x] /\ arg'[x] = arg[x]
    BY <1>1 DEF IInv, TypeOK, ClaimLabels
  <2>2. \A x \in Thread : pc'[x] \in ClaimLabels => stat'[arg[x]] = stat[arg[x]]
    BY <2>1, <1>1, <1>2 DEF IInv, TypeOK
  <2>3. \A u \in Thread : Loose(u) => Loose(u)'
    BY <1>3, <1>4 DEF Loose
  <2> QED BY <2>1, <2>2, <2>3, <1>1, CallsKept
<1>8. CurrentIsHighest' /\ RunnerStarted'
  BY <1>1, <1>2 DEF IInv, TypeOK, CurrentIsHighest, RunnerStarted, SchedLabels
<1> QED BY <1>3, <1>5, <1>6, <1>7, <1>8 DEF IInv

LEMMA ThreadExitStep ==
  ASSUME IInv, NEW t \in Thread, ThreadExit(t)
  PROVE  IInv'
<1>1. /\ UNCHANGED <<prio, lock, tick, slice, err, pc, arg, isr>>
      /\ cur = t /\ pc[t] = "run" /\ t # Idle /\ lock = 0
      /\ RemoveReady(t) /\ waitq' = UnlinkAll(waitq, t) /\ StopTimer(t)
      /\ stat' = [stat EXCEPT ![t] = "CLOSE"]
      /\ cur' = Scheduled(ready', group')
  BY DEF ThreadExit, RemoveThread, At, timeVars, callVars
<1>2. \A x \in Thread : pc[x] \notin Windows
  BY <1>1, NoWindow DEF Windows
<1>3. /\ ReadyTable' /\ BitmapExact' /\ IdleReady'
      /\ ready' \in [Prio -> Seq(Thread)] /\ group' \in SUBSET Prio
      /\ waitq' \in [Ipc -> Seq(Thread)]
      /\ \A o \in Ipc : Once(waitq'[o])
      /\ \A p \in Prio : \A m : Linked(ready'[p], m) <=> Linked(ready[p], m) /\ m # t
      /\ \A o \in Ipc : \A m : Linked(waitq'[o], m) <=> Linked(waitq[o], m) /\ m # t
      /\ \A p \in Prio : p \in group' <=> ready'[p] # <<>>
      /\ \E p \in Prio : Linked(ready'[p], Idle)
  BY <1>1, <1>2, RemovedFacts, UnlinkWaitFacts
<1>4. /\ tmrs' \in Seq(Thread) /\ due' \in [Thread -> Tick] /\ Once(tmrs')
      /\ \A m : Linked(tmrs', m) <=> Linked(tmrs, m) /\ m # t
  BY <1>1, StopTimerFacts DEF IInv, WaitersSuspended
<1>5. cur' \in Thread /\ \E p \in Prio : Linked(ready'[p], cur')
  BY <1>1, <1>3, ScheduledFacts DEF IInv, TypeOK
<1>6. TypeOK'
  BY <1>1, <1>3, <1>4, <1>5 DEF IInv, TypeOK
<1>7. WaitersSuspended'
  BY <1>1, <1>3, <1>4, OtherLoose, RunnerReady
     DEF IInv, TypeOK, WaitersSuspended
<1>8. CallsInProgress'
  <2>1. \A x \in Thread : pc[x] \in ClaimLabels => arg[x] # t
    BY <1>1, <1>2 DEF IInv, CallsInProgress, RunnerStarted, ClaimLabels, Windows
  <2>2. \A x \in Thread : pc'[x] \in ClaimLabels => stat'[arg[x]] = stat[arg[x]]
    BY <2>1, <1>1 DEF IInv, TypeOK
  <2>3. \A u \in Thread : Loose(u) => Loose(u)'
    BY <1>3, <1>4 DEF Loose
  <2> QED BY <2>2, <2>3, <1>1, CallsKept
<1>9. CurrentIsHighest'
  BY <1>1 DEF CurrentIsHighest, Scheduled
<1>10. RunnerStarted'
  <2>1. stat'[cur'] = "READY"
    BY <1>3, <1>5 DEF ReadyTable
  <2>2. \A x \in Thread : pc'[x] = "start_insert" => stat'[arg'[x]] = "SUSPEND"
    BY <1>8 DEF CallsInProgress
  <2> QED BY <2>1, <2>2 DEF RunnerStarted
<1> QED BY <1>3, <1>6, <1>7, <1>8, <1>9, <1>10 DEF IInv

LEMMA ThreadDetachStep ==
  ASSUME IInv, DetachUnarmed, NEW t \in Thread, NEW s \in Detachable, ThreadDetach(t, s)
  PROVE  IInv'
<1>1. /\ UNCHANGED <<stat, prio, tmrs, cur, lock, tick, slice, due, err, isr>>
      /\ cur = t /\ pc[t] = "run" /\ lock > 0
      /\ s \in Thread \ {Idle, t} /\ stat[s] # "CLOSE" /\ ~Linked(tmrs, s)
      /\ \A x \in Thread : pc[x] \in ClaimLabels => arg[x] # s
      /\ IF stat[s] = "INIT" THEN UNCHANGED <<ready, group, waitq>> ELSE RemoveThread(s)
      /\ pc' = [pc EXCEPT ![t] = "det_timer"] /\ arg' = [arg EXCEPT ![t] = s]
  BY ApplicationAssumption
     DEF ThreadDetach, At, Call, Exclusive, Unclaimed, timeVars, tmrVars
<1>2. /\ \A x \in Thread : pc[x] \notin Windows
      /\ \A p \in Prio : p \in group <=> ready[p] # <<>>
      /\ \A u \in Thread : stat[u] = "READY" => Linked(ready[prio[u]], u)
  BY <1>1, NoWindow DEF Windows
<1>3. /\ ready' \in [Prio -> Seq(Thread)] /\ group' \in SUBSET Prio
      /\ waitq' \in [Ipc -> Seq(Thread)]
      /\ \A p \in Prio : Once(ready'[p])
      /\ \A o \in Ipc : Once(waitq'[o])
      /\ \A p \in Prio : \A m : Linked(ready'[p], m) <=> Linked(ready[p], m) /\ m # s
      /\ \A o \in Ipc : \A m : Linked(waitq'[o], m) <=> Linked(waitq[o], m) /\ m # s
      /\ \A p \in Prio : p \in group' <=> ready'[p] # <<>>
  <2>1. CASE stat[s] = "INIT"
    <3>1. Loose(s)
      BY <2>1, <1>1, OtherLoose
    <3>2. ready' = ready /\ group' = group /\ waitq' = waitq
      BY <2>1, <1>1
    <3> QED BY <3>1, <3>2, <1>2 DEF IInv, TypeOK, ReadyTable, WaitersSuspended, Loose
  <2>2. CASE stat[s] # "INIT"
    BY <2>2, <1>1, <1>2, RemoveReadyFacts, UnlinkWaitFacts DEF RemoveThread
  <2> QED BY <2>1, <2>2
<1>4. TypeOK'
  BY <1>1, <1>3 DEF IInv, TypeOK, Labels
<1>5. ReadyTable'
  <2>1. InTransit(s)'
    BY <1>1 DEF InTransit, IInv, TypeOK
  <2>2. \A u \in Thread : stat'[u] = "READY" => Linked(ready'[prio'[u]], u) \/ InTransit(u)'
    BY <2>1, <1>1, <1>2, <1>3 DEF IInv, TypeOK
  <2> QED BY <2>2, <1>1, <1>3 DEF IInv, ReadyTable
<1>6. BitmapExact'
  BY <1>3 DEF BitmapExact
<1>7. WaitersSuspended' /\ IdleReady'
  BY <1>1, <1>3 DEF IInv, WaitersSuspended, IdleReady
<1>8. Loose(s)' /\ \A u \in Thread : Loose(u) => Loose(u)'
  BY <1>1, <1>3 DEF Loose
<1>9. CallsInProgress'
  <2>1. "det_timer" \in ClaimLabels /\ stat'[s] # "CLOSE" /\ s # t
    BY <1>1 DEF ClaimLabels
  <2> QED BY <2>1, <1>1, <1>8, CallsMoved
<1>10. CurrentIsHighest' /\ RunnerStarted'
  BY <1>1 DEF IInv, TypeOK, CurrentIsHighest, RunnerStarted
<1> QED BY <1>4, <1>5, <1>6, <1>7, <1>9, <1>10 DEF IInv

LEMMA DetachTimerStep ==
  ASSUME IInv, NEW t \in Thread, DetachTimer(t)
  PROVE  IInv'
<1>0. PICK s \in Thread : s = arg[t]
  BY DEF IInv, TypeOK
<1>1. /\ UNCHANGED <<ready, group, stat, prio, waitq, cur, lock, tick, slice, err, isr, arg>>
      /\ cur = t /\ pc[t] = "det_timer" /\ StopTimer(s)
      /\ pc' = [pc EXCEPT ![t] = "det_close"]
  BY <1>0 DEF DetachTimer, At, Goto, schedVars, timeVars
<1>2. /\ s \notin {Idle, t} /\ lock > 0 /\ Loose(s) /\ stat[s] # "CLOSE"
      /\ \A x \in Thread \ {t} : pc[x] \in ClaimLabels => arg[x] # s
      /\ \A x \in Thread \ {t} : pc[x] \notin Windows
  BY <1>0, <1>1, ClaimedFacts DEF ClaimLabels
<1>3. /\ tmrs' \in Seq(Thread) /\ due' \in [Thread -> Tick] /\ Once(tmrs')
      /\ \A m : Linked(tmrs', m) <=> Linked(tmrs, m) /\ m # s
  BY <1>1, StopTimerFacts DEF IInv, WaitersSuspended
<1>4. TypeOK'
  BY <1>1, <1>3 DEF IInv, TypeOK, Labels
<1>5. \A u \in Thread : InTransit(u) => InTransit(u)'
  BY <1>1, <1>2 DEF InTransit, Windows, IInv, TypeOK
<1>6. ReadyTable' /\ BitmapExact'
  <2>1. ReadyTable'
    BY <1>1, <1>5 DEF IInv, ReadyTable
  <2>2. \A x \in Thread : pc[x] # "res_insert"
    BY <1>1, <1>2 DEF Windows
  <2> QED BY <2>1, <2>2, <1>1 DEF IInv, BitmapExact
<1>7. WaitersSuspended' /\ IdleReady'
  BY <1>1, <1>3 DEF IInv, WaitersSuspended, IdleReady
<1>8. Loose(s)' /\ \A u \in Thread : Loose(u) => Loose(u)'
  BY <1>1, <1>2, <1>3 DEF Loose
<1>9. CallsInProgress'
  <2>1. "det_close" \in ClaimLabels /\ stat'[s] # "CLOSE" /\ s # t
    BY <1>1, <1>2 DEF ClaimLabels
  <2>2. arg' = [arg EXCEPT ![t] = s]
    BY <1>0, <1>1 DEF IInv, TypeOK
  <2> QED BY <2>1, <2>2, <1>1, <1>2, <1>8, CallsMoved
<1>10. CurrentIsHighest' /\ RunnerStarted'
  BY <1>1, <1>2 DEF IInv, TypeOK, CurrentIsHighest, RunnerStarted
<1> QED BY <1>4, <1>6, <1>7, <1>9, <1>10 DEF IInv

LEMMA DetachCloseStep ==
  ASSUME IInv, NEW t \in Thread, DetachClose(t)
  PROVE  IInv'
<1>0. PICK s \in Thread : s = arg[t]
  BY DEF IInv, TypeOK
<1>1. /\ UNCHANGED <<ready, group, prio, tmrs, waitq, cur, lock, tick, slice, due, err, isr>>
      /\ cur = t /\ pc[t] = "det_close"
      /\ stat' = [stat EXCEPT ![s] = "CLOSE"]
      /\ pc' = [pc EXCEPT ![t] = "run"] /\ arg' = [arg EXCEPT ![t] = t]
  BY <1>0 DEF DetachClose, At, Leave, timeVars, tmrVars
<1>2. /\ s \notin {Idle, t} /\ lock > 0 /\ Loose(s)
      /\ \A x \in Thread \ {t} : pc[x] \in ClaimLabels => arg[x] # s
      /\ \A x \in Thread \ {t} : pc[x] \notin Windows
  BY <1>0, <1>1, ClaimedFacts DEF ClaimLabels
<1>3. TypeOK'
  BY <1>1 DEF IInv, TypeOK, Labels
<1>4. ReadyTable'
  <2>1. \A u \in Thread : InTransit(u) => u = s
    BY <1>0, <1>2 DEF InTransit, Windows
  <2> QED BY <2>1, <1>1, <1>2 DEF IInv, TypeOK, ReadyTable, Loose
<1>5. BitmapExact'
  <2>1. \A x \in Thread : pc[x] # "res_insert"
    BY <1>1, <1>2 DEF Windows
  <2> QED BY <2>1, <1>1 DEF IInv, BitmapExact
<1>6. WaitersSuspended' /\ IdleReady'
  BY <1>1, <1>2, ThreadAssumption DEF IInv, TypeOK, WaitersSuspended, IdleReady, Loose
<1>7. CallsInProgress'
  <2>1. \A x \in Thread : pc'[x] \in ClaimLabels => x # t /\ pc'[x] = pc[x] /\ arg'[x] = arg[x]
    BY <1>1 DEF IInv, TypeOK, ClaimLabels
  <2>2. \A x \in Thread : pc'[x] \in ClaimLabels => stat'[arg[x]] = stat[arg[x]]
    BY <2>1, <1>1, <1>2 DEF IInv, TypeOK
  <2>3. \A u \in Thread : Loose(u) => Loose(u)'
    BY <1>1 DEF Loose
  <2> QED BY <2>1, <2>2, <2>3, <1>1, CallsKept
<1>8. CurrentIsHighest' /\ RunnerStarted'
  BY <1>1, <1>2 DEF IInv, TypeOK, CurrentIsHighest, RunnerStarted
<1> QED BY <1>3, <1>4, <1>5, <1>6, <1>7, <1>8 DEF IInv

\* No call is about the thread that runs its own code.
LEMMA RunnerUnclaimed ==
  ASSUME IInv, pc[cur] \notin ClaimLabels
  PROVE  \A x \in Thread : pc[x] \in ClaimLabels => arg[x] # cur /\ pc[x] \notin Windows
<1>1. \A x \in Thread : pc[x] \notin Windows
  BY NoWindow DEF ClaimLabels, Windows
<1> QED BY <1>1 DEF IInv, CallsInProgress, RunnerStarted, ClaimLabels, Windows

LEMMA ChangePriorityStep ==
  ASSUME IInv, NEW t \in Thread, NEW s \in Thread, NEW p \in NewPrios, ChangePriority(t, s, p)
  PROVE  IInv'
<1> DEFINE q == UnlinkAll(ready, s)
<1>1. /\ UNCHANGED <<stat, tmrs, waitq, cur, lock, tick, slice, due, err, pc, arg, isr>>
      /\ cur = t /\ pc[t] = "run" /\ lock > 0 /\ p \in Prio
      /\ \A x \in Thread : pc[x] \in ClaimLabels => arg[x] # s
      /\ prio' = [prio EXCEPT ![s] = p]
      /\ stat[s] = "READY" => ready' = LinkAt(q, p, s) /\ group' = GroupWithout(q, s) \union {p}
      /\ stat[s] # "READY" => ready' = ready /\ group' = group
  BY PrioAssumption DEF ChangePriority, At, Exclusive, Unclaimed, timeVars, tmrVars, callVars
<1>2. /\ \A x \in Thread : pc[x] \notin Windows
      /\ \A r \in Prio : r \in group <=> ready[r] # <<>>
      /\ \A u \in Thread : stat[u] = "READY" => Linked(ready[prio[u]], u)
  BY <1>1, NoWindow DEF Windows
<1>3. /\ ready \in [Prio -> Seq(Thread)] /\ group \in SUBSET Prio
      /\ prio \in [Thread -> Prio] /\ prio' \in [Thread -> Prio]
      /\ \A r \in Prio : Once(ready[r])
      /\ \A r \in Prio, u \in Thread : Linked(ready[r], u) => stat[u] = "READY" /\ prio[u] = r
  BY <1>1 DEF IInv, TypeOK, ReadyTable
<1>4. ASSUME stat[s] = "READY"
      PROVE  /\ ready' \in [Prio -> Seq(Thread)] /\ group' \in SUBSET Prio
             /\ \A r \in Prio : Once(ready'[r])
             /\ \A r \in Prio : \A m :
                  Linked(ready'[r], m) <=> (Linked(ready[r], m) /\ m # s) \/ (r = p /\ m = s)
             /\ \A r \in Prio : r \in group' <=> ready'[r] # <<>>
  <2>0. ready \in [Prio -> Seq(Thread)] /\ (\A r \in Prio : Once(ready[r])) /\ p \in Prio
    BY <1>1, <1>3
  <2>1. /\ q \in [Prio -> Seq(Thread)]
        /\ \A r \in Prio : Once(q[r])
        /\ \A r \in Prio : \A m : Linked(q[r], m) <=> Linked(ready[r], m) /\ m # s
        /\ \A r \in Prio : ~Linked(ready[r], s) => q[r] = ready[r]
        /\ \A r \in Prio : q[r] # <<>> => ready[r] # <<>>
    BY <2>0, UnlinkAllFacts, ZenonT(40)
  <2> HIDE DEF q
  <2>2. GroupWithout(q, s) \in SUBSET Prio /\ \A r \in Prio : r \in GroupWithout(q, s) <=> q[r] # <<>>
    BY <2>1, <1>2, <1>3 DEF GroupWithout
  <2>3. \A r \in Prio : Once(q[r]) /\ ~Linked(q[r], s)
    BY <2>1
  <2>4. /\ LinkAt(q, p, s) \in [Prio -> Seq(Thread)]
        /\ \A r \in Prio : Once(LinkAt(q, p, s)[r])
        /\ \A r \in Prio : \A m : Linked(LinkAt(q, p, s)[r], m) <=> Linked(q[r], m) \/ (r = p /\ m = s)
        /\ \A r \in Prio : LinkAt(q, p, s)[r] # <<>> <=> q[r] # <<>> \/ r = p
    BY <2>0, <2>1, <2>3, LinkAtFacts, ZenonT(40)
  <2>5. /\ ready' \in [Prio -> Seq(Thread)] /\ group' \in SUBSET Prio
        /\ \A r \in Prio : Once(ready'[r])
    BY <2>2, <2>4, <1>1, <1>4
  <2>6. \A r \in Prio : \A m :
          Linked(ready'[r], m) <=> (Linked(ready[r], m) /\ m # s) \/ (r = p /\ m = s)
    BY <2>1, <2>4, <1>1, <1>4
  <2>7. \A r \in Prio : r \in group' <=> ready'[r] # <<>>
    BY <2>2, <2>4, <1>1, <1>4
  <2> QED BY <2>5, <2>6, <2>7
<1> HIDE DEF q
<1>5. TypeOK'
  BY <1>1, <1>3, <1>4 DEF IInv, TypeOK
<1>6. ReadyTable'
  <2>1. CASE stat[s] = "READY"
    <3>1. ASSUME NEW r \in Prio, NEW u \in Thread, Linked(ready'[r], u)
          PROVE  stat'[u] = "READY" /\ prio'[u] = r
      BY <3>1, <2>1, <1>1, <1>3, <1>4
    <3>2. ASSUME NEW u \in Thread, stat'[u] = "READY" PROVE Linked(ready'[prio'[u]], u)
      BY <3>2, <2>1, <1>1, <1>2, <1>3, <1>4
    <3> QED BY <3>1, <3>2, <2>1, <1>4 DEF ReadyTable
  <2>2. CASE stat[s] # "READY"
    BY <2>2, <1>1, <1>2, <1>3 DEF ReadyTable
  <2> QED BY <2>1, <2>2
<1>7. BitmapExact'
  BY <1>1, <1>2, <1>4 DEF BitmapExact
<1>8. WaitersSuspended' /\ IdleReady'
  BY <1>1 DEF IInv, WaitersSuspended, IdleReady
<1>9. CallsInProgress'
  <2>1. \A u \in Thread : u # s /\ Loose(u) => Loose(u)'
    BY <1>1, <1>4 DEF Loose
  <2> QED BY <2>1, <1>1, CallsKept
<1>10. CurrentIsHighest' /\ RunnerStarted'
  BY <1>1 DEF IInv, CurrentIsHighest, RunnerStarted
<1> QED BY <1>5, <1>6, <1>7, <1>8, <1>9, <1>10 DEF IInv

-----------------------------------------------------------------------------
(* Sleeping and waiting                                                    *)

LEMMA ThreadSleepStep ==
  ASSUME IInv, NEW t \in Thread, NEW n \in SleepTicks, ThreadSleep(t, n)
  PROVE  IInv'
<1>1. /\ UNCHANGED <<prio, cur, lock, tick, slice, err, isr, arg>>
      /\ cur = t /\ pc[t] = "run" /\ t # Idle /\ StartTimer(t, n)
      /\ stat[t] = "READY" =>
           RemoveReady(t) /\ waitq' = UnlinkAll(waitq, t) /\ stat' = [stat EXCEPT ![t] = "SUSPEND"]
      /\ stat[t] # "READY" => UNCHANGED <<ready, group, stat, waitq>>
      /\ pc' = [pc EXCEPT ![t] = "sleep_sched"]
  BY DEF ThreadSleep, RemoveThread, At, Goto, timeVars
<1>2. n \in Nat
  BY TickAssumption
<1>3. /\ \A x \in Thread : pc[x] \notin Windows
      /\ \A x \in Thread : pc[x] \in ClaimLabels => arg[x] # t
  BY <1>1, NoWindow, RunnerUnclaimed DEF Windows, ClaimLabels
<1>4. stat'[t] = "SUSPEND" /\ \A u \in Thread \ {t} : stat'[u] = stat[u]
  BY <1>1 DEF IInv, TypeOK, RunnerStarted
<1>5. /\ ReadyTable' /\ BitmapExact' /\ IdleReady'
      /\ ready' \in [Prio -> Seq(Thread)] /\ group' \in SUBSET Prio
      /\ waitq' \in [Ipc -> Seq(Thread)]
      /\ \A o \in Ipc : Once(waitq'[o])
      /\ \A p \in Prio, m \in Thread \ {t} : Linked(ready'[p], m) <=> Linked(ready[p], m)
      /\ \A o \in Ipc : \A m : Linked(waitq'[o], m) => Linked(waitq[o], m)
      /\ stat' \in [Thread -> {"INIT", "READY", "SUSPEND", "CLOSE"}]
  <2>1. CASE stat[t] = "READY"
    <3>1. RemoveReady(t) /\ waitq' = UnlinkAll(waitq, t) /\ stat' = [stat EXCEPT ![t] = "SUSPEND"]
      BY <2>1, <1>1
    <3>2. /\ ReadyTable' /\ BitmapExact' /\ IdleReady'
          /\ ready' \in [Prio -> Seq(Thread)] /\ group' \in SUBSET Prio
          /\ \A p \in Prio : \A m : Linked(ready'[p], m) <=> Linked(ready[p], m) /\ m # t
      BY <3>1, <1>1, <1>3, RemovedFacts
    <3>3. /\ waitq' \in [Ipc -> Seq(Thread)]
          /\ \A o \in Ipc : Once(waitq'[o])
          /\ \A o \in Ipc : \A m : Linked(waitq'[o], m) <=> Linked(waitq[o], m) /\ m # t
      BY <3>1, UnlinkWaitFacts
    <3> QED BY <3>1, <3>2, <3>3 DEF IInv, TypeOK
  <2>2. CASE stat[t] # "READY"
    <3>1. UNCHANGED <<ready, group, stat, waitq, prio>>
      BY <2>2, <1>1
    <3>2. ReadyTable'
      <4>1. \A u \in Thread : ~InTransit(u)
        BY <1>3 DEF InTransit, Windows
      <4> QED BY <3>1, <4>1 DEF IInv, ReadyTable
    <3>3. BitmapExact'
      BY <3>1, <1>3 DEF IInv, BitmapExact, Windows
    <3> QED BY <3>1, <3>2, <3>3 DEF IInv, TypeOK, WaitersSuspended, IdleReady
  <2> QED BY <2>1, <2>2
<1>6. /\ tmrs' \in Seq(Thread) /\ due' \in [Thread -> Tick] /\ Once(tmrs')
      /\ \A m : Linked(tmrs', m) <=> Linked(tmrs, m) \/ m = t
  BY <1>1, <1>2, StartTimerFacts DEF IInv, WaitersSuspended
<1>7. TypeOK'
  BY <1>1, <1>5, <1>6 DEF IInv, TypeOK, Labels
<1>8. WaitersSuspended'
  BY <1>4, <1>5, <1>6 DEF IInv, TypeOK, WaitersSuspended
<1>9. CallsInProgress'
  <2>1. \A x \in Thread : pc'[x] \in ClaimLabels => x # t /\ pc'[x] = pc[x] /\ arg'[x] = arg[x]
    BY <1>1 DEF IInv, TypeOK, ClaimLabels
  <2>2. \A x \in Thread : pc'[x] \in ClaimLabels => stat'[arg[x]] = stat[arg[x]]
    BY <2>1, <1>3, <1>4 DEF IInv, TypeOK
  <2>3. \A u \in Thread : u # t /\ Loose(u) => Loose(u)'
    BY <1>5, <1>6 DEF Loose
  <2>4. \A u \in Thread : Loose(u) => Loose(u)' \/ \A x \in Thread : pc'[x] \in ClaimLabels => arg[x] # u
    BY <2>1, <2>3, <1>3
  <2> QED BY <2>1, <2>2, <2>4, <1>1, CallsKept
<1>10. CurrentIsHighest' /\ RunnerStarted'
  BY <1>1, <1>3, <1>4 DEF IInv, TypeOK, CurrentIsHighest, RunnerStarted, SchedLabels
<1> QED BY <1>5, <1>7, <1>8, <1>9, <1>10 DEF IInv

LEMMA IpcSuspendStep ==
  ASSUME IInv, NEW t \in Thread, NEW o \in Ipc, NEW n \in WaitTicks, IpcSuspend(t, o, n)
  PROVE  IInv'
<1>1. /\ UNCHANGED <<prio, cur, lock, tick, slice, isr, arg>>
      /\ cur = t /\ pc[t] = "run" /\ t # Idle /\ lock = 0
      /\ RemoveReady(t) /\ stat' = [stat EXCEPT ![t] = "SUSPEND"]
      /\ waitq' = [waitq EXCEPT ![o] = LinkBefore(@, t, Behind(o, t))]
      /\ err' = [err EXCEPT ![t] = "OK"]
      /\ StartTimer(t, n) \/ StopTimer(t)
      /\ pc' = [pc EXCEPT ![t] = "ipc_sched"]
  BY DEF IpcSuspend, At, Goto, timeVars
<1>2. n \in Nat
  BY TickAssumption
<1>3. /\ \A x \in Thread : pc[x] \notin Windows
      /\ \A x \in Thread : pc[x] \in ClaimLabels => arg[x] # t
      /\ stat[t] = "READY"
  BY <1>1, NoWindow, RunnerUnclaimed, RunnerReady DEF Windows, ClaimLabels
<1>4. /\ ReadyTable' /\ BitmapExact' /\ IdleReady'
      /\ ready' \in [Prio -> Seq(Thread)] /\ group' \in SUBSET Prio
      /\ \A p \in Prio : \A m : Linked(ready'[p], m) <=> Linked(ready[p], m) /\ m # t
  BY <1>1, <1>3, RemovedFacts
<1>5. /\ waitq' \in [Ipc -> Seq(Thread)]
      /\ \A x \in Ipc : Once(waitq'[x])
      /\ \A x \in Ipc : \A m : Linked(waitq'[x], m) <=> Linked(waitq[x], m) \/ (x = o /\ m = t)
  <2>1. waitq \in [Ipc -> Seq(Thread)] /\ \A x \in Ipc : Once(waitq[x]) /\ ~Linked(waitq[x], t)
    BY <1>3 DEF IInv, TypeOK, WaitersSuspended
  <2> DEFINE l == LinkBefore(waitq[o], t, Behind(o, t))
  <2>2. /\ l \in Seq(Thread) /\ Once(l)
        /\ \A m : Linked(l, m) <=> Linked(waitq[o], m) \/ m = t
    BY <2>1, LinkBeforeFacts
  <2>3. waitq' = [waitq EXCEPT ![o] = l]
    BY <1>1
  <2> HIDE DEF l
  <2> QED BY <2>1, <2>2, <2>3
<1>6. /\ tmrs' \in Seq(Thread) /\ due' \in [Thread -> Tick] /\ Once(tmrs')
      /\ \A m : Linked(tmrs', m) => Linked(tmrs, m) \/ m = t
  BY <1>1, <1>2, StartTimerFacts, StopTimerFacts DEF IInv, WaitersSuspended
<1>7. TypeOK'
  BY <1>1, <1>4, <1>5, <1>6 DEF IInv, TypeOK, Labels
<1>8. WaitersSuspended'
  <2>1. \A x \in Ipc : ~Linked(waitq[x], t)
    BY <1>3 DEF IInv, WaitersSuspended
  <2>2. stat'[t] = "SUSPEND" /\ \A u \in Thread \ {t} : stat'[u] = stat[u]
    BY <1>1 DEF IInv, TypeOK
  <2>3. \A u \in Thread : Linked(tmrs', u) => stat'[u] = "SUSPEND"
    BY <2>2, <1>6 DEF IInv, WaitersSuspended
  <2>4. \A x \in Ipc, u \in Thread : Linked(waitq'[x], u) => stat'[u] = "SUSPEND"
    BY <2>2, <1>5 DEF IInv, WaitersSuspended
  <2>5. ASSUME NEW x \in Ipc, NEW y \in Ipc, NEW u \in Thread, Linked(waitq'[x], u), Linked(waitq'[y], u)
        PROVE  x = y
    <3>1. CASE u = t
      BY <3>1, <2>1, <2>5, <1>5
    <3>2. CASE u # t
      BY <3>2, <2>5, <1>5 DEF IInv, WaitersSuspended
    <3> QED BY <3>1, <3>2
  <2> QED BY <2>3, <2>4, <2>5, <1>5, <1>6 DEF WaitersSuspended
<1>9. CallsInProgress'
  <2>1. \A x \in Thread : pc'[x] \in ClaimLabels => x # t /\ pc'[x] = pc[x] /\ arg'[x] = arg[x]
    BY <1>1 DEF IInv, TypeOK, ClaimLabels
  <2>2. \A x \in Thread : pc'[x] \in ClaimLabels => stat'[arg[x]] = stat[arg[x]]
    BY <2>1, <1>1, <1>3 DEF IInv, TypeOK
  <2>3. \A u \in Thread : u # t /\ Loose(u) => Loose(u)'
    BY <1>4, <1>5, <1>6 DEF Loose
  <2>4. \A u \in Thread : Loose(u) => Loose(u)' \/ \A x \in Thread : pc'[x] \in ClaimLabels => arg[x] # u
    BY <2>1, <2>3, <1>3
  <2> QED BY <2>1, <2>2, <2>4, <1>1, CallsKept
<1>10. CurrentIsHighest' /\ RunnerStarted'
  BY <1>1, <1>3 DEF IInv, TypeOK, CurrentIsHighest, RunnerStarted, SchedLabels
<1> QED BY <1>4, <1>7, <1>8, <1>9, <1>10 DEF IInv

-----------------------------------------------------------------------------
(* Waking a thread                                                         *)

\* rt_thread_timeout and rt_ipc_list_resume: a suspended thread that hangs on a
\* list leaves all of them for the ready table.
LEMMA WakeFacts ==
  ASSUME IInv, NEW w \in Thread, stat[w] = "SUSPEND", ~Loose(w),
         StopTimer(w), waitq' = UnlinkAll(waitq, w),
         InsertThread(UnlinkAll(ready, w), w), UNCHANGED <<prio, lock>>,
         \A x \in Thread : pc[x] \in ClaimLabels \/ pc'[x] \in ClaimLabels =>
           pc'[x] = pc[x] /\ arg'[x] = arg[x],
         lock > 0 /\ pc[cur] \in ClaimLabels => cur' = cur
  PROVE  /\ ReadyTable' /\ BitmapExact' /\ WaitersSuspended' /\ IdleReady'
         /\ CallsInProgress'
         /\ ready' \in [Prio -> Seq(Thread)] /\ group' \in SUBSET Prio
         /\ stat' = [stat EXCEPT ![w] = "READY"]
         /\ tmrs' \in Seq(Thread) /\ due' \in [Thread -> Tick]
         /\ waitq' \in [Ipc -> Seq(Thread)]
         /\ \E p \in Prio : Linked(ready'[p], Idle)
         /\ \A p \in Prio : ready'[p] # <<>> => p \in group'
         /\ lock = 0 => \A p \in group' : ready'[p] # <<>>
<1> DEFINE q == UnlinkAll(ready, w)
<1>1. /\ ready \in [Prio -> Seq(Thread)] /\ \A p \in Prio : Once(ready[p])
  BY DEF IInv, TypeOK, ReadyTable
<1>2. /\ \A p \in Prio : ~Linked(ready[p], w)
      /\ prio[w] \in Prio
  BY DEF IInv, TypeOK, ReadyTable
<1>3. /\ q \in [Prio -> Seq(Thread)] /\ \A p \in Prio : Once(q[p])
      /\ \A p \in Prio : \A m : Linked(q[p], m) <=> Linked(ready[p], m) /\ m # w
      /\ \A p \in Prio : ~Linked(ready[p], w) => q[p] = ready[p]
  BY <1>1, UnlinkAllFacts
<1>4. InsertThread(q, w)
  OBVIOUS
<1> HIDE DEF q
<1>5. /\ ready' \in [Prio -> Seq(Thread)] /\ group' \in SUBSET Prio
      /\ \A p \in Prio : Once(ready'[p])
      /\ \A p \in Prio : \A m : Linked(ready'[p], m) <=> Linked(q[p], m) \/ (p = prio[w] /\ m = w)
      /\ \A p \in Prio : ready'[p] # <<>> <=> q[p] # <<>> \/ p = prio[w]
      /\ group' = group \union {prio[w]}
      /\ stat' = [stat EXCEPT ![w] = "READY"]
  BY <1>3, <1>4, InsertThreadFacts DEF IInv
<1>6. /\ \A p \in Prio : \A m : Linked(ready'[p], m) <=> Linked(ready[p], m) \/ (p = prio[w] /\ m = w)
      /\ \A p \in Prio : ready'[p] # <<>> <=> ready[p] # <<>> \/ p = prio[w]
  BY <1>2, <1>3, <1>5
<1>7. /\ waitq' \in [Ipc -> Seq(Thread)] /\ \A o \in Ipc : Once(waitq'[o])
      /\ \A o \in Ipc : \A m : Linked(waitq'[o], m) <=> Linked(waitq[o], m) /\ m # w
  BY UnlinkWaitFacts
<1>8. /\ tmrs' \in Seq(Thread) /\ due' \in [Thread -> Tick] /\ Once(tmrs')
      /\ \A m : Linked(tmrs', m) <=> Linked(tmrs, m) /\ m # w
  BY StopTimerFacts DEF IInv, WaitersSuspended
<1>9. stat'[w] = "READY" /\ \A u \in Thread \ {w} : stat'[u] = stat[u]
  BY <1>5 DEF IInv, TypeOK
<1>10. \A u \in Thread : InTransit(u) => InTransit(u)'
  BY DEF InTransit, ClaimLabels
<1>11. ReadyTable'
  <2>1. ASSUME NEW p \in Prio, NEW u \in Thread, Linked(ready'[p], u)
        PROVE  stat'[u] = "READY" /\ prio'[u] = p
    BY <2>1, <1>2, <1>6, <1>9 DEF IInv, ReadyTable
  <2>2. ASSUME NEW u \in Thread, stat'[u] = "READY"
        PROVE  Linked(ready'[prio'[u]], u) \/ InTransit(u)'
    <3>1. prio'[u] = prio[u] /\ prio[u] \in Prio
      BY DEF IInv, TypeOK
    <3>2. u # w => Linked(ready[prio[u]], u) \/ InTransit(u)
      BY <2>2, <1>9 DEF IInv, ReadyTable
    <3> QED BY <3>1, <3>2, <1>6, <1>10
  <2> QED BY <2>1, <2>2, <1>5 DEF ReadyTable
<1>12. BitmapExact'
  <2>1. \A x \in Thread : pc[x] = "res_insert" => pc'[x] = "res_insert" /\ prio'[arg'[x]] = prio[arg[x]]
    BY DEF ClaimLabels
  <2>2. ASSUME NEW p \in Prio, p \in group', ready'[p] = <<>>
        PROVE  lock' > 0 /\ \E x \in Thread : pc'[x] = "res_insert" /\ prio'[arg'[x]] = p
    <3>1. p \in group /\ ready[p] = <<>>
      BY <2>2, <1>5, <1>6
    <3> QED BY <3>1, <2>1 DEF IInv, BitmapExact
  <2>3. \A p \in Prio : ready'[p] # <<>> => p \in group'
    BY <1>5, <1>6 DEF IInv, BitmapExact
  <2> QED BY <2>2, <2>3 DEF BitmapExact
<1>13. WaitersSuspended' /\ IdleReady'
  <2>1. \A u \in Thread : Linked(tmrs', u) => stat'[u] = "SUSPEND"
    BY <1>8, <1>9 DEF IInv, WaitersSuspended
  <2>2. \A o \in Ipc, u \in Thread : Linked(waitq'[o], u) => stat'[u] = "SUSPEND"
    BY <1>7, <1>9 DEF IInv, WaitersSuspended
  <2>3. \A o1, o2 \in Ipc, u \in Thread : Linked(waitq'[o1], u) /\ Linked(waitq'[o2], u) => o1 = o2
    BY <1>7 DEF IInv, WaitersSuspended
  <2> QED BY <2>1, <2>2, <2>3, <1>7, <1>8, <1>9, ThreadAssumption DEF WaitersSuspended, IInv, IdleReady
<1>14. CallsInProgress'
  <2>1. ASSUME NEW x \in Thread, pc[x] \in ClaimLabels, arg[x] = w PROVE pc[x] = "res_unlink"
    BY <2>1 DEF IInv, CallsInProgress, ClaimLabels
  <2>2. ASSUME NEW x \in Thread, pc[x] \in ClaimLabels
        PROVE  stat'[arg[x]] = stat[arg[x]] \/ (pc[x] = "res_unlink" /\ stat'[arg[x]] = "READY")
    <3>1. arg[x] \in Thread
      BY DEF IInv, TypeOK
    <3>2. CASE arg[x] = w
      BY <3>2, <2>1, <2>2, <1>9
    <3>3. CASE arg[x] # w
      BY <3>1, <3>3, <1>9
    <3> QED BY <3>2, <3>3
  <2>3. ASSUME NEW u \in Thread, Loose(u) PROVE Loose(u)'
    <3>1. u # w
      BY <2>3
    <3> QED BY <2>3, <3>1, <1>6, <1>7, <1>8 DEF Loose
  <2>4. \A x \in Thread : pc'[x] \in ClaimLabels =>
          pc'[x] = pc[x] /\ arg'[x] = arg[x]
          /\ (stat'[arg[x]] = stat[arg[x]] \/ (pc[x] = "res_unlink" /\ stat'[arg[x]] = "READY"))
    BY <2>2
  <2>5. lock > 0 /\ pc[cur] \in ClaimLabels => lock' > 0 /\ cur' = cur
    OBVIOUS
  <2> QED BY <2>3, <2>4, <2>5, CallsKept
<1>15. \E p \in Prio : Linked(ready'[p], Idle)
  BY <1>6, IdleLinked
<1>16. lock = 0 => \A p \in group' : ready'[p] # <<>>
  BY <1>12, <1>5 DEF BitmapExact
<1>17. \A p \in Prio : ready'[p] # <<>> => p \in group'
  BY <1>12 DEF BitmapExact
<1> QED BY <1>5, <1>7, <1>8, <1>11, <1>12, <1>13, <1>14, <1>15, <1>16, <1>17

\* What rt_schedule leaves behind, in the state a step leads to.
LEMMA PickedFacts ==
  ASSUME cur \in Thread, UNCHANGED lock, ReadyTable', CallsInProgress', RunnerStarted,
         ready' \in [Prio -> Seq(Thread)], group' \in SUBSET Prio,
         \E p \in Prio : Linked(ready'[p], Idle),
         \A p \in Prio : ready'[p] # <<>> => p \in group',
         lock = 0 => \A p \in group' : ready'[p] # <<>>,
         cur' = Scheduled(ready', group'), pc' = pc, arg' = arg,
         stat[cur] # "READY" => stat'[cur] \in {stat[cur], "READY"},
         stat[cur] = "READY" => stat'[cur] = "READY"
  PROVE  cur' \in Thread /\ CurrentIsHighest' /\ RunnerStarted'
<1>1. /\ cur' \in Thread
      /\ lock = 0 => \E p \in Prio : Linked(ready'[p], cur')
      /\ lock # 0 => cur' = cur
  BY ScheduledFacts
<1>2. CurrentIsHighest'
  BY DEF CurrentIsHighest, Scheduled
<1>3. RunnerStarted'
  <2>1. lock = 0 => stat'[cur'] = "READY"
    BY <1>1 DEF ReadyTable
  <2>2. \A x \in Thread : pc'[x] = "start_insert" => stat'[arg'[x]] = "SUSPEND"
    BY DEF CallsInProgress
  <2>3. CASE lock = 0
    BY <2>1, <2>2, <2>3 DEF RunnerStarted
  <2>4. CASE lock # 0
    BY <2>4, <1>1 DEF RunnerStarted
  <2> QED BY <2>3, <2>4
<1> QED BY <1>1, <1>2, <1>3

LEMMA IpcResumeStep ==
  ASSUME IInv, NEW t \in Thread, NEW o \in Ipc, IpcResume(t, o)
  PROVE  IInv'
<1>1. PICK w \in Thread : w = Head(waitq[o]) /\ Linked(waitq[o], w)
  BY HeadFacts DEF IpcResume, WakeFirst, IInv, TypeOK
<1>2. /\ UNCHANGED <<prio, cur, lock, tick, slice, err, arg, isr>>
      /\ cur = t /\ pc[t] = "run"
      /\ StopTimer(w) /\ waitq' = UnlinkAll(waitq, w)
      /\ InsertThread(UnlinkAll(ready, w), w)
      /\ pc' = [pc EXCEPT ![t] = "sched"]
  BY <1>1 DEF IpcResume, WakeFirst, At, Goto, timeVars
<1>3. stat[w] = "SUSPEND" /\ ~Loose(w)
  BY <1>1 DEF IInv, WaitersSuspended, Loose
<1>4. /\ \A x \in Thread : pc[x] \in ClaimLabels \/ pc'[x] \in ClaimLabels =>
           pc'[x] = pc[x] /\ arg'[x] = arg[x]
      /\ UNCHANGED <<prio, lock>> /\ cur' = cur
  BY <1>2 DEF ClaimLabels, IInv, TypeOK
<1>5. /\ ReadyTable' /\ BitmapExact' /\ WaitersSuspended' /\ IdleReady' /\ CallsInProgress'
      /\ ready' \in [Prio -> Seq(Thread)] /\ group' \in SUBSET Prio
      /\ stat' = [stat EXCEPT ![w] = "READY"]
      /\ tmrs' \in Seq(Thread) /\ due' \in [Thread -> Tick]
      /\ waitq' \in [Ipc -> Seq(Thread)]
  BY <1>2, <1>3, <1>4, WakeFacts
<1>6. TypeOK'
  BY <1>2, <1>5 DEF IInv, TypeOK, Labels
<1>7. CurrentIsHighest' /\ RunnerStarted'
  BY <1>2, <1>5 DEF IInv, TypeOK, CurrentIsHighest, RunnerStarted, SchedLabels
<1> QED BY <1>5, <1>6, <1>7 DEF IInv

LEMMA IpcResumeIsrStep ==
  ASSUME IInv, NEW o \in Ipc, IpcResumeIsr(o)
  PROVE  IInv'
<1>1. PICK w \in Thread : w = Head(waitq[o]) /\ Linked(waitq[o], w)
  BY HeadFacts DEF IpcResumeIsr, WakeFirst, IInv, TypeOK
<1>2. /\ UNCHANGED <<prio, lock, tick, slice, err, pc, arg, isr>>
      /\ StopTimer(w) /\ waitq' = UnlinkAll(waitq, w)
      /\ InsertThread(UnlinkAll(ready, w), w)
      /\ cur' = Scheduled(ready', group')
  BY <1>1 DEF IpcResumeIsr, WakeFirst, timeVars, callVars
<1>3. stat[w] = "SUSPEND" /\ ~Loose(w)
  BY <1>1 DEF IInv, WaitersSuspended, Loose
<1>4. lock > 0 => cur' = cur
  BY <1>2 DEF Scheduled
<1>5. /\ ReadyTable' /\ BitmapExact' /\ WaitersSuspended' /\ IdleReady' /\ CallsInProgress'
      /\ ready' \in [Prio -> Seq(Thread)] /\ group' \in SUBSET Prio
      /\ stat' = [stat EXCEPT ![w] = "READY"]
      /\ tmrs' \in Seq(Thread) /\ due' \in [Thread -> Tick]
      /\ waitq' \in [Ipc -> Seq(Thread)]
      /\ \E p \in Prio : Linked(ready'[p], Idle)
      /\ \A p \in Prio : ready'[p] # <<>> => p \in group'
      /\ lock = 0 => \A p \in group' : ready'[p] # <<>>
  BY <1>2, <1>3, <1>4, WakeFacts
<1>6. cur' \in Thread /\ CurrentIsHighest' /\ RunnerStarted'
  <2>1. /\ cur \in Thread /\ UNCHANGED lock /\ RunnerStarted
        /\ stat[cur] # "READY" => stat'[cur] \in {stat[cur], "READY"}
        /\ stat[cur] = "READY" => stat'[cur] = "READY"
    BY <1>2, <1>5 DEF IInv, TypeOK
  <2> QED BY <2>1, <1>2, <1>5, PickedFacts
<1>7. TypeOK'
  BY <1>2, <1>5, <1>6 DEF IInv, TypeOK
<1> QED BY <1>5, <1>6, <1>7 DEF IInv

LEMMA ThreadTimeoutStep ==
  ASSUME IInv, ThreadTimeout
  PROVE  IInv'
<1>1. PICK w \in Thread : w = Head(tmrs) /\ Linked(tmrs, w)
  BY HeadFacts DEF ThreadTimeout, IInv, TypeOK
<1>2. /\ UNCHANGED <<prio, lock, tick, slice, pc, arg, isr>>
      /\ StopTimer(w) /\ waitq' = UnlinkAll(waitq, w)
      /\ InsertThread(UnlinkAll(ready, w), w)
      /\ err' = [err EXCEPT ![w] = "ETIMEOUT"]
      /\ cur' = Scheduled(ready', group')
  BY <1>1 DEF ThreadTimeout, timeVars, callVars
<1>3. stat[w] = "SUSPEND" /\ ~Loose(w)
  BY <1>1 DEF IInv, WaitersSuspended, Loose
<1>4. lock > 0 => cur' = cur
  BY <1>2 DEF Scheduled
<1>5. /\ ReadyTable' /\ BitmapExact' /\ WaitersSuspended' /\ IdleReady' /\ CallsInProgress'
      /\ ready' \in [Prio -> Seq(Thread)] /\ group' \in SUBSET Prio
      /\ stat' = [stat EXCEPT ![w] = "READY"]
      /\ tmrs' \in Seq(Thread) /\ due' \in [Thread -> Tick]
      /\ waitq' \in [Ipc -> Seq(Thread)]
      /\ \E p \in Prio : Linked(ready'[p], Idle)
      /\ \A p \in Prio : ready'[p] # <<>> => p \in group'
      /\ lock = 0 => \A p \in group' : ready'[p] # <<>>
  BY <1>2, <1>3, <1>4, WakeFacts
<1>6. cur' \in Thread /\ CurrentIsHighest' /\ RunnerStarted'
  <2>1. /\ cur \in Thread /\ UNCHANGED lock /\ RunnerStarted
        /\ stat[cur] # "READY" => stat'[cur] \in {stat[cur], "READY"}
        /\ stat[cur] = "READY" => stat'[cur] = "READY"
    BY <1>2, <1>5 DEF IInv, TypeOK
  <2> QED BY <2>1, <1>2, <1>5, PickedFacts
<1>7. TypeOK'
  BY <1>2, <1>5, <1>6 DEF IInv, TypeOK
<1> QED BY <1>5, <1>6, <1>7 DEF IInv

-----------------------------------------------------------------------------
(* Yielding and the tick                                                   *)

\* rt_thread_yield changes the order of one list and nothing else.
LEMMA YieldTableFacts ==
  ASSUME IInv, NEW t \in Thread
  PROVE  /\ YieldTable(t) \in [Prio -> Seq(Thread)]
         /\ \A p \in Prio : Once(YieldTable(t)[p])
         /\ \A p \in Prio : \A m : Linked(YieldTable(t)[p], m) <=> Linked(ready[p], m)
         /\ \A p \in Prio : YieldTable(t)[p] # <<>> <=> ready[p] # <<>>
<1>1. /\ ready \in [Prio -> Seq(Thread)] /\ \A p \in Prio : Once(ready[p])
  BY DEF IInv, TypeOK, ReadyTable
<1>2. CASE ~Yields(t)
  <2>1. YieldTable(t) = ready
    BY <1>2 DEF YieldTable
  <2> QED BY <2>1, <1>1
<1>3. CASE Yields(t)
  <2>0. PICK d \in Prio : d = prio[t]
    BY DEF IInv, TypeOK
  <2> DEFINE q == UnlinkAll(ready, t)
  <2>1. /\ q \in [Prio -> Seq(Thread)] /\ \A p \in Prio : Once(q[p])
        /\ \A p \in Prio : \A m : Linked(q[p], m) <=> Linked(ready[p], m) /\ m # t
        /\ \A p \in Prio : q[p] # <<>> => ready[p] # <<>>
    BY <1>1, UnlinkAllFacts, ZenonT(40)
  <2>2. /\ YieldTable(t) = LinkAt(q, d, t) /\ d \in Prio /\ Linked(ready[d], t)
        /\ \A p \in Prio : Linked(ready[p], t) => p = d
    BY <1>3, <2>0 DEF YieldTable, Yields, IInv, TypeOK, ReadyTable
  <2> HIDE DEF q
  <2>3. \A p \in Prio : Once(q[p]) /\ ~Linked(q[p], t)
    BY <2>1
  <2>4. /\ LinkAt(q, d, t) \in [Prio -> Seq(Thread)]
        /\ \A p \in Prio : Once(LinkAt(q, d, t)[p])
        /\ \A p \in Prio : \A m : Linked(LinkAt(q, d, t)[p], m) <=> Linked(q[p], m) \/ (p = d /\ m = t)
        /\ \A p \in Prio : LinkAt(q, d, t)[p] # <<>> <=> q[p] # <<>> \/ p = d
    <3>1. q \in [Prio -> Seq(Thread)] /\ d \in Prio
      BY <2>1
    <3> QED BY <3>1, <2>3, LinkAtFacts, ZenonT(40)
  <2>5. \A p \in Prio : \A m : Linked(YieldTable(t)[p], m) <=> Linked(ready[p], m)
    BY <2>1, <2>2, <2>4
  <2>6. ASSUME NEW p \in Prio PROVE YieldTable(t)[p] # <<>> <=> ready[p] # <<>>
    <3>1. YieldTable(t)[p] \in Seq(Thread) /\ ready[p] \in Seq(Thread)
      BY <2>2, <2>4, <1>1
    <3> QED BY <3>1, <2>5, HeadFacts
  <2> QED BY <2>2, <2>4, <2>5, <2>6
<1> QED BY <1>2, <1>3

LEMMA ThreadYieldStep ==
  ASSUME IInv, NEW t \in Thread, ThreadYield(t)
  PROVE  IInv'
<1>1. /\ UNCHANGED <<group, stat, prio, tmrs, waitq, cur, lock, tick, slice, due, err, arg, isr>>
      /\ cur = t /\ pc[t] = "run"
      /\ ready' = YieldTable(t)
      /\ pc' = [pc EXCEPT ![t] = "sched"]
  BY DEF ThreadYield, At, Goto, timeVars, tmrVars
<1>2. /\ ready' \in [Prio -> Seq(Thread)]
      /\ \A p \in Prio : Once(ready'[p])
      /\ \A p \in Prio : \A m : Linked(ready'[p], m) <=> Linked(ready[p], m)
      /\ \A p \in Prio : ready'[p] # <<>> <=> ready[p] # <<>>
  BY <1>1, YieldTableFacts
<1>3. /\ \A x \in Thread : pc[x] \notin Windows
      /\ \A p \in Prio : p \in group <=> ready[p] # <<>>
      /\ \A u \in Thread : stat[u] = "READY" => Linked(ready[prio[u]], u)
  BY <1>1, NoWindow DEF Windows
<1>4. TypeOK'
  BY <1>1, <1>2 DEF IInv, TypeOK, Labels
<1>5. ReadyTable'
  BY <1>1, <1>2, <1>3 DEF IInv, TypeOK, ReadyTable
<1>6. BitmapExact' /\ WaitersSuspended' /\ IdleReady'
  BY <1>1, <1>2, <1>3 DEF IInv, BitmapExact, WaitersSuspended, IdleReady
<1>7. CallsInProgress'
  <2>1. \A x \in Thread : pc'[x] \in ClaimLabels => x # t /\ pc'[x] = pc[x] /\ arg'[x] = arg[x]
    BY <1>1 DEF IInv, TypeOK, ClaimLabels
  <2>2. \A u \in Thread : Loose(u) => Loose(u)'
    BY <1>1, <1>2 DEF Loose
  <2> QED BY <2>1, <2>2, <1>1, CallsKept
<1>8. CurrentIsHighest' /\ RunnerStarted'
  BY <1>1 DEF IInv, TypeOK, CurrentIsHighest, RunnerStarted, SchedLabels
<1> QED BY <1>4, <1>5, <1>6, <1>7, <1>8 DEF IInv

LEMMA TickIncreaseStep ==
  ASSUME IInv, TickIncrease
  PROVE  IInv'
<1>1. /\ UNCHANGED <<group, stat, prio, lock, tmrs, waitq, due, err, pc, arg>>
      /\ isr' = "check"
      /\ tick' = (tick + 1) % TickMod
      /\ ready' = YieldTable(cur) \/ ready' = ready
      /\ cur' = Scheduled(ready', group) \/ (cur' = cur /\ ready' = ready)
      /\ slice' = [slice EXCEPT ![cur] = IF slice[cur] = 1 THEN InitTick[cur] ELSE @ - 1]
  BY DEF TickIncrease, YieldTable, tmrVars, callVars
<1>2. /\ ready' \in [Prio -> Seq(Thread)]
      /\ \A p \in Prio : Once(ready'[p])
      /\ \A p \in Prio : \A m : Linked(ready'[p], m) <=> Linked(ready[p], m)
      /\ \A p \in Prio : ready'[p] # <<>> <=> ready[p] # <<>>
  <2>1. /\ YieldTable(cur) \in [Prio -> Seq(Thread)]
        /\ \A p \in Prio : Once(YieldTable(cur)[p])
        /\ \A p \in Prio : \A m : Linked(YieldTable(cur)[p], m) <=> Linked(ready[p], m)
        /\ \A p \in Prio : YieldTable(cur)[p] # <<>> <=> ready[p] # <<>>
    BY YieldTableFacts DEF IInv, TypeOK
  <2>2. ready \in [Prio -> Seq(Thread)] /\ \A p \in Prio : Once(ready[p])
    BY DEF IInv, TypeOK, ReadyTable
  <2>3. CASE ready' = YieldTable(cur)
    BY <2>1, <2>3
  <2>4. CASE ready' = ready
    BY <2>2, <2>4
  <2>5. ready' = YieldTable(cur) \/ ready' = ready
    BY <1>1
  <2> QED BY <2>3, <2>4, <2>5
<1>3. tick' \in Tick
  BY <1>1, TickAssumption DEF IInv, TypeOK, Tick
<1>4. slice' \in [Thread -> Nat \ {0}]
  <2>1. /\ slice \in [Thread -> Nat \ {0}] /\ slice[cur] \in Nat \ {0}
        /\ InitTick[cur] \in Nat \ {0}
    BY TickAssumption DEF IInv, TypeOK
  <2>2. CASE slice[cur] = 1
    <3>1. slice' = [slice EXCEPT ![cur] = InitTick[cur]]
      BY <2>2, <1>1
    <3> QED BY <3>1, <2>1
  <2>3. CASE slice[cur] # 1
    <3>1. slice' = [slice EXCEPT ![cur] = slice[cur] - 1]
      BY <2>3, <1>1
    <3>2. slice[cur] - 1 \in Nat \ {0}
      BY <2>1, <2>3
    <3> QED BY <3>1, <3>2, <2>1
  <2> QED BY <2>2, <2>3
<1>5. \A u \in Thread : InTransit(u)' <=> InTransit(u)
  BY <1>1 DEF InTransit
<1>6. ReadyTable'
  BY <1>1, <1>2, <1>5 DEF IInv, TypeOK, ReadyTable
<1>7. BitmapExact' /\ WaitersSuspended' /\ IdleReady'
  BY <1>1, <1>2 DEF IInv, BitmapExact, WaitersSuspended, IdleReady
<1>8. lock > 0 => cur' = cur
  BY <1>1 DEF Scheduled
<1>9. CallsInProgress'
  <2>1. \A u \in Thread : Loose(u) => Loose(u)'
    BY <1>1, <1>2 DEF Loose
  <2> QED BY <2>1, <1>1, <1>8, CallsKept
<1>10. cur' \in Thread /\ CurrentIsHighest' /\ RunnerStarted'
  <2>1. CASE cur' = Scheduled(ready', group)
    <3>1. /\ \E p \in Prio : Linked(ready'[p], Idle)
          /\ \A p \in Prio : ready'[p] # <<>> => p \in group'
          /\ lock = 0 => \A p \in group' : ready'[p] # <<>>
      BY <1>1, <1>2, IdleLinked DEF IInv, TypeOK, BitmapExact
    <3>2. /\ cur \in Thread /\ UNCHANGED lock /\ RunnerStarted
          /\ ready' \in [Prio -> Seq(Thread)] /\ group' \in SUBSET Prio
          /\ stat[cur] # "READY" => stat'[cur] \in {stat[cur], "READY"}
          /\ stat[cur] = "READY" => stat'[cur] = "READY"
          /\ cur' = Scheduled(ready', group') /\ pc' = pc /\ arg' = arg
      BY <2>1, <1>1, <1>2 DEF IInv, TypeOK
    <3> QED BY <3>1, <3>2, <1>6, <1>9, PickedFacts
  <2>2. CASE cur' = cur /\ ready' = ready
    BY <2>2, <1>1 DEF IInv, TypeOK, CurrentIsHighest, RunnerStarted, Choice, Highest
  <2> QED BY <2>1, <2>2, <1>1
<1>11. TypeOK'
  BY <1>1, <1>2, <1>3, <1>4, <1>10 DEF IInv, TypeOK
<1> QED BY <1>6, <1>7, <1>9, <1>10, <1>11 DEF IInv

-----------------------------------------------------------------------------
(* The theorems                                                            *)

LEMMA InitInv ==
  ASSUME Init
  PROVE  IInv
<1> DEFINE i == InitPrio[Idle]
           m == InitPrio[Main]
<1>1. /\ Idle \in Thread /\ Main \in Thread /\ Main # Idle
      /\ i \in Prio /\ m \in Prio /\ Prio \subseteq Int
      /\ InitPrio \in [Thread -> Prio]
  BY ThreadAssumption, PrioAssumption DEF Prio
<1>2. /\ \A p \in Prio : p \notin {i, m} => ready[p] = <<>>
      /\ i # m => ready[i] = <<Idle>> /\ ready[m] = <<Main>>
      /\ i = m => ready[m] = <<Main, Idle>>
      /\ ready = [p \in Prio |-> ready[p]]
  BY <1>1 DEF Init
<1>3. /\ group = {m, i} /\ prio = InitPrio /\ lock = 0 /\ tick = 0 /\ slice = InitTick
      /\ stat = [t \in Thread |-> IF t \in {Main, Idle} THEN "READY" ELSE "INIT"]
      /\ cur = IF i < m THEN Idle ELSE Main
      /\ tmrs = <<>> /\ due = [t \in Thread |-> 0] /\ waitq = [o \in Ipc |-> <<>>]
      /\ err = [t \in Thread |-> "OK"] /\ pc = [t \in Thread |-> "run"]
      /\ arg = [t \in Thread |-> t] /\ isr = "none"
  BY DEF Init
<1>4. \A p \in Prio : ready[p] \in Seq(Thread) /\ Once(ready[p])
  <2>1. /\ <<>> \in Seq(Thread) /\ <<Idle>> \in Seq(Thread) /\ <<Main>> \in Seq(Thread)
        /\ <<Main, Idle>> \in Seq(Thread)
    BY <1>1
  <2>2. Once(<<>>) /\ Once(<<Idle>>) /\ Once(<<Main>>) /\ Once(<<Main, Idle>>)
    BY <1>1 DEF Once
  <2> HIDE DEF i, m
  <2> QED BY <2>1, <2>2, <1>2
<1>5. \A p \in Prio : \A t : Linked(ready[p], t) <=> (p = i /\ t = Idle) \/ (p = m /\ t = Main)
  <2>1. \A t : /\ ~Linked(<<>>, t)
               /\ Linked(<<Idle>>, t) <=> t = Idle
               /\ Linked(<<Main>>, t) <=> t = Main
               /\ Linked(<<Main, Idle>>, t) <=> t = Main \/ t = Idle
    <3>1. /\ DOMAIN <<>> = {} /\ DOMAIN <<Idle>> = {1} /\ DOMAIN <<Main>> = {1}
          /\ DOMAIN <<Main, Idle>> = {1, 2}
      OBVIOUS
    <3>2. /\ <<Idle>>[1] = Idle /\ <<Main>>[1] = Main
          /\ <<Main, Idle>>[1] = Main /\ <<Main, Idle>>[2] = Idle
      OBVIOUS
    <3>3. \A t : ~Linked(<<>>, t)
      BY <3>1 DEF Linked
    <3>4. \A t : (Linked(<<Idle>>, t) <=> t = Idle) /\ (Linked(<<Main>>, t) <=> t = Main)
      BY <3>1, <3>2 DEF Linked
    <3>5. \A t : Linked(<<Main, Idle>>, t) <=> t = Main \/ t = Idle
      BY <3>1, <3>2 DEF Linked
    <3> QED BY <3>3, <3>4, <3>5
  <2> HIDE DEF i, m
  <2>2. ASSUME NEW p \in Prio, NEW t
        PROVE  Linked(ready[p], t) <=> (p = i /\ t = Idle) \/ (p = m /\ t = Main)
    <3>1. CASE p \notin {i, m}
      BY <3>1, <2>1, <1>2
    <3>2. CASE i # m /\ p = i
      BY <3>2, <2>1, <1>2
    <3>3. CASE i # m /\ p = m
      BY <3>3, <2>1, <1>2
    <3>4. CASE i = m /\ p = m
      BY <3>4, <2>1, <1>2
    <3> QED BY <3>1, <3>2, <3>3, <3>4
  <2> QED BY <2>2
<1>6. \A p \in Prio : p \in group <=> ready[p] # <<>>
  <2>1. <<Idle>> # <<>> /\ <<Main>> # <<>> /\ <<Main, Idle>> # <<>>
    OBVIOUS
  <2> HIDE DEF i, m
  <2> QED BY <2>1, <1>1, <1>2, <1>3
<1>7. TypeOK
  <2>1. 0 \in Tick /\ InitTick \in [Thread -> Nat \ {0}] /\ 0 \in 0..MaxNest
    BY TickAssumption, ApplicationAssumption DEF Tick
  <2>2. ready \in [Prio -> Seq(Thread)]
    BY <1>2, <1>4
  <2>3. tmrs \in Seq(Thread) /\ waitq \in [Ipc -> Seq(Thread)]
    BY <1>3
  <2> QED BY <2>1, <2>2, <2>3, <1>1, <1>3 DEF TypeOK, Labels
<1>8. ReadyTable
  BY <1>1, <1>3, <1>4, <1>5 DEF ReadyTable
<1>9. BitmapExact /\ IdleReady /\ RunnerStarted
  BY <1>1, <1>3, <1>6 DEF BitmapExact, IdleReady, RunnerStarted
<1>10. WaitersSuspended
  <2>1. \A t : ~Linked(<<>>, t)
    BY DEF Linked
  <2>2. Once(<<>>)
    BY DEF Once
  <2> QED BY <2>1, <2>2, <1>3 DEF WaitersSuspended
<1>11. CallsInProgress
  BY <1>3 DEF CallsInProgress, ClaimLabels
<1>12. CurrentIsHighest
  <2>0. Highest(group) \in {m, i} /\ Highest(group) <= m /\ Highest(group) <= i
    BY <1>1, <1>3, HighestFacts
  <2>i. m \in Int /\ i \in Int
    BY <1>1
  <2>1. CASE i < m
    <3>1. Highest(group) = i
      BY <2>0, <2>i, <2>1
    <3> QED BY <3>1, <2>1, <1>1, <1>2, <1>3 DEF CurrentIsHighest, Choice
  <2>2. CASE ~(i < m)
    <3>1. Highest(group) = m
      BY <2>0, <2>i, <2>2
    <3>2. Head(ready[m]) = Main
      BY <1>2, <1>1
    <3> QED BY <3>1, <3>2, <2>2, <1>3 DEF CurrentIsHighest, Choice
  <2> QED BY <2>1, <2>2
<1> QED BY <1>7, <1>8, <1>9, <1>10, <1>11, <1>12 DEF IInv

LEMMA NextInv ==
  ASSUME DetachUnarmed, IInv, [Next]_vars
  PROVE  IInv'
<1>1. CASE UNCHANGED vars
  <2>1. /\ UNCHANGED <<tableVars, cur, lock, tick, slice, due, err, pc, arg, isr>>
    BY <1>1 DEF vars, tableVars, schedVars, timeVars, tmrVars, callVars
  <2>2. TypeOK'
    BY <2>1 DEF IInv, TypeOK, tableVars
  <2>3. ReadyTable' /\ BitmapExact' /\ WaitersSuspended' /\ IdleReady'
    BY <2>1, TableKept DEF IInv, CallsInProgress, ClaimLabels
  <2>4. CallsInProgress'
    <3>1. \A u \in Thread : Loose(u) => Loose(u)'
      BY <2>1 DEF Loose, tableVars
    <3> QED BY <3>1, <2>1, CallsKept DEF tableVars
  <2>5. CurrentIsHighest' /\ RunnerStarted'
    BY <2>1 DEF IInv, CurrentIsHighest, RunnerStarted, Choice, Highest, tableVars
  <2> QED BY <2>2, <2>3, <2>4, <2>5 DEF IInv
<1>2. CASE Interrupt
  BY <1>2, TickIncreaseStep, ThreadTimeoutStep, TickReturnStep, IpcResumeIsrStep DEF Interrupt
<1>3. ASSUME NEW t \in Thread, Continue(t) PROVE IInv'
  BY <1>3, ScheduleStep, ResumeInsertStep, ResumeUnlinkStep, SuspendSectionStep,
     DetachTimerStep, DetachCloseStep, ReturnStep DEF Continue
<1>4. ASSUME NEW t \in Thread, Begin(t) PROVE IInv'
  <2>1. CASE EnterCritical(t) \/ ExitCritical(t) \/ ThreadYield(t) \/ ThreadExit(t)
    BY <2>1, EnterCriticalStep, ExitCriticalStep, ThreadYieldStep, ThreadExitStep
  <2>2. CASE \E s \in Thread : ThreadStartup(t, s)
    BY <2>2, ThreadStartupStep
  <2>3. CASE \E s \in Movable : ThreadResume(t, s) \/ ThreadSuspend(t, s)
    BY <2>3, ThreadResumeStep, ThreadSuspendStep
  <2>4. CASE \E s \in Detachable : ThreadDetach(t, s)
    BY <2>4, ThreadDetachStep
  <2>5. CASE \E s \in Thread, p \in NewPrios : ChangePriority(t, s, p)
    BY <2>5, ChangePriorityStep
  <2>6. CASE \E n \in SleepTicks : ThreadSleep(t, n)
    BY <2>6, ThreadSleepStep
  <2>7. CASE \E o \in Ipc, n \in WaitTicks : IpcSuspend(t, o, n)
    BY <2>7, IpcSuspendStep
  <2>8. CASE \E o \in Ipc : IpcResume(t, o)
    BY <2>8, IpcResumeStep
  <2> QED BY <1>4, <2>1, <2>2, <2>3, <2>4, <2>5, <2>6, <2>7, <2>8 DEF Begin
<1> QED BY <1>1, <1>2, <1>3, <1>4 DEF Next

LEMMA IInvAlways ==
  ASSUME DetachUnarmed
  PROVE  Spec => []IInv
<1>1. Init => IInv
  BY InitInv
<1>2. IInv /\ [Next]_vars => IInv'
  BY NextInv
<1> QED BY <1>1, <1>2, PTL DEF Spec

\* Every variable keeps its type: no list, bitmap, tick or nest counter of the
\* kernel ever leaves its range.
THEOREM TypeCorrect ==
  ASSUME DetachUnarmed
  PROVE  Spec => []TypeOK
<1>1. IInv => TypeOK
  BY DEF IInv
<1> QED BY <1>1, IInvAlways, PTL

\* The ready table of scheduler.c holds exactly the READY threads, each once, in
\* the list of its priority.
THEOREM ReadyTableExact ==
  ASSUME DetachUnarmed
  PROVE  Spec => []ReadyTable
<1>1. IInv => ReadyTable
  BY DEF IInv
<1> QED BY <1>1, IInvAlways, PTL

\* rt_thread_ready_priority_group names exactly the non-empty lists.
THEOREM BitmapMatchesTable ==
  ASSUME DetachUnarmed
  PROVE  Spec => []BitmapExact
<1>1. IInv => BitmapExact
  BY DEF IInv
<1> QED BY <1>1, IInvAlways, PTL

\* The scheduler's promise: the processor runs the first thread of the highest
\* ready priority whenever rt_schedule is free to choose.
THEOREM HighestRuns ==
  ASSUME DetachUnarmed
  PROVE  Spec => []CurrentIsHighest
<1>1. IInv => CurrentIsHighest
  BY DEF IInv
<1> QED BY <1>1, IInvAlways, PTL

\* The assertion of rt_thread_timeout: every thread whose timer runs, or that
\* waits, is suspended, and it waits on one object only.
THEOREM TimeoutAssertion ==
  ASSUME DetachUnarmed
  PROVE  Spec => []WaitersSuspended
<1>1. IInv => WaitersSuspended
  BY DEF IInv
<1> QED BY <1>1, IInvAlways, PTL

\* A closed thread is on no list of the kernel.
THEOREM ClosedOff ==
  ASSUME DetachUnarmed
  PROVE  Spec => []ClosedOffQueues
<1>1. IInv => ClosedOffQueues
  BY OtherLoose DEF ClosedOffQueues, Loose
<1> QED BY <1>1, IInvAlways, PTL

LEMMA ClosedStays ==
  ASSUME IInv, IInv', [Next]_vars, NEW u \in Thread, stat[u] = "CLOSE"
  PROVE  stat'[u] = "CLOSE" /\ cur' # u
<1>1. SUFFICES stat'[u] = "CLOSE"
  BY DEF IInv, RunnerStarted
<1>2. stat \in [Thread -> {"INIT", "READY", "SUSPEND", "CLOSE"}]
  BY DEF IInv, TypeOK
<1>3. CASE UNCHANGED vars
  BY <1>3 DEF vars, schedVars
<1>4. CASE TickIncrease \/ TickReturn
  BY <1>4 DEF TickIncrease, TickReturn, schedVars
<1>5. CASE ThreadTimeout
  <2>1. PICK w \in Thread : w = Head(tmrs) /\ Linked(tmrs, w)
    <3>1. tmrs \in Seq(Thread) /\ tmrs # <<>>
      BY <1>5 DEF ThreadTimeout, IInv, TypeOK
    <3> QED BY <3>1, HeadFacts
  <2>2. stat[w] = "SUSPEND" /\ stat' = [stat EXCEPT ![w] = "READY"]
    BY <1>5, <2>1 DEF ThreadTimeout, InsertThread, IInv, WaitersSuspended
  <2> QED BY <2>2, <1>2
<1>6. ASSUME NEW o \in Ipc, WakeFirst(o) PROVE stat'[u] = "CLOSE"
  <2>1. PICK w \in Thread : w = Head(waitq[o]) /\ Linked(waitq[o], w)
    <3>1. waitq[o] \in Seq(Thread) /\ waitq[o] # <<>>
      BY <1>6 DEF WakeFirst, IInv, TypeOK
    <3> QED BY <3>1, HeadFacts
  <2>2. stat[w] = "SUSPEND" /\ stat' = [stat EXCEPT ![w] = "READY"]
    BY <1>6, <2>1 DEF WakeFirst, InsertThread, IInv, WaitersSuspended
  <2> QED BY <2>2, <1>2
<1>7. CASE Interrupt
  BY <1>4, <1>5, <1>6, <1>7 DEF Interrupt, IpcResumeIsr
<1>8. ASSUME NEW t \in Thread, Continue(t) PROVE stat'[u] = "CLOSE"
  <2>1. CASE Schedule(t) \/ ResumeUnlink(t) \/ DetachTimer(t) \/ SleepReturn(t) \/ IpcReturn(t)
    BY <2>1 DEF Schedule, ResumeUnlink, DetachTimer, SleepReturn, IpcReturn, schedVars
  <2>2. CASE ResumeInsert(t)
    <3>1. cur = t /\ pc[t] \in ClaimLabels /\ stat[arg[t]] \in {"SUSPEND", "READY"}
      BY <2>2, ClaimedFacts DEF ResumeInsert, ClaimLabels
    <3>2. stat' = [stat EXCEPT ![arg[t]] = "READY"]
      BY <2>2 DEF ResumeInsert, InsertThread
    <3> QED BY <3>1, <3>2, <1>2
  <2>3. CASE SuspendSection(t)
    <3>1. stat[arg[t]] = "READY" /\ stat' = [stat EXCEPT ![arg[t]] = "SUSPEND"]
      BY <2>3, ClaimedFacts DEF SuspendSection, At, ClaimLabels
    <3> QED BY <3>1, <1>2
  <2>4. CASE DetachClose(t)
    BY <2>4, <1>2 DEF DetachClose
  <2> QED BY <1>8, <2>1, <2>2, <2>3, <2>4 DEF Continue
<1>9. ASSUME NEW t \in Thread, Begin(t) PROVE stat'[u] = "CLOSE"
  <2>1. CASE EnterCritical(t) \/ ExitCritical(t) \/ ThreadYield(t)
    BY <2>1 DEF EnterCritical, ExitCritical, ThreadYield, schedVars
  <2>2. CASE ThreadExit(t)
    BY <2>2, <1>2 DEF ThreadExit
  <2>3. ASSUME NEW s \in Thread, ThreadStartup(t, s) PROVE stat'[u] = "CLOSE"
    BY <2>3, <1>2 DEF ThreadStartup
  <2>4. CASE \E s \in Movable : ThreadResume(t, s) \/ ThreadSuspend(t, s)
    BY <2>4 DEF ThreadResume, ThreadSuspend, schedVars
  <2>5. CASE \E s \in Detachable : ThreadDetach(t, s)
    BY <2>5 DEF ThreadDetach
  <2>6. CASE \E s \in Thread, p \in NewPrios : ChangePriority(t, s, p)
    BY <2>6 DEF ChangePriority
  <2>7. ASSUME NEW n \in SleepTicks, ThreadSleep(t, n) PROVE stat'[u] = "CLOSE"
    BY <2>7, <1>2 DEF ThreadSleep
  <2>8. ASSUME NEW o \in Ipc, NEW n \in WaitTicks, IpcSuspend(t, o, n) PROVE stat'[u] = "CLOSE"
    <3>1. cur = t /\ pc[cur] = "run" /\ lock = 0 /\ stat' = [stat EXCEPT ![t] = "SUSPEND"]
      BY <2>8 DEF IpcSuspend, At
    <3>2. stat[t] = "READY"
      BY <3>1, RunnerReady
    <3> QED BY <3>1, <3>2, <1>2
  <2>9. ASSUME NEW o \in Ipc, IpcResume(t, o) PROVE stat'[u] = "CLOSE"
    BY <2>9, <1>6 DEF IpcResume
  <2> QED BY <1>9, <2>1, <2>2, <2>3, <2>4, <2>5, <2>6, <2>7, <2>8, <2>9 DEF Begin
<1> QED BY <1>3, <1>7, <1>8, <1>9 DEF Next

\* A closed thread never runs and never becomes ready again, whatever calls and
\* interrupts are still under way when it is closed.
THEOREM ClosedForGood ==
  ASSUME DetachUnarmed
  PROVE  Spec => ClosedIsFinal
<1>1. IInv /\ IInv' /\ [Next]_vars
        => [\A t \in Thread : stat[t] = "CLOSE" => stat'[t] = "CLOSE" /\ cur' # t]_vars
  BY ClosedStays
<1> QED BY <1>1, IInvAlways, PTL DEF Spec, ClosedIsFinal

-----------------------------------------------------------------------------
(* What a step does to the waiting lists and the timer list                *)

\* Nothing.
Keeps == UNCHANGED <<waitq, tmrs, due>>

\* Thread s comes off both.  Its timer only goes when it is made READY or is on
\* its way there, and in the tick interrupt only when it has expired.
TakesOff(s) ==
  /\ waitq' = UnlinkAll(waitq, s) /\ tmrs' = Unlink(tmrs, s)
  /\ \A u \in Thread \ {s} : due'[u] = due[u]
  /\ UNCHANGED <<tick, isr>>
  /\ Linked(tmrs, s) =>
       stat'[s] = "READY" \/ \E x \in Thread : pc'[x] = "res_insert" /\ arg'[x] = s
  /\ isr = "check" => tmrs # <<>> /\ s = Head(tmrs) /\ Expired(s)

\* Thread t, which waits for no object, starts to wait for one.
Waits(t, o) ==
  /\ \A l \in Ipc : ~Linked(waitq[l], t)
  /\ waitq' = [waitq EXCEPT ![o] = LinkBefore(waitq[o], t, Behind(o, t))]

\* Thread t sleeps or waits, with a time limit or without.
PutsOn(t) ==
  /\ isr = "none" /\ UNCHANGED <<tick, isr>>
  /\ waitq' = waitq \/ \E o \in Ipc : Waits(t, o)
  /\ \/ tmrs' = tmrs /\ ~Linked(tmrs, t) /\ \A u \in Thread \ {t} : due'[u] = due[u]
     \/ \E n \in 0..(HalfTick - 1) : StartTimer(t, n)

\* Nobody on a list: nothing to take off.
LEMMA NothingToUnlink ==
  ASSUME IInv, NEW s \in Thread, \A o \in Ipc : ~Linked(waitq[o], s)
  PROVE  UnlinkAll(waitq, s) = waitq
<1>1. waitq \in [Ipc -> Seq(Thread)]
  BY DEF IInv, TypeOK
<1>2. \A o \in Ipc : Unlink(waitq[o], s) = waitq[o]
  BY DEF Unlink
<1> QED BY <1>1, <1>2 DEF UnlinkAll

\* A thread that is not suspended is on none of these lists.
LEMMA OnlySuspended ==
  ASSUME IInv, NEW s \in Thread, stat[s] # "SUSPEND"
  PROVE  ~Linked(tmrs, s) /\ (\A o \in Ipc : ~Linked(waitq[o], s)) /\ Unlink(tmrs, s) = tmrs
BY DEF IInv, WaitersSuspended, Unlink

\* The timer of s is stopped.
LEMMA StopKeepsOthers ==
  ASSUME IInv, NEW s \in Thread, StopTimer(s)
  PROVE  tmrs' = Unlink(tmrs, s) /\ \A u \in Thread \ {s} : due'[u] = due[u]
BY DEF StopTimer, IInv, TypeOK

LEMMA InterruptEffects ==
  ASSUME IInv, Interrupt
  PROVE  \/ Keeps /\ (TickIncrease \/ TickReturn)
         \/ \E s \in Thread : TakesOff(s)
<1>1. CASE TickIncrease \/ TickReturn
  BY <1>1 DEF TickIncrease, TickReturn, Keeps, tmrVars
<1>2. CASE ThreadTimeout
  <2>1. PICK s \in Thread : s = Head(tmrs)
    BY <1>2 DEF ThreadTimeout, IInv, TypeOK
  <2>2. /\ StopTimer(s) /\ waitq' = UnlinkAll(waitq, s)
        /\ stat' = [stat EXCEPT ![s] = "READY"]
        /\ UNCHANGED <<tick, isr>> /\ tmrs # <<>> /\ Expired(s)
    BY <1>2, <2>1 DEF ThreadTimeout, InsertThread, timeVars
  <2>3. stat'[s] = "READY"
    BY <2>2 DEF IInv, TypeOK
  <2> QED BY <2>1, <2>2, <2>3, StopKeepsOthers DEF TakesOff
<1>3. CASE \E o \in Ipc : IpcResumeIsr(o)
  <2>1. PICK o \in Ipc : IpcResumeIsr(o)
    BY <1>3
  <2>2. PICK s \in Thread : s = Head(waitq[o])
    BY <2>1 DEF IpcResumeIsr, WakeFirst, IInv, TypeOK
  <2>3. /\ StopTimer(s) /\ waitq' = UnlinkAll(waitq, s)
        /\ stat' = [stat EXCEPT ![s] = "READY"]
        /\ UNCHANGED <<tick, isr>> /\ isr = "none"
    BY <2>1, <2>2 DEF IpcResumeIsr, WakeFirst, InsertThread, timeVars
  <2>4. stat'[s] = "READY"
    BY <2>3 DEF IInv, TypeOK
  <2> QED BY <2>3, <2>4, StopKeepsOthers DEF TakesOff
<1> QED BY <1>1, <1>2, <1>3 DEF Interrupt

LEMMA ContinueEffects ==
  ASSUME IInv, NEW t \in Thread, Continue(t)
  PROVE  \/ Keeps /\ UNCHANGED <<tick, isr>>
         \/ \E s \in Thread : TakesOff(s)
<1>1. CASE Schedule(t) \/ ResumeInsert(t) \/ DetachClose(t) \/ SleepReturn(t) \/ IpcReturn(t)
  BY <1>1 DEF Schedule, ResumeInsert, DetachClose, SleepReturn, IpcReturn, Goto, Leave, Keeps,
     timeVars, tmrVars
<1> PICK s \in Thread : s = arg[t]
  BY DEF IInv, TypeOK
<1>2. CASE ResumeUnlink(t)
  <2>1. /\ StopTimer(s) /\ waitq' = UnlinkAll(waitq, s)
        /\ pc' = [pc EXCEPT ![t] = "res_insert"] /\ arg' = arg
        /\ UNCHANGED <<tick, isr>> /\ isr = "none"
    BY <1>2 DEF ResumeUnlink, At, Goto, timeVars
  <2>2. pc'[t] = "res_insert" /\ arg'[t] = s
    BY <2>1 DEF IInv, TypeOK
  <2> QED BY <2>1, <2>2, StopKeepsOthers DEF TakesOff
<1>3. CASE SuspendSection(t)
  <2>1. /\ StopTimer(s) /\ waitq' = UnlinkAll(waitq, s)
        /\ UNCHANGED <<tick, isr>> /\ isr = "none" /\ cur = t /\ pc[t] = "susp"
    BY <1>3 DEF SuspendSection, RemoveThread, At, Leave, timeVars
  <2>2. ~Linked(tmrs, s)
    BY <2>1, ClaimedFacts, OnlySuspended DEF ClaimLabels
  <2> QED BY <2>1, <2>2, StopKeepsOthers DEF TakesOff
<1>4. CASE DetachTimer(t)
  <2>1. /\ StopTimer(s) /\ waitq' = waitq
        /\ UNCHANGED <<tick, isr>> /\ isr = "none" /\ cur = t /\ pc[t] = "det_timer"
    BY <1>4 DEF DetachTimer, At, Goto, timeVars
  <2>2. Loose(s)
    BY <2>1, ClaimedFacts DEF ClaimLabels
  <2>3. waitq' = UnlinkAll(waitq, s) /\ ~Linked(tmrs, s)
    BY <2>1, <2>2, NothingToUnlink DEF Loose
  <2> QED BY <2>1, <2>3, StopKeepsOthers DEF TakesOff
<1> QED BY <1>1, <1>2, <1>3, <1>4 DEF Continue

\* The limits calls are given keep clear of half the range of rt_tick_t.
LEMMA Limits ==
  /\ SleepTicks \subseteq 0..(HalfTick - 1) /\ WaitTicks \subseteq 0..(HalfTick - 1)
  /\ HalfTick \in Nat /\ 2 * HalfTick < TickMod /\ HalfTick > 1
BY TickAssumption DEF HalfTick

LEMMA BeginEffects ==
  ASSUME DetachUnarmed, IInv, NEW t \in Thread, Begin(t)
  PROVE  \/ Keeps /\ UNCHANGED <<tick, isr>>
         \/ \E s \in Thread : TakesOff(s)
         \/ PutsOn(t)
<1>1. CASE EnterCritical(t) \/ ExitCritical(t) \/ ThreadYield(t)
  BY <1>1 DEF EnterCritical, ExitCritical, ThreadYield, Goto, Keeps, timeVars, tmrVars
<1>2. CASE ThreadExit(t)
  <2>1. /\ StopTimer(t) /\ waitq' = UnlinkAll(waitq, t)
        /\ UNCHANGED <<tick, isr>> /\ isr = "none" /\ cur = t /\ pc[t] = "run" /\ lock = 0
    BY <1>2 DEF ThreadExit, RemoveThread, At, timeVars
  <2>2. ~Linked(tmrs, t)
    BY <2>1, RunnerReady, OnlySuspended
  <2> QED BY <2>1, <2>2, StopKeepsOthers DEF TakesOff
<1>3. CASE \E s \in Thread : ThreadStartup(t, s)
  BY <1>3 DEF ThreadStartup, Call, Keeps, timeVars, tmrVars
<1>4. CASE \E s \in Movable : ThreadResume(t, s) \/ ThreadSuspend(t, s)
  BY <1>4 DEF ThreadResume, ThreadSuspend, Call, Keeps, timeVars, tmrVars
<1>5. ASSUME NEW s \in Detachable, ThreadDetach(t, s)
      PROVE  (Keeps /\ UNCHANGED <<tick, isr>>) \/ TakesOff(s)
  <2>1. /\ UNCHANGED <<tmrs, due, tick, isr>> /\ isr = "none" /\ ~Linked(tmrs, s)
        /\ waitq' = waitq \/ waitq' = UnlinkAll(waitq, s)
    BY <1>5 DEF ThreadDetach, RemoveThread, Call, At, timeVars, tmrVars
  <2>2. tmrs' = Unlink(tmrs, s)
    BY <2>1 DEF Unlink
  <2> QED BY <2>1, <2>2 DEF TakesOff, Keeps
<1>6. CASE \E s \in Thread, p \in NewPrios : ChangePriority(t, s, p)
  BY <1>6 DEF ChangePriority, Keeps, timeVars, tmrVars
<1>7. ASSUME NEW n \in SleepTicks, ThreadSleep(t, n) PROVE PutsOn(t)
  <2>1. /\ StartTimer(t, n) /\ isr = "none" /\ UNCHANGED <<tick, isr>>
        /\ stat[t] = "READY" => waitq' = UnlinkAll(waitq, t)
        /\ stat[t] # "READY" => waitq' = waitq
    BY <1>7 DEF ThreadSleep, RemoveThread, At, Goto, timeVars
  <2>2. waitq' = waitq
    BY <2>1, NothingToUnlink, OnlySuspended
  <2> QED BY <2>1, <2>2, Limits DEF PutsOn
<1>8. ASSUME NEW o \in Ipc, NEW n \in WaitTicks, IpcSuspend(t, o, n) PROVE PutsOn(t)
  <2>1. /\ IF n > 0 THEN StartTimer(t, n) ELSE StopTimer(t)
        /\ isr = "none" /\ UNCHANGED <<tick, isr>> /\ cur = t /\ pc[t] = "run" /\ lock = 0
        /\ waitq' = [waitq EXCEPT ![o] = LinkBefore(waitq[o], t, Behind(o, t))]
    BY <1>8 DEF IpcSuspend, At, Goto, timeVars
  <2>2. ~Linked(tmrs, t) /\ (\A l \in Ipc : ~Linked(waitq[l], t)) /\ Unlink(tmrs, t) = tmrs
    BY <2>1, RunnerReady, OnlySuspended
  <2>3. Waits(t, o)
    BY <2>1, <2>2 DEF Waits
  <2>4. CASE n > 0
    BY <2>1, <2>3, <2>4, Limits DEF PutsOn
  <2>5. CASE ~(n > 0)
    BY <2>1, <2>2, <2>3, <2>5, StopKeepsOthers DEF PutsOn
  <2> QED BY <2>4, <2>5
<1>9. ASSUME NEW o \in Ipc, IpcResume(t, o) PROVE \E s \in Thread : TakesOff(s)
  <2>1. PICK s \in Thread : s = Head(waitq[o])
    BY <1>9 DEF IpcResume, WakeFirst, IInv, TypeOK
  <2>2. /\ StopTimer(s) /\ waitq' = UnlinkAll(waitq, s)
        /\ stat' = [stat EXCEPT ![s] = "READY"]
        /\ UNCHANGED <<tick, isr>> /\ isr = "none"
    BY <1>9, <2>1 DEF IpcResume, WakeFirst, InsertThread, At, Goto, timeVars
  <2>3. stat'[s] = "READY"
    BY <2>2 DEF IInv, TypeOK
  <2> QED BY <2>2, <2>3, StopKeepsOthers DEF TakesOff
<1>10. Detachable \subseteq Thread
  BY ApplicationAssumption
<1> QED BY <1>1, <1>2, <1>3, <1>4, <1>5, <1>6, <1>7, <1>8, <1>9, <1>10 DEF Begin

\* So much for every step.
LEMMA Effects ==
  ASSUME DetachUnarmed, IInv, [Next]_vars
  PROVE  \/ Keeps /\ (UNCHANGED <<tick, isr>> \/ TickIncrease \/ TickReturn)
         \/ \E s \in Thread : TakesOff(s) \/ PutsOn(s)
<1>1. CASE UNCHANGED vars
  BY <1>1 DEF vars, Keeps, timeVars, tmrVars
<1>2. CASE Next
  BY <1>2, InterruptEffects, ContinueEffects, BeginEffects DEF Next
<1> QED BY <1>1, <1>2

\* No sleeping or waiting thread loses its timer without being made runnable,
\* whichever of the calls and interrupts takes the timer off the list.
THEOREM TimersKept ==
  ASSUME DetachUnarmed
  PROVE  Spec => TimerNeverDropped
<1>1. ASSUME IInv, [Next]_vars, NEW t \in Thread, Linked(tmrs, t), ~Linked(tmrs', t)
      PROVE  stat'[t] = "READY" \/ \E x \in Thread : pc'[x] = "res_insert" /\ arg'[x] = t
  <2>1. tmrs \in Seq(Thread) /\ Once(tmrs)
    BY <1>1 DEF IInv, TypeOK, WaitersSuspended
  <2>2. ASSUME NEW s \in Thread, TakesOff(s) PROVE t = s
    BY <1>1, <2>1, <2>2, UnlinkFacts DEF TakesOff
  <2>3. ASSUME NEW s \in Thread, PutsOn(s) PROVE FALSE
    <3>1. PICK n \in 0..(HalfTick - 1) : StartTimer(s, n)
      BY <1>1, <2>3 DEF PutsOn
    <3>2. n \in Nat
      OBVIOUS
    <3> QED BY <1>1, <2>1, <3>1, <3>2, StartTimerFacts DEF IInv
  <2>4. ~Keeps
    BY <1>1 DEF Keeps
  <2> QED BY <1>1, <2>2, <2>3, <2>4, Effects DEF TakesOff
<1>2. IInv /\ [Next]_vars
        => [\A t \in Thread : Linked(tmrs, t) /\ ~Linked(tmrs', t)
             => stat'[t] = "READY" \/ \E x \in Thread : pc'[x] = "res_insert" /\ arg'[x] = t]_vars
  BY <1>1
<1> QED BY <1>2, IInvAlways, PTL DEF Spec, TimerNeverDropped

-----------------------------------------------------------------------------
(* The timer list is in order of expiry                                    *)

\* The tick the list was last checked at: rt_timer_check has still to come while
\* isr is "check".
Checked == IF isr = "check" THEN Diff(tick, 1) ELSE tick

\* The ticks t had left then.
Left(t) == Diff(due[t], Checked)

\* No running timer is more than half the range of rt_tick_t away, and none comes
\* before one that is due earlier.
TimersInOrder ==
  /\ \A t \in Thread : Linked(tmrs, t) => Left(t) < HalfTick
  /\ \A x \in Thread : \A y \in Thread : Before(tmrs, x, y) => Left(x) <= Left(y)

\* Subtraction on rt_tick_t.
LEMMA DiffFacts ==
  ASSUME NEW a \in Tick, NEW b \in Tick
  PROVE  /\ Diff(a, b) \in Tick
         /\ Diff(a, b) = IF a >= b THEN a - b ELSE (a - b) + TickMod
<1>1. TickMod \in Nat /\ TickMod > 4 /\ a \in 0..(TickMod - 1) /\ b \in 0..(TickMod - 1)
  BY TickAssumption DEF Tick
<1>2. CASE a >= b
  <2>1. (a - b) % TickMod = a - b
    BY <1>1, <1>2
  <2> QED BY <2>1, <1>1, <1>2 DEF Diff, Tick
<1>3. CASE a < b
  <2>1. (a - b) % TickMod = (a - b) + TickMod
    BY <1>1, <1>3
  <2> QED BY <2>1, <1>1, <1>3 DEF Diff, Tick
<1> QED BY <1>1, <1>2, <1>3

\* Addition on rt_tick_t.
LEMMA SumFacts ==
  ASSUME NEW a \in Tick, NEW n \in Tick
  PROVE  /\ (a + n) % TickMod \in Tick
         /\ (a + n) % TickMod = IF a + n < TickMod THEN a + n ELSE (a + n) - TickMod
<1>1. TickMod \in Nat /\ TickMod > 4 /\ a \in 0..(TickMod - 1) /\ n \in 0..(TickMod - 1)
  BY TickAssumption DEF Tick
<1>2. CASE a + n < TickMod
  <2>1. (a + n) % TickMod = a + n
    BY <1>1, <1>2
  <2> QED BY <2>1, <1>1, <1>2 DEF Tick
<1>3. CASE a + n >= TickMod
  <2>1. (a + n) % TickMod = (a + n) - TickMod
    BY <1>1, <1>3
  <2> QED BY <2>1, <1>1, <1>3 DEF Tick
<1> QED BY <1>1, <1>2, <1>3

LEMMA LeftFacts ==
  ASSUME TypeOK
  PROVE  /\ Checked \in Tick
         /\ \A u \in Thread : due[u] \in Tick /\ Left(u) \in Tick
         /\ Tick \subseteq Nat /\ 1 \in Tick
<1>1. tick \in Tick /\ 1 \in Tick /\ Tick \subseteq Nat
  BY TickAssumption DEF TypeOK, Tick
<1>2. Checked \in Tick
  BY <1>1, DiffFacts DEF Checked
<1> QED BY <1>1, <1>2, DiffFacts DEF Left, TypeOK

\* A thread comes off the list, and no other timer changes.
LEMMA TakesOffInOrder ==
  ASSUME IInv, TimersInOrder, NEW s \in Thread, TakesOff(s)
  PROVE  TimersInOrder'
<1>1. tmrs \in Seq(Thread) /\ Once(tmrs)
  BY DEF IInv, TypeOK, WaitersSuspended
<1>2. /\ tmrs' = Unlink(tmrs, s)
      /\ \A m : Linked(tmrs', m) <=> Linked(tmrs, m) /\ m # s
      /\ tmrs' \in Seq(Thread)
  BY <1>1, UnlinkFacts DEF TakesOff
<1>3. \A u \in Thread \ {s} : Left(u)' = Left(u)
  BY DEF TakesOff, Left, Checked
<1>4. ASSUME NEW x \in Thread, NEW y \in Thread, Before(tmrs', x, y)
      PROVE  Left(x)' <= Left(y)'
  <2>1. Linked(tmrs', x) /\ Linked(tmrs', y)
    BY <1>4 DEF Before, Linked
  <2>2. Before(tmrs, x, y)
    BY <1>1, <1>2, <1>4, UnlinkOrder
  <2> QED BY <1>2, <1>3, <2>1, <2>2 DEF TimersInOrder
<1> QED BY <1>2, <1>3, <1>4 DEF TimersInOrder

\* rt_timer_start looks for the first timer that is due after the new one.
LEMMA StartInOrder ==
  ASSUME IInv, TimersInOrder, NEW s \in Thread, NEW n \in 0..(HalfTick - 1), StartTimer(s, n),
         isr = "none", UNCHANGED <<tick, isr>>
  PROVE  TimersInOrder'
<1> DEFINE d == (tick + n) % TickMod
           l == Unlink(tmrs, s)
           S == {u \in Thread : ExpiresAfter(u, d)}
<1>1. /\ tmrs \in Seq(Thread) /\ Once(tmrs) /\ tick \in Tick /\ Tick \subseteq Nat
      /\ due \in [Thread -> Tick] /\ \A u \in Thread : due[u] \in Tick /\ Left(u) \in Tick
  BY LeftFacts DEF IInv, TypeOK, WaitersSuspended
<1>2. tmrs' = LinkBefore(l, s, S) /\ due' = [due EXCEPT ![s] = d]
  BY DEF StartTimer
<1>3. n \in Tick /\ n < HalfTick /\ HalfTick \in Nat /\ 2 * HalfTick < TickMod /\ TickMod \in Nat
  BY Limits, TickAssumption DEF Tick
<1>4. d \in Tick /\ d = IF tick + n < TickMod THEN tick + n ELSE (tick + n) - TickMod
  BY <1>1, <1>3, SumFacts
<1>5. /\ l \in Seq(Thread) /\ Once(l) /\ ~Linked(l, s)
      /\ \A m : Linked(l, m) <=> Linked(tmrs, m) /\ m # s
  BY <1>1, UnlinkFacts
<1>6. ASSUME NEW u \in Thread, Left(u) < HalfTick
      PROVE  u \in S <=> n < Left(u)
  <2>1. Left(u) = Diff(due[u], tick) /\ due[u] \in Tick
    BY <1>1 DEF Left, Checked
  <2>2. Left(u) = IF due[u] >= tick THEN due[u] - tick ELSE (due[u] - tick) + TickMod
    BY <1>1, <2>1, DiffFacts
  <2>3. Diff(due[u], d) = IF due[u] >= d THEN due[u] - d ELSE (due[u] - d) + TickMod
    BY <1>4, <2>1, DiffFacts
  <2>4. ExpiresAfter(u, d) <=> n < Left(u)
    <3>1. due[u] \in Nat /\ tick \in Nat /\ n \in Nat /\ due[u] < TickMod /\ tick < TickMod
      BY <1>1, <1>3, <2>1, TickAssumption DEF Tick
    <3> HIDE DEF d
    <3> QED BY <1>3, <1>4, <1>6, <2>2, <2>3, <3>1 DEF ExpiresAfter
  <2> QED BY <2>4
<1>7. Left(s)' = n
  <2>1. Left(s)' = Diff(d, tick)
    BY <1>1, <1>2 DEF Left, Checked
  <2>2. Diff(d, tick) = IF d >= tick THEN d - tick ELSE (d - tick) + TickMod
    BY <1>1, <1>4, DiffFacts
  <2>3. tick \in Nat /\ n \in Nat /\ tick < TickMod
    BY <1>1, <1>3, TickAssumption DEF Tick
  <2> HIDE DEF d
  <2> QED BY <1>3, <1>4, <2>1, <2>2, <2>3
<1>8. \A u \in Thread \ {s} : Left(u)' = Left(u)
  BY <1>1, <1>2 DEF Left, Checked
<1> HIDE DEF d, l, S
<1>9. /\ tmrs' \in Seq(Thread)
      /\ \A m : Linked(tmrs', m) <=> Linked(l, m) \/ m = s
  BY <1>2, <1>5, LinkBeforeFacts
<1>10. ASSUME NEW x \in Thread, NEW y \in Thread, Before(tmrs', x, y)
       PROVE  Left(x)' <= Left(y)'
  <2>1. \/ Before(l, x, y) /\ x # s /\ y # s
        \/ y = s /\ x \notin S /\ Linked(l, x)
        \/ x = s /\ Linked(l, y) /\ (y \in S \/ \E z \in S : Before(l, z, y))
    BY <1>2, <1>5, <1>10, LinkBeforeOrder
  <2>2. \A a \in Thread : \A b \in Thread : Before(l, a, b) => Left(a) <= Left(b)
    BY <1>1, UnlinkOrder DEF l, TimersInOrder
  <2>3. \A u \in Thread : Linked(l, u) => Left(u) < HalfTick /\ u # s
    BY <1>5 DEF TimersInOrder
  <2>4. CASE Before(l, x, y) /\ x # s /\ y # s
    BY <1>8, <2>2, <2>4
  <2>5. CASE y = s /\ x \notin S /\ Linked(l, x)
    <3>1. ~(n < Left(x)) /\ Left(x)' = Left(x) /\ Left(x) \in Nat
      BY <1>1, <1>6, <1>8, <2>3, <2>5
    <3> QED BY <1>3, <1>7, <2>5, <3>1
  <2>6. CASE x = s /\ Linked(l, y) /\ y \in S
    <3>1. n < Left(y) /\ Left(y)' = Left(y) /\ Left(y) \in Nat
      BY <1>1, <1>6, <1>8, <2>3, <2>6
    <3> QED BY <1>3, <1>7, <2>6, <3>1
  <2>7. ASSUME x = s, Linked(l, y), NEW z \in S, Before(l, z, y)
        PROVE  Left(x)' <= Left(y)'
    <3>1. z \in Thread /\ Linked(l, z)
      BY <2>7 DEF S, Before, Linked
    <3>2. n < Left(z) /\ Left(z) <= Left(y) /\ Left(y)' = Left(y) /\ Left(y) \in Nat /\ Left(z) \in Nat
      BY <1>1, <1>6, <1>8, <2>2, <2>3, <2>7, <3>1
    <3> QED BY <1>3, <1>7, <2>7, <3>2
  <2> QED BY <2>1, <2>4, <2>5, <2>6, <2>7
<1>11. ASSUME NEW u \in Thread, Linked(tmrs', u) PROVE Left(u)' < HalfTick
  BY <1>3, <1>5, <1>7, <1>8, <1>9, <1>11 DEF TimersInOrder
<1> QED BY <1>10, <1>11 DEF TimersInOrder

\* The tick goes on, and the list is to be checked at the new one.
LEMMA TickInOrder ==
  ASSUME IInv, TimersInOrder, TickIncrease, Keeps
  PROVE  TimersInOrder'
<1>1. tick \in Tick /\ 1 \in Tick /\ tick' = (tick + 1) % TickMod /\ isr = "none" /\ isr' = "check"
  BY LeftFacts DEF TickIncrease, IInv, TypeOK
<1>2. /\ tick' \in Tick
      /\ tick' = IF tick + 1 < TickMod THEN tick + 1 ELSE (tick + 1) - TickMod
  BY <1>1, SumFacts
<1>3. Diff(tick', 1) = IF tick' >= 1 THEN tick' - 1 ELSE (tick' - 1) + TickMod
  BY <1>1, <1>2, DiffFacts
<1>4. Diff(tick', 1) = tick
  BY <1>1, <1>2, <1>3, TickAssumption DEF Tick
<1>5. \A u \in Thread : Left(u)' = Left(u)
  BY <1>1, <1>4 DEF Keeps, Left, Checked
<1> QED BY <1>5 DEF Keeps, TimersInOrder

\* When a timer has expired, for which rt_timer_check uses half the range, it was
\* due now or the tick before.
LEMMA ExpiredFacts ==
  ASSUME TypeOK, isr = "check", NEW u \in Thread, Left(u) < HalfTick
  PROVE  /\ Expired(u) <=> Left(u) \in {0, 1}
         /\ Expired(u) => Diff(tick, due[u]) \in {0, 1}
         /\ ~Expired(u) => Diff(due[u], tick) = Left(u) - 1
<1>1. /\ tick \in Tick /\ due[u] \in Tick /\ 1 \in Tick /\ Checked \in Tick
      /\ Checked = Diff(tick, 1) /\ Left(u) = Diff(due[u], Checked)
  BY LeftFacts DEF TypeOK, Checked, Left
<1>2. Checked = IF tick >= 1 THEN tick - 1 ELSE (tick - 1) + TickMod
  BY <1>1, DiffFacts
<1>3. Left(u) = IF due[u] >= Checked THEN due[u] - Checked ELSE (due[u] - Checked) + TickMod
  BY <1>1, DiffFacts
<1>4. Diff(tick, due[u]) = IF tick >= due[u] THEN tick - due[u] ELSE (tick - due[u]) + TickMod
  BY <1>1, DiffFacts
<1>5. Diff(due[u], tick) = IF due[u] >= tick THEN due[u] - tick ELSE (due[u] - tick) + TickMod
  BY <1>1, DiffFacts
<1>6. /\ tick \in Nat /\ due[u] \in Nat /\ tick < TickMod /\ due[u] < TickMod
      /\ HalfTick \in Nat /\ HalfTick > 1 /\ 2 * HalfTick < TickMod /\ TickMod \in Nat
  BY <1>1, TickAssumption, Limits DEF Tick
<1> QED BY <1>2, <1>3, <1>4, <1>5, <1>6 DEF Expired

\* The first timer has not expired, so none has: the list is checked.
LEMMA CheckedInOrder ==
  ASSUME IInv, TimersInOrder, TickReturn, Keeps
  PROVE  TimersInOrder'
<1>1. /\ isr = "check" /\ isr' = "none" /\ tick' = tick
      /\ tmrs # <<>> => ~Expired(Head(tmrs))
      /\ tmrs \in Seq(Thread) /\ Once(tmrs) /\ TypeOK
      /\ \A u \in Thread : Left(u) \in Nat
  BY LeftFacts DEF TickReturn, timeVars, IInv, TypeOK, WaitersSuspended
<1>2. ASSUME NEW u \in Thread, Linked(tmrs, u)
      PROVE  Left(u)' = Left(u) - 1 /\ Left(u) < HalfTick
  <2>1. PICK h \in Thread : h = Head(tmrs) /\ Linked(tmrs, h) /\ ~Expired(h)
    BY <1>1, <1>2, HeadFacts
  <2>2. Left(h) < HalfTick /\ Left(u) < HalfTick
    BY <1>2, <2>1 DEF TimersInOrder
  <2>3. Left(h) <= Left(u)
    <3>1. CASE u = h
      BY <3>1, <1>1
    <3>2. CASE u # h
      BY <3>2, <1>1, <1>2, <2>1, HeadOrder, HeadFacts DEF TimersInOrder
    <3> QED BY <3>1, <3>2
  <2>4. Left(h) \notin {0, 1}
    BY <1>1, <2>1, <2>2, ExpiredFacts
  <2>5. Left(u) \notin {0, 1}
    BY <1>1, <2>3, <2>4
  <2>6. Diff(due[u], tick) = Left(u) - 1
    BY <1>1, <2>2, <2>5, ExpiredFacts
  <2> QED BY <1>1, <2>2, <2>6 DEF Keeps, Left, Checked
<1>3. ASSUME NEW x \in Thread, NEW y \in Thread, Before(tmrs', x, y)
      PROVE  Left(x)' <= Left(y)'
  <2>1. Before(tmrs, x, y) /\ Linked(tmrs, x) /\ Linked(tmrs, y)
    BY <1>3 DEF Keeps, Before, Linked
  <2> QED BY <1>1, <1>2, <2>1 DEF TimersInOrder
<1>4. HalfTick \in Nat
  BY Limits
<1>5. ASSUME NEW u \in Thread, Linked(tmrs', u) PROVE Left(u)' < HalfTick
  BY <1>1, <1>2, <1>4, <1>5 DEF Keeps
<1> QED BY <1>3, <1>5 DEF TimersInOrder

LEMMA TimersInOrderStep ==
  ASSUME DetachUnarmed, IInv, TimersInOrder, [Next]_vars
  PROVE  TimersInOrder'
<1>1. CASE Keeps /\ UNCHANGED <<tick, isr>>
  BY <1>1 DEF Keeps, TimersInOrder, Left, Checked
<1>2. CASE Keeps /\ (TickIncrease \/ TickReturn)
  BY <1>2, TickInOrder, CheckedInOrder
<1>3. ASSUME NEW s \in Thread, PutsOn(s) PROVE TimersInOrder'
  <2>1. CASE tmrs' = tmrs /\ ~Linked(tmrs, s) /\ \A u \in Thread \ {s} : due'[u] = due[u]
    <3>1. \A u \in Thread \ {s} : Left(u)' = Left(u)
      BY <1>3, <2>1 DEF PutsOn, Left, Checked
    <3>2. \A x \in Thread : \A y \in Thread : Before(tmrs, x, y) => Linked(tmrs, x) /\ Linked(tmrs, y)
      BY DEF Before, Linked
    <3> QED BY <2>1, <3>1, <3>2 DEF TimersInOrder
  <2>2. CASE \E n \in 0..(HalfTick - 1) : StartTimer(s, n)
    BY <1>3, <2>2, StartInOrder DEF PutsOn
  <2> QED BY <1>3, <2>1, <2>2 DEF PutsOn
<1> QED BY <1>1, <1>2, <1>3, Effects, TakesOffInOrder

LEMMA TimersAlwaysInOrder ==
  ASSUME DetachUnarmed
  PROVE  Spec => [](IInv /\ TimersInOrder)
<1>1. Init => TimersInOrder
  BY DEF Init, TimersInOrder, Linked, Before
<1>2. IInv /\ TimersInOrder /\ [Next]_vars => TimersInOrder'
  BY TimersInOrderStep
<1> QED BY <1>1, <1>2, IInvAlways, PTL DEF Spec

\* A thread timer fires on the tick it is due, or one tick later when it was started
\* with 0 ticks, and never before, however often rt_tick wraps around.
THEOREM TimersOnTime ==
  ASSUME DetachUnarmed
  PROVE  Spec => TimeoutOnTime
<1>1. ASSUME IInv, TimersInOrder, [Next]_vars, NEW t \in Thread,
             isr = "check", Linked(tmrs, t), ~Linked(tmrs', t)
      PROVE  Diff(tick, due[t]) \in {0, 1}
  <2>1. tmrs \in Seq(Thread) /\ Once(tmrs) /\ TypeOK
    BY <1>1 DEF IInv, TypeOK, WaitersSuspended
  <2>2. ASSUME NEW s \in Thread, TakesOff(s) PROVE Diff(tick, due[t]) \in {0, 1}
    <3>1. t = s /\ Expired(s)
      BY <1>1, <2>1, <2>2, UnlinkFacts DEF TakesOff
    <3>2. Left(t) < HalfTick
      BY <1>1 DEF TimersInOrder
    <3> QED BY <1>1, <2>1, <3>1, <3>2, ExpiredFacts
  <2>3. \A s \in Thread : ~PutsOn(s)
    BY <1>1 DEF PutsOn
  <2>4. ~Keeps
    BY <1>1 DEF Keeps
  <2> QED BY <1>1, <2>2, <2>3, <2>4, Effects
<1>2. IInv /\ TimersInOrder /\ [Next]_vars
        => [\A t \in Thread : isr = "check" /\ Linked(tmrs, t) /\ ~Linked(tmrs', t)
             => Diff(tick, due[t]) \in {0, 1}]_vars
  BY <1>1
<1> QED BY <1>2, TimersAlwaysInOrder, PTL DEF Spec, TimeoutOnTime

-----------------------------------------------------------------------------
(* Waiting lists in order of priority                                      *)

\* Nobody changes priorities.
LEMMA PrioKept ==
  ASSUME NewPrios = {}, IInv, prio = InitPrio, [Next]_vars
  PROVE  prio' = InitPrio
<1>1. CASE UNCHANGED vars
  BY <1>1 DEF vars, schedVars
<1>2. CASE Interrupt
  BY <1>2 DEF Interrupt, TickIncrease, ThreadTimeout, TickReturn, IpcResumeIsr, schedVars
<1>3. ASSUME NEW t \in Thread, Continue(t) PROVE prio' = InitPrio
  BY <1>3 DEF Continue, Schedule, ResumeInsert, ResumeUnlink, SuspendSection, DetachTimer,
     DetachClose, SleepReturn, IpcReturn, schedVars
<1>4. ASSUME NEW t \in Thread, NEW s \in Thread, ThreadStartup(t, s) PROVE prio' = InitPrio
  <2>1. prio' = [prio EXCEPT ![s] = prio[s]]
    BY <1>4 DEF ThreadStartup
  <2> QED BY <2>1 DEF IInv, TypeOK
<1>5. ASSUME NEW t \in Thread, Begin(t) PROVE prio' = InitPrio
  BY <1>4, <1>5 DEF Begin, EnterCritical, ExitCritical, ThreadYield, ThreadExit, ThreadResume,
     ThreadSuspend, ThreadDetach, ThreadSleep, IpcSuspend, IpcResume, schedVars
<1> QED BY <1>1, <1>2, <1>3, <1>5 DEF Next

\* WaitOrder, said of two threads.
LEMMA WaitOrderFacts ==
  WaitOrder <=> \A o \in PrioIpc : \A x, y : Before(waitq[o], x, y) => prio[x] <= prio[y]
BY DEF WaitOrder, Before

\* rt_ipc_list_suspend goes before the first waiter of a lower priority.
LEMMA WaitsInOrder ==
  ASSUME IInv, WaitOrder, NEW t \in Thread, NEW o \in Ipc, Waits(t, o), prio' = prio
  PROVE  WaitOrder'
<1>1. SUFFICES ASSUME NEW p \in PrioIpc, NEW x, NEW y, Before(waitq'[p], x, y)
               PROVE  prio[x] <= prio[y]
  BY DEF WaitOrder, Before
<1>2. /\ waitq \in [Ipc -> Seq(Thread)] /\ p \in Ipc /\ prio \in [Thread -> Prio]
      /\ \A u \in Thread : prio[u] \in Nat
      /\ \A a, b : Before(waitq[p], a, b) => prio[a] <= prio[b]
  BY ApplicationAssumption, PrioAssumption, WaitOrderFacts DEF IInv, TypeOK, Prio
<1>3. CASE p # o
  BY <1>1, <1>2, <1>3 DEF Waits
<1>4. CASE p = o
  <2> DEFINE l == waitq[p]  S == {u \in Thread : prio[t] < prio[u]}
  <2>1. /\ waitq'[p] = LinkBefore(l, t, S) /\ l \in Seq(Thread) /\ ~Linked(l, t)
    BY <1>2, <1>4 DEF Waits, Behind
  <2>2. /\ \A u : Linked(l, u) => u \in Thread
        /\ \A a, b : Before(l, a, b) => a \in Thread /\ b \in Thread
    BY <2>1, HeadFacts DEF Before, Linked
  <2>3. \A u \in Thread : u \in S <=> prio[t] < prio[u]
    OBVIOUS
  <2>i. \A a, b : Before(l, a, b) => prio[a] <= prio[b]
    BY <1>2
  <2> HIDE DEF l, S
  <2>4. \/ Before(l, x, y) /\ x # t /\ y # t
        \/ y = t /\ x \notin S /\ Linked(l, x)
        \/ x = t /\ Linked(l, y) /\ (y \in S \/ \E z \in S : Before(l, z, y))
    BY <1>1, <2>1, LinkBeforeOrder
  <2>5. CASE Before(l, x, y)
    BY <2>5, <2>i
  <2>6. CASE y = t /\ x \notin S /\ Linked(l, x)
    BY <1>2, <2>2, <2>3, <2>6
  <2>7. CASE x = t /\ y \in S /\ Linked(l, y)
    BY <1>2, <2>2, <2>3, <2>7
  <2>8. ASSUME x = t, NEW z \in S, Before(l, z, y) PROVE prio[x] <= prio[y]
    <3>1. z \in Thread /\ y \in Thread /\ prio[t] < prio[z] /\ prio[z] <= prio[y]
      BY <2>2, <2>3, <2>i, <2>8
    <3> QED BY <1>2, <2>8, <3>1
  <2> QED BY <2>4, <2>5, <2>6, <2>7, <2>8
<1> QED BY <1>3, <1>4

LEMMA WaitOrderStep ==
  ASSUME NewPrios = {}, DetachUnarmed, IInv, prio = InitPrio, WaitOrder, [Next]_vars
  PROVE  WaitOrder' /\ prio' = InitPrio
<1>1. prio' = prio /\ prio' = InitPrio
  BY PrioKept
<1>2. CASE Keeps
  BY <1>1, <1>2 DEF Keeps, WaitOrder
<1>3. ASSUME NEW s \in Thread, TakesOff(s) PROVE WaitOrder'
  <2>1. ASSUME NEW p \in PrioIpc, NEW x, NEW y, Before(waitq'[p], x, y)
        PROVE  prio'[x] <= prio'[y]
    <3>1. waitq[p] \in Seq(Thread) /\ waitq'[p] = Unlink(waitq[p], s)
      BY <1>3, ApplicationAssumption DEF TakesOff, UnlinkAll, IInv, TypeOK
    <3>2. Before(waitq[p], x, y)
      BY <2>1, <3>1, UnlinkOrder
    <3> QED BY <1>1, <3>2, WaitOrderFacts
  <2> QED BY <2>1 DEF WaitOrder, Before
<1>4. ASSUME NEW s \in Thread, PutsOn(s) PROVE WaitOrder'
  <2>1. CASE waitq' = waitq
    BY <1>1, <2>1 DEF WaitOrder
  <2> QED BY <1>1, <1>4, <2>1, WaitsInOrder DEF PutsOn
<1> QED BY <1>1, <1>2, <1>3, <1>4, Effects

\* While nobody changes priorities, the threads on the list of a PRIO object are in
\* the order of their priorities, whatever timers and other wake-ups take away.
THEOREM WaitersInOrder ==
  ASSUME NewPrios = {}, DetachUnarmed
  PROVE  Spec => []WaitOrder
<1>1. Init => prio = InitPrio /\ WaitOrder
  BY ApplicationAssumption DEF Init, WaitOrder
<1>2. IInv /\ prio = InitPrio /\ WaitOrder /\ [Next]_vars => WaitOrder' /\ (prio = InitPrio)'
  BY WaitOrderStep
<1> QED BY <1>1, <1>2, IInvAlways, PTL DEF Spec

-----------------------------------------------------------------------------
(* The kernel keeps the promise of RtWait                                  *)

\* The application makes IPC calls, and starts and ends threads; it does not sleep,
\* suspend, resume or detach threads or change priorities.
OnlyIpcCalls == SleepTicks = {} /\ NewPrios = {} /\ Movable = {} /\ Detachable = {}

\* Then only waiters have their timer running.
OnlyWaiters ==
  /\ prio = InitPrio
  /\ \A x \in Thread : pc[x] \notin {"res_unlink", "sleep_sched", "sleep_ret"}
  /\ \A t \in Thread : Linked(tmrs, t) => \E o \in Ipc : Linked(waitq[o], t)

\* A step that is none of the promise's business.
Unseen == waitq' = waitq /\ tmrs' = tmrs /\ err' = err

\* rt_ipc_list_resume in a thread or in an interrupt.
Wakes(o) == WakeFirst(o) /\ err' = err

LEMMA SeenSteps ==
  ASSUME OnlyIpcCalls, IInv, OnlyWaiters, [Next]_vars
  PROVE  \/ Unseen
         \/ ThreadTimeout
         \/ \E o \in Ipc : Wakes(o)
         \/ \E t \in Thread, o \in Ipc, n \in WaitTicks : IpcSuspend(t, o, n)
<1>1. CASE UNCHANGED vars
  BY <1>1 DEF vars, Unseen, tmrVars
<1>2. CASE Interrupt
  BY <1>2 DEF Interrupt, TickIncrease, TickReturn, IpcResumeIsr, Wakes, Unseen, tmrVars
<1>3. ASSUME NEW t \in Thread, Continue(t) PROVE Unseen
  <2>1. CASE Schedule(t) \/ ResumeInsert(t) \/ DetachClose(t) \/ IpcReturn(t)
    BY <2>1 DEF Schedule, ResumeInsert, DetachClose, IpcReturn, Goto, Leave, Unseen, tmrVars
  <2>2. ~ResumeUnlink(t) /\ ~SleepReturn(t)
    BY DEF OnlyWaiters, ResumeUnlink, SleepReturn, At
  <2> PICK s \in Thread : s = arg[t]
    BY DEF IInv, TypeOK
  <2>3. CASE SuspendSection(t)
    <3>1. /\ StopTimer(s) /\ waitq' = UnlinkAll(waitq, s) /\ err' = err
          /\ cur = t /\ pc[t] = "susp"
      BY <2>3 DEF SuspendSection, RemoveThread, At, Leave
    <3>2. stat[s] # "SUSPEND"
      BY <3>1, ClaimedFacts DEF ClaimLabels
    <3> QED BY <3>1, <3>2, OnlySuspended, NothingToUnlink, StopKeepsOthers DEF Unseen
  <2>4. CASE DetachTimer(t)
    <3>1. /\ StopTimer(s) /\ waitq' = waitq /\ err' = err
          /\ cur = t /\ pc[t] = "det_timer"
      BY <2>4 DEF DetachTimer, At, Goto
    <3>2. ~Linked(tmrs, s)
      BY <3>1, ClaimedFacts DEF ClaimLabels, Loose
    <3> QED BY <3>1, <3>2, StopKeepsOthers DEF Unseen, Unlink
  <2> QED BY <1>3, <2>1, <2>2, <2>3, <2>4 DEF Continue
<1>4. ASSUME NEW t \in Thread, Begin(t)
      PROVE  \/ Unseen
             \/ \E o \in Ipc : Wakes(o)
             \/ \E o \in Ipc, n \in WaitTicks : IpcSuspend(t, o, n)
  <2>1. CASE EnterCritical(t) \/ ExitCritical(t) \/ ThreadYield(t)
    BY <2>1 DEF EnterCritical, ExitCritical, ThreadYield, Goto, Unseen, tmrVars
  <2>2. CASE ThreadExit(t)
    <3>1. /\ StopTimer(t) /\ waitq' = UnlinkAll(waitq, t) /\ err' = err
          /\ cur = t /\ pc[t] = "run" /\ lock = 0
      BY <2>2 DEF ThreadExit, RemoveThread, At
    <3>2. stat[t] # "SUSPEND"
      BY <3>1, RunnerReady
    <3> QED BY <3>1, <3>2, OnlySuspended, NothingToUnlink, StopKeepsOthers DEF Unseen
  <2>3. CASE \E s \in Thread : ThreadStartup(t, s)
    BY <2>3 DEF ThreadStartup, Call, Unseen, tmrVars
  <2>4. CASE \E o \in Ipc : IpcResume(t, o)
    BY <2>4 DEF IpcResume, Wakes
  <2> QED BY <1>4, <2>1, <2>2, <2>3, <2>4 DEF Begin, OnlyIpcCalls
<1> QED BY <1>1, <1>2, <1>3, <1>4 DEF Next

\* The lists are those of RtWait.
LEMMA SameLists ==
  /\ \A l, n : (W!Linked(l, n) <=> Linked(l, n)) /\ W!Unlink(l, n) = Unlink(l, n)
  /\ \A l, n, S : W!LinkBefore(l, n, S) = LinkBefore(l, n, S)
<1>1. ASSUME NEW l, NEW n
      PROVE  (W!Linked(l, n) <=> Linked(l, n)) /\ W!Position(l, n) = Position(l, n)
  BY DEF W!Linked, W!Position, Linked, Position
<1>2. ASSUME NEW l, NEW p PROVE W!CutOut(l, p) = CutOut(l, p)
  BY DEF W!CutOut, CutOut
<1>3. ASSUME NEW l, NEW n PROVE W!Unlink(l, n) = Unlink(l, n)
  BY <1>1, <1>2 DEF W!Unlink, Unlink
<1>4. ASSUME NEW l, NEW S PROVE W!FirstOf(l, S) = FirstOf(l, S)
  BY DEF W!FirstOf, FirstOf
<1>5. ASSUME NEW l, NEW p, NEW n PROVE W!PutIn(l, p, n) = PutIn(l, p, n)
  BY DEF W!PutIn, PutIn
<1>6. ASSUME NEW l, NEW n, NEW S PROVE W!LinkBefore(l, n, S) = LinkBefore(l, n, S)
  BY <1>4, <1>5 DEF W!LinkBefore, LinkBefore
<1> QED BY <1>1, <1>3, <1>6

\* The first thread comes off its list, and it is on no other.
LEMMA FirstOff ==
  ASSUME NEW S, NEW l \in Seq(S), l # <<>>, Once(l)
  PROVE  Unlink(l, Head(l)) = Tail(l)
<1> DEFINE p == Position(l, Head(l))  r == CutOut(l, p)  u == Tail(l)
<1>1. Linked(l, Head(l)) /\ Head(l) = l[1] /\ 1 \in DOMAIN l
  BY HeadFacts
<1>2. p \in DOMAIN l /\ l[p] = Head(l)
  BY <1>1 DEF Linked, Position
<1>3. p = 1
  BY <1>1, <1>2 DEF Once
<1>4. /\ r \in Seq(S) /\ Len(r) = Len(l) - 1
      /\ \A i \in 1..(Len(l) - 1) : r[i] = l[i + 1]
  BY <1>3, CutOutElements
<1>5. /\ u \in Seq(S) /\ Len(u) = Len(l) - 1
      /\ \A i \in 1..(Len(l) - 1) : u[i] = l[i + 1]
  BY HeadTailProperties
<1>6. Unlink(l, Head(l)) = r
  BY <1>1 DEF Unlink
<1> HIDE DEF r, u, p
<1>7. r = u
  BY <1>4, <1>5, SeqEqual
<1> QED BY <1>6, <1>7 DEF u

\* No call gets to the labels of the calls that are not made.
LEMMA LabelsKept ==
  ASSUME OnlyIpcCalls, IInv, OnlyWaiters, [Next]_vars
  PROVE  \A x \in Thread : pc'[x] \notin {"res_unlink", "sleep_sched", "sleep_ret"}
<1> DEFINE Other == Labels \ {"res_unlink", "sleep_sched", "sleep_ret"}
           Moves(t) == \E l \in Other : pc' = [pc EXCEPT ![t] = l]
<1>0. pc \in [Thread -> Other]
  BY DEF IInv, TypeOK, OnlyWaiters
<1>1. ASSUME NEW t \in Thread, Continue(t) PROVE Moves(t)
  <2>1. CASE Schedule(t)
    BY <1>0, <2>1 DEF Schedule, SchedLabels, AfterSched, Goto, Labels
  <2>2. CASE ResumeInsert(t)
    BY <2>2 DEF ResumeInsert, Leave, Labels
  <2>3. CASE SuspendSection(t)
    <3>1. Leave(t, "sched") \/ Leave(t, "run")
      BY <2>3 DEF SuspendSection
    <3> QED BY <3>1 DEF Leave, Labels
  <2>4. CASE DetachTimer(t) \/ DetachClose(t)
    BY <2>4 DEF DetachTimer, DetachClose, Goto, Leave, Labels
  <2>5. CASE IpcReturn(t)
    BY <2>5 DEF IpcReturn, Goto, Labels
  <2>6. ~ResumeUnlink(t) /\ ~SleepReturn(t)
    BY DEF OnlyWaiters, ResumeUnlink, SleepReturn, At
  <2> QED BY <1>1, <2>1, <2>2, <2>3, <2>4, <2>5, <2>6 DEF Continue
<1>2. ASSUME NEW t \in Thread, Begin(t) PROVE pc' = pc \/ Moves(t)
  <2>1. CASE EnterCritical(t) \/ ThreadExit(t)
    BY <2>1 DEF EnterCritical, ThreadExit, callVars
  <2>2. CASE ExitCritical(t) \/ ThreadYield(t)
    BY <2>2 DEF ExitCritical, ThreadYield, Goto, Labels
  <2>3. ASSUME NEW s \in Thread, ThreadStartup(t, s) PROVE Moves(t)
    BY <2>3 DEF ThreadStartup, Call, Labels
  <2>4. ASSUME NEW o \in Ipc, IpcResume(t, o) PROVE Moves(t)
    BY <2>4 DEF IpcResume, Goto, Labels
  <2>5. ASSUME NEW o \in Ipc, NEW n \in WaitTicks, IpcSuspend(t, o, n) PROVE Moves(t)
    BY <2>5 DEF IpcSuspend, Goto, Labels
  <2> QED BY <1>2, <2>1, <2>2, <2>3, <2>4, <2>5 DEF Begin, OnlyIpcCalls
<1>3. CASE Interrupt \/ UNCHANGED vars
  <2> pc' = pc
    BY <1>3 DEF Interrupt, TickIncrease, ThreadTimeout, TickReturn, IpcResumeIsr, vars, callVars
  <2> QED BY DEF OnlyWaiters
<1>4. ASSUME NEW t \in Thread, pc' = pc \/ Moves(t)
      PROVE  \A x \in Thread : pc'[x] \notin {"res_unlink", "sleep_sched", "sleep_ret"}
  BY <1>0, <1>4
<1> QED BY <1>1, <1>2, <1>3, <1>4 DEF Next

\* Where the waiting threads are kept, for the promise.
TimersOfWaiters == \A t \in Thread : Linked(tmrs, t) => \E o \in Ipc : Linked(waitq[o], t)

\* Thread s is taken off its list and its timer is stopped.
LEMMA TakenOff ==
  ASSUME IInv, TimersOfWaiters, NEW s \in Thread, StopTimer(s), waitq' = UnlinkAll(waitq, s)
  PROVE  Armed' = Armed \ {s} /\ TimersOfWaiters'
<1>1. \A m : Linked(tmrs', m) <=> Linked(tmrs, m) /\ m # s
  BY StopTimerFacts DEF IInv, WaitersSuspended
<1>2. \A o \in Ipc : \A m : Linked(waitq'[o], m) <=> Linked(waitq[o], m) /\ m # s
  BY UnlinkWaitFacts
<1>3. TimersOfWaiters'
  BY <1>1, <1>2 DEF TimersOfWaiters
<1>4. Armed' = Armed \ {s}
  BY <1>1, <1>2 DEF Armed
<1> QED BY <1>3, <1>4

\* rt_thread_timeout.
LEMMA TimeoutKept ==
  ASSUME IInv, TimersOfWaiters, ThreadTimeout
  PROVE  TimersOfWaiters' /\ \E t \in Thread : W!Timeout(t)
<1>1. PICK s \in Thread : s = Head(tmrs) /\ Linked(tmrs, s)
  BY HeadFacts DEF IInv, TypeOK, ThreadTimeout
<1>2. /\ StopTimer(s) /\ waitq' = UnlinkAll(waitq, s)
      /\ err' = [err EXCEPT ![s] = "ETIMEOUT"]
  BY <1>1 DEF ThreadTimeout
<1>3. Armed' = Armed \ {s} /\ TimersOfWaiters'
  BY <1>2, TakenOff
<1>4. s \in Armed
  BY <1>1 DEF Armed, TimersOfWaiters
<1>5. waitq' = [l \in Ipc |-> W!Unlink(waitq[l], s)]
  BY <1>2, SameLists DEF IInv, TypeOK, UnlinkAll
<1>6. W!Timeout(s)
  BY <1>2, <1>3, <1>4, <1>5 DEF W!Timeout
<1> QED BY <1>3, <1>6

\* rt_ipc_list_resume.
LEMMA WakeKept ==
  ASSUME IInv, TimersOfWaiters, NEW o \in Ipc, Wakes(o)
  PROVE  TimersOfWaiters' /\ waitq[o] # <<>> /\ W!Resume(o)
<1>0. waitq[o] # <<>> /\ waitq \in [Ipc -> Seq(Thread)] /\ Once(waitq[o])
  BY DEF Wakes, WakeFirst, IInv, TypeOK, WaitersSuspended
<1>1. PICK w \in Thread : w = Head(waitq[o]) /\ Linked(waitq[o], w)
  BY <1>0, HeadFacts
<1>2. StopTimer(w) /\ waitq' = UnlinkAll(waitq, w) /\ err' = err
  BY <1>1 DEF Wakes, WakeFirst
<1>3. Armed' = Armed \ {w} /\ TimersOfWaiters'
  BY <1>2, TakenOff
<1>4. Unlink(waitq[o], w) = Tail(waitq[o])
  BY <1>0, <1>1, FirstOff
<1>5. \A l \in Ipc \ {o} : Unlink(waitq[l], w) = waitq[l]
  BY <1>1 DEF IInv, WaitersSuspended, Unlink
<1>6. waitq' = [waitq EXCEPT ![o] = Tail(waitq[o])]
  BY <1>0, <1>2, <1>4, <1>5 DEF UnlinkAll
<1>7. W!Resume(o)
  BY <1>1, <1>2, <1>3, <1>6 DEF W!Resume
<1> QED BY <1>0, <1>3, <1>7

\* rt_ipc_list_suspend, with the timer when there is a time limit.
LEMMA SuspendKept ==
  ASSUME IInv, prio = InitPrio, TimersOfWaiters,
         NEW t \in Thread, NEW o \in Ipc, NEW n \in WaitTicks, IpcSuspend(t, o, n)
  PROVE  /\ TimersOfWaiters'
         /\ \E limited \in BOOLEAN : ~W!Suspended(t) /\ W!Suspend(o, t, limited)
<1>1. /\ cur = t /\ pc[t] = "run" /\ lock = 0
      /\ waitq' = [waitq EXCEPT ![o] = LinkBefore(waitq[o], t, Behind(o, t))]
      /\ err' = [err EXCEPT ![t] = "OK"]
      /\ IF n > 0 THEN StartTimer(t, n) ELSE StopTimer(t)
  BY DEF IpcSuspend, At
<1>2. ~Linked(tmrs, t) /\ \A l \in Ipc : ~Linked(waitq[l], t)
  <2>1. stat[t] # "SUSPEND"
    BY <1>1, RunnerReady
  <2> QED BY <2>1, OnlySuspended
<1>3. ~W!Suspended(t)
  BY <1>2, SameLists DEF W!Suspended
<1>4. n \in Nat
  BY TickAssumption DEF HalfTick
<1>5. waitq' = [waitq EXCEPT ![o] = W!Enqueue(o, t)]
  <2>1. W!Lower(o, t) = Behind(o, t)
    BY DEF W!Lower, Behind
  <2>2. W!Enqueue(o, t) = LinkBefore(waitq[o], t, Behind(o, t))
    BY <2>1, SameLists DEF W!Enqueue
  <2> QED BY <1>1, <2>2
<1>6. \A l \in Ipc : \A m : Linked(waitq'[l], m) <=> Linked(waitq[l], m) \/ (l = o /\ m = t)
  <2>1. waitq \in [Ipc -> Seq(Thread)] /\ Once(waitq[o])
    BY DEF IInv, TypeOK, WaitersSuspended
  <2>2. \A m : Linked(LinkBefore(waitq[o], t, Behind(o, t)), m) <=> Linked(waitq[o], m) \/ m = t
    BY <2>1, <1>2, LinkBeforeFacts
  <2>3. \A l \in Ipc : waitq'[l] = IF l = o THEN LinkBefore(waitq[o], t, Behind(o, t)) ELSE waitq[l]
    BY <1>1, <2>1
  <2> QED BY <2>2, <2>3
<1>7. CASE n > 0
  <2>1. \A m : Linked(tmrs', m) <=> Linked(tmrs, m) \/ m = t
    BY <1>1, <1>4, <1>7, StartTimerFacts DEF IInv, WaitersSuspended
  <2>2. TimersOfWaiters'
    BY <1>6, <2>1 DEF TimersOfWaiters
  <2>3. Armed' = Armed \union {t}
    BY <1>6, <2>1 DEF Armed
  <2>4. W!Suspend(o, t, TRUE)
    BY <1>1, <1>5, <2>3 DEF W!Suspend, W!Park
  <2> QED BY <1>3, <2>2, <2>4
<1>8. CASE ~(n > 0)
  <2>1. \A m : Linked(tmrs', m) <=> Linked(tmrs, m) /\ m # t
    BY <1>1, <1>8, StopTimerFacts DEF IInv, WaitersSuspended
  <2>2. TimersOfWaiters'
    BY <1>2, <1>6, <2>1 DEF TimersOfWaiters
  <2>3. Armed' = Armed \ {t}
    BY <1>2, <1>6, <2>1 DEF Armed
  <2>4. W!Suspend(o, t, FALSE)
    BY <1>1, <1>5, <2>3 DEF W!Suspend, W!Park
  <2> QED BY <1>3, <2>2, <2>4
<1> QED BY <1>7, <1>8

\* Every step of the kernel is a step of RtWait or none of its business.
LEMMA PromiseStep ==
  ASSUME OnlyIpcCalls, IInv, OnlyWaiters, [Next]_vars
  PROVE  OnlyWaiters' /\ [W!WaitNext]_(W!waitVars)
<1>0. TimersOfWaiters /\ prio = InitPrio
  BY DEF OnlyWaiters, TimersOfWaiters
<1>1. prio' = InitPrio
  BY <1>0, PrioKept DEF OnlyIpcCalls
<1>2. TimersOfWaiters' /\ [W!WaitNext]_(W!waitVars)
  <2>1. CASE Unseen
    <3>1. TimersOfWaiters'
      BY <1>0, <2>1 DEF Unseen, TimersOfWaiters
    <3>2. UNCHANGED W!waitVars
      BY <2>1 DEF Unseen, W!waitVars, Armed
    <3> QED BY <3>1, <3>2
  <2>2. CASE ThreadTimeout
    BY <1>0, <2>2, TimeoutKept DEF W!WaitNext
  <2>3. ASSUME NEW o \in Ipc, Wakes(o) PROVE TimersOfWaiters' /\ W!WaitNext
    BY <1>0, <2>3, WakeKept DEF W!WaitNext
  <2>4. ASSUME NEW t \in Thread, NEW o \in Ipc, NEW n \in WaitTicks, IpcSuspend(t, o, n)
        PROVE  TimersOfWaiters' /\ W!WaitNext
    BY <1>0, <2>4, SuspendKept DEF W!WaitNext
  <2> QED BY <2>1, <2>2, <2>3, <2>4, SeenSteps
<1>3. OnlyWaiters'
  BY <1>1, <1>2, LabelsKept DEF OnlyWaiters, TimersOfWaiters
<1> QED BY <1>2, <1>3

\* The scheduler, the tick and the timers keep the promise the IPC modules are
\* built on: what they do to the suspend lists, to the timers of the waiters
\* and to thread->error is one of the steps of RtWait, at every priority
\* assignment, with any number of threads and objects.
THEOREM KernelKeepsPromise ==
  ASSUME DetachUnarmed, OnlyIpcCalls
  PROVE  Spec => WaitsAsPromised
<1>1. Init => OnlyWaiters /\ W!WaitInit
  <2> SUFFICES ASSUME Init PROVE OnlyWaiters /\ W!WaitInit
    OBVIOUS
  <2>1. ~\E t : Linked(<<>>, t)
    BY DEF Linked
  <2>2. OnlyWaiters
    BY <2>1 DEF Init, OnlyWaiters
  <2>3. Armed = {}
    BY <2>1 DEF Init, Armed
  <2> QED BY <2>2, <2>3 DEF Init, W!WaitInit
<1>2. IInv /\ OnlyWaiters /\ [Next]_vars => OnlyWaiters' /\ [W!WaitNext]_(W!waitVars)
  BY PromiseStep
<1> QED BY <1>1, <1>2, IInvAlways, PTL DEF Spec, WaitsAsPromised, W!WaitSpec
=============================================================================
