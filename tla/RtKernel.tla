------------------------------ MODULE RtKernel ------------------------------
(***************************************************************************)
(* The thread core of the RT-Thread Nano kernel in libs/_kernel: the       *)
(* priority scheduler (scheduler.c), the thread life cycle (thread.c), the *)
(* clock tick with its time slices (clock.c), the thread timers on the     *)
(* system timer list (timer.c) and the suspend / resume helpers of every   *)
(* IPC object (ipc.c).                                                     *)
(*                                                                         *)
(* Atomicity.  One processor.  A step of a thread is one stretch of code   *)
(* between rt_hw_interrupt_disable and rt_hw_interrupt_enable, and pc says *)
(* where a thread stands between two of them.  The tick interrupt is taken *)
(* between any two such steps; interrupts do not nest, so isr holds off    *)
(* every thread until the handler returns.  The machine switch itself      *)
(* (cpuport.c, trap.S) is the subject of module RtSwitch; here the         *)
(* processor runs rt_current_thread.                                       *)
(***************************************************************************)
EXTENDS RtList

CONSTANTS
  Thread,        \* the thread objects of the build
  Idle,          \* tidle, always ready
  Main,          \* the main thread, running when the scheduler has started
  NumPrio,       \* RT_THREAD_PRIORITY_MAX
  InitPrio,      \* [Thread -> Prio]: init_priority
  InitTick,      \* [Thread -> Nat \ {0}]: init_tick, the time slice
  TickMod,       \* RT_TICK_MAX + 1: rt_tick_t wraps here
  MaxNest,       \* bound on rt_scheduler_lock_nest
  Ipc,           \* objects with a suspend_thread list
  PrioIpc,       \* those created with RT_IPC_FLAG_PRIO
  SleepTicks,    \* arguments of rt_thread_sleep
  WaitTicks,     \* waiting times of a blocking IPC call; 0 stands for forever
  NewPrios,      \* arguments of RT_THREAD_CTRL_CHANGE_PRIORITY
  Movable,       \* threads the application suspends and resumes
  Detachable,    \* threads the application detaches
  DetachUnarmed  \* TRUE: it detaches only threads whose timer is not running

Prio == 0..(NumPrio - 1)
Tick == 0..(TickMod - 1)
HalfTick == (TickMod - 1) \div 2   \* RT_TICK_MAX / 2

ASSUME ThreadAssumption == Idle \in Thread /\ Main \in Thread /\ Main # Idle
ASSUME PrioAssumption ==
  /\ NumPrio \in Nat \ {0}
  /\ InitPrio \in [Thread -> Prio]
  /\ NewPrios \subseteq Prio
ASSUME TickAssumption ==
  /\ TickMod \in Nat /\ TickMod > 4
  /\ InitTick \in [Thread -> Nat \ {0}]
  /\ SleepTicks \subseteq 0..(HalfTick - 1)
  /\ WaitTicks \subseteq 0..(HalfTick - 1)
ASSUME ApplicationAssumption ==
  /\ MaxNest \in Nat
  /\ PrioIpc \subseteq Ipc
  /\ Movable \subseteq Thread \ {Idle}
  /\ Detachable \subseteq Thread \ {Idle}
  /\ DetachUnarmed \in BOOLEAN

VARIABLES
  ready,   \* rt_thread_priority_table
  group,   \* rt_thread_ready_priority_group, as the set of its bits
  stat,    \* thread->stat
  prio,    \* thread->current_priority
  cur,     \* rt_current_thread
  lock,    \* rt_scheduler_lock_nest
  tick,    \* rt_tick
  slice,   \* thread->remaining_tick
  tmrs,    \* rt_timer_list: the threads whose thread_timer is running
  due,     \* thread->thread_timer.timeout_tick
  waitq,   \* suspend_thread of each IPC object
  err,     \* thread->error
  pc,      \* where the kernel call of a thread stands
  arg,     \* the thread that call is about
  isr      \* where the tick interrupt stands

schedVars == <<ready, group, stat, prio>>
timeVars  == <<tick, slice>>
tmrVars   == <<tmrs, due>>
callVars  == <<pc, arg>>
vars == <<schedVars, cur, lock, timeVars, tmrVars, waitq, err, callVars, isr>>

-----------------------------------------------------------------------------
(* Lists and the ready table                                               *)

UnlinkAll(q, t) == [x \in DOMAIN q |-> Unlink(q[x], t)]

\* t becomes the last thread of the list of priority p.
LinkAt(q, p, t) == [q EXCEPT ![p] = LinkLast(@, t)]

\* __rt_ffs(group) - 1: the smallest number is the highest priority.
Highest(g) == CHOOSE p \in g : \A r \in g : p <= r

\* The thread rt_schedule picks.
Choice(q, g) == Head(q[Highest(g)])

\* rt_schedule, once the ready table is q with bitmap g.
Scheduled(q, g) == IF lock = 0 THEN Choice(q, g) ELSE cur

\* Mutant: the bit is cleared whatever the list still holds.
GroupWithoutTest(q, t) == group \ {prio[t]}

\* The bitmap after rt_schedule_remove_thread(t) has left table q.
GroupWithout(q, t) == IF q[prio[t]] = <<>> THEN group \ {prio[t]} ELSE group

\* rt_schedule_remove_thread of a ready thread.
RemoveReady(t) ==
  /\ ready' = UnlinkAll(ready, t)
  /\ group' = GroupWithout(ready', t)

\* rt_schedule_remove_thread: t leaves whatever list its tlist is on.
RemoveThread(t) == RemoveReady(t) /\ waitq' = UnlinkAll(waitq, t)

\* rt_schedule_insert_thread for a thread that is on no list of table q.
InsertThread(q, t) ==
  /\ ready' = LinkAt(q, prio[t], t)
  /\ group' = group \union {prio[t]}
  /\ stat' = [stat EXCEPT ![t] = "READY"]

-----------------------------------------------------------------------------
(* The system timer list                                                   *)

\* a - b on rt_tick_t.
Diff(a, b) == (a - b) % TickMod

\* The test of rt_timer_start: the running timer u expires after tick d.
ExpiresAfter(u, d) == Diff(due[u], d) # 0 /\ Diff(due[u], d) < HalfTick

\* rt_timer_start(&t->thread_timer) with init_tick n.
StartTimer(t, n) ==
  LET d == (tick + n) % TickMod
  IN  /\ due' = [due EXCEPT ![t] = d]
      /\ tmrs' = LinkBefore(Unlink(tmrs, t), t, {u \in Thread : ExpiresAfter(u, d)})

\* rt_timer_stop / rt_timer_detach.  Nothing reads the timeout_tick of a timer
\* that is off, so the model forgets it.
StopTimer(t) ==
  /\ tmrs' = Unlink(tmrs, t)
  /\ due' = [due EXCEPT ![t] = 0]

\* Mutant: expired when the tick has reached the timeout, wrap forgotten.
ExpiredPlain(t) == tick >= due[t]

\* Mutant: expired when the tick is past the timeout, wrap forgotten.
ExpiredLate(t) == tick > due[t]

\* The test of rt_timer_check.
Expired(t) == Diff(tick, due[t]) < HalfTick

-----------------------------------------------------------------------------
Init ==
  /\ ready = [p \in Prio |->
       IF p = InitPrio[Main] THEN
         IF p = InitPrio[Idle] THEN <<Main, Idle>> ELSE <<Main>>
       ELSE IF p = InitPrio[Idle] THEN <<Idle>> ELSE <<>>]
  /\ group = {InitPrio[Main], InitPrio[Idle]}
  /\ stat = [t \in Thread |-> IF t \in {Main, Idle} THEN "READY" ELSE "INIT"]
  /\ prio = InitPrio
  /\ cur = IF InitPrio[Idle] < InitPrio[Main] THEN Idle ELSE Main
  /\ lock = 0
  /\ tick = 0
  /\ slice = InitTick
  /\ tmrs = <<>>
  /\ due = [t \in Thread |-> 0]
  /\ waitq = [o \in Ipc |-> <<>>]
  /\ err = [t \in Thread |-> "OK"]
  /\ pc = [t \in Thread |-> "run"]
  /\ arg = [t \in Thread |-> t]
  /\ isr = "none"

\* Thread t is on the processor with interrupts enabled, at label l.
At(t, l) == isr = "none" /\ cur = t /\ pc[t] = l

\* The call goes on at label l.
Goto(t, l) == pc' = [pc EXCEPT ![t] = l] /\ UNCHANGED <<arg, isr>>

\* The part of the call that is about another thread is over.
Leave(t, l) ==
  /\ pc' = [pc EXCEPT ![t] = l]
  /\ arg' = [arg EXCEPT ![t] = t]
  /\ UNCHANGED isr

\* A call about thread s starts.
Call(t, l, s) ==
  /\ pc' = [pc EXCEPT ![t] = l]
  /\ arg' = [arg EXCEPT ![t] = s]
  /\ UNCHANGED isr

\* No call about thread s is under way.
ClaimLabels == {"start_insert", "res_unlink", "res_insert", "susp",
                "det_timer", "det_close"}
Unclaimed(s) == \A x \in Thread : pc[x] \in ClaimLabels => arg[x] # s

\* The application handles another thread only between rt_enter_critical and
\* rt_exit_critical, and only one call at a time is about that thread.
Exclusive(s) == lock > 0 /\ Unclaimed(s)

-----------------------------------------------------------------------------
(* Scheduler calls                                                         *)

SchedLabels == {"sched", "sleep_sched", "ipc_sched"}
AfterSched(l) == CASE l = "sched" -> "run"
                   [] l = "sleep_sched" -> "sleep_ret"
                   [] l = "ipc_sched" -> "ipc_ret"

\* rt_schedule, called by a thread.  The caller goes on from the next label
\* when it is chosen again.
Schedule(t) ==
  /\ isr = "none" /\ cur = t /\ pc[t] \in SchedLabels
  /\ cur' = Scheduled(ready, group)
  /\ Goto(t, AfterSched(pc[t]))
  /\ UNCHANGED <<schedVars, lock, timeVars, tmrVars, waitq, err>>

EnterCritical(t) ==
  /\ At(t, "run")
  /\ lock < MaxNest
  /\ lock' = lock + 1
  /\ UNCHANGED <<schedVars, cur, timeVars, tmrVars, waitq, err, callVars, isr>>

\* Mutant: the nest counter is not held at zero.
ExitCriticalUnclamped(t) ==
  /\ At(t, "run")
  /\ lock' = lock - 1
  /\ Goto(t, IF lock <= 1 THEN "sched" ELSE "run")
  /\ UNCHANGED <<schedVars, cur, timeVars, tmrVars, waitq, err>>

ExitCritical(t) ==
  /\ At(t, "run")
  /\ lock' = IF lock <= 1 THEN 0 ELSE lock - 1
  /\ Goto(t, IF lock <= 1 THEN "sched" ELSE "run")
  /\ UNCHANGED <<schedVars, cur, timeVars, tmrVars, waitq, err>>

\* The test of rt_thread_yield, tlist.next # tlist.prev: t hangs on its list,
\* and not alone.
Yields(t) == /\ stat[t] = "READY"
             /\ Linked(ready[prio[t]], t) /\ Len(ready[prio[t]]) > 1

\* Mutant: the thread keeps its place.
YieldTableStays(t) == ready

\* The ready table after rt_thread_yield of thread t.
YieldTable(t) ==
  IF Yields(t) THEN LinkAt(UnlinkAll(ready, t), prio[t], t) ELSE ready

ThreadYield(t) ==
  /\ At(t, "run")
  /\ Yields(t)
  /\ ready' = YieldTable(t)
  /\ Goto(t, "sched")
  /\ UNCHANGED <<group, stat, prio, cur, lock, timeVars, tmrVars, waitq, err>>

-----------------------------------------------------------------------------
(* Thread life cycle                                                       *)

\* Mutant: any thread that is not running may be started.
ThreadStartupAgain(t, s) ==
  /\ At(t, "run")
  /\ stat[s] \notin {"READY", "SUSPEND"} /\ Unclaimed(s)
  /\ prio' = [prio EXCEPT ![s] = InitPrio[s]]
  /\ stat' = [stat EXCEPT ![s] = "SUSPEND"]
  /\ Call(t, "start_insert", s)
  /\ UNCHANGED <<ready, group, cur, lock, timeVars, tmrVars, waitq, err>>

\* rt_thread_startup up to the end of the locked section of rt_thread_resume;
\* before it s is INIT, on no list, and nobody else knows it.
ThreadStartup(t, s) ==
  /\ At(t, "run")
  /\ stat[s] = "INIT" /\ Unclaimed(s)
  /\ prio' = [prio EXCEPT ![s] = InitPrio[s]]
  /\ stat' = [stat EXCEPT ![s] = "SUSPEND"]
  /\ Call(t, "start_insert", s)
  /\ UNCHANGED <<ready, group, cur, lock, timeVars, tmrVars, waitq, err>>

\* The rt_schedule_insert_thread of rt_thread_resume, called by
\* rt_thread_startup, which then calls rt_schedule, or by the application.
ResumeInsert(t) ==
  /\ isr = "none" /\ cur = t /\ pc[t] \in {"start_insert", "res_insert"}
  /\ InsertThread(ready, arg[t])
  /\ Leave(t, IF pc[t] = "start_insert" THEN "sched" ELSE "run")
  /\ UNCHANGED <<prio, cur, lock, timeVars, tmrVars, waitq, err>>

\* rt_thread_resume: the state test, made with interrupts enabled.
ThreadResume(t, s) ==
  /\ At(t, "run")
  /\ Exclusive(s)
  /\ stat[s] = "SUSPEND"
  /\ Call(t, "res_unlink", s)
  /\ UNCHANGED <<schedVars, cur, lock, timeVars, tmrVars, waitq, err>>

\* Its locked section: rt_list_remove leaves the bitmap alone.
ResumeUnlink(t) ==
  /\ At(t, "res_unlink")
  /\ ready' = UnlinkAll(ready, arg[t])
  /\ waitq' = UnlinkAll(waitq, arg[t])
  /\ StopTimer(arg[t])
  /\ Goto(t, "res_insert")
  /\ UNCHANGED <<group, stat, prio, cur, lock, timeVars, err>>

\* Mutant: no state test.
ThreadSuspendUntested(t, s) ==
  /\ At(t, "run")
  /\ s = t \/ Exclusive(s)
  /\ Call(t, "susp", s)
  /\ UNCHANGED <<schedVars, cur, lock, timeVars, tmrVars, waitq, err>>

\* rt_thread_suspend: the state test, made with interrupts enabled.  On itself
\* a thread then calls rt_schedule.
ThreadSuspend(t, s) ==
  /\ At(t, "run")
  /\ s = t \/ Exclusive(s)
  /\ stat[s] = "READY"
  /\ Call(t, "susp", s)
  /\ UNCHANGED <<schedVars, cur, lock, timeVars, tmrVars, waitq, err>>

SuspendSection(t) ==
  LET s == arg[t] IN
  /\ At(t, "susp")
  /\ RemoveThread(s)
  /\ stat' = [stat EXCEPT ![s] = "SUSPEND"]
  /\ StopTimer(s)
  /\ Leave(t, IF s = t THEN "sched" ELSE "run")
  /\ UNCHANGED <<prio, cur, lock, timeVars, err>>

\* Mutant: the thread stays in the ready table.
ThreadExitQueued(t) ==
  /\ At(t, "run")
  /\ t # Idle /\ lock = 0
  /\ stat' = [stat EXCEPT ![t] = "CLOSE"]
  /\ StopTimer(t)
  /\ UNCHANGED <<ready, group, prio, cur, lock, timeVars, waitq, err, callVars, isr>>

\* rt_thread_exit: one locked section that ends in rt_schedule.
ThreadExit(t) ==
  /\ At(t, "run")
  /\ t # Idle /\ lock = 0
  /\ RemoveThread(t)
  /\ stat' = [stat EXCEPT ![t] = "CLOSE"]
  /\ StopTimer(t)
  /\ cur' = Scheduled(ready', group')
  /\ UNCHANGED <<prio, lock, timeVars, err, callVars, isr>>

\* rt_thread_detach takes three steps with interrupts enabled between them.
ThreadDetach(t, s) ==
  /\ At(t, "run")
  /\ s # t /\ Exclusive(s)
  /\ DetachUnarmed => ~Linked(tmrs, s)
  /\ stat[s] # "CLOSE"
  /\ IF stat[s] = "INIT" THEN UNCHANGED <<ready, group, waitq>> ELSE RemoveThread(s)
  /\ Call(t, "det_timer", s)
  /\ UNCHANGED <<stat, prio, cur, lock, timeVars, tmrVars, err>>

DetachTimer(t) ==
  /\ At(t, "det_timer")
  /\ StopTimer(arg[t])
  /\ Goto(t, "det_close")
  /\ UNCHANGED <<schedVars, cur, lock, timeVars, waitq, err>>

DetachClose(t) ==
  /\ At(t, "det_close")
  /\ stat' = [stat EXCEPT ![arg[t]] = "CLOSE"]
  /\ Leave(t, "run")
  /\ UNCHANGED <<ready, group, prio, cur, lock, timeVars, tmrVars, waitq, err>>

\* Mutant: a ready thread is left in the list of its old priority.
ChangePriorityInPlace(t, s, p) ==
  /\ At(t, "run")
  /\ Exclusive(s)
  /\ prio' = [prio EXCEPT ![s] = p]
  /\ UNCHANGED <<ready, group, stat, cur, lock, timeVars, tmrVars, waitq, err, callVars, isr>>

\* rt_thread_control(s, RT_THREAD_CTRL_CHANGE_PRIORITY, &p).
ChangePriority(t, s, p) ==
  /\ At(t, "run")
  /\ Exclusive(s)
  /\ prio' = [prio EXCEPT ![s] = p]
  /\ IF stat[s] = "READY"
       THEN LET q == UnlinkAll(ready, s) IN
            /\ ready' = LinkAt(q, p, s)
            /\ group' = GroupWithout(q, s) \union {p}
       ELSE UNCHANGED <<ready, group>>
  /\ UNCHANGED <<stat, cur, lock, timeVars, tmrVars, waitq, err, callVars, isr>>

-----------------------------------------------------------------------------
(* Sleeping and IPC waiting                                                *)

\* rt_thread_sleep up to rt_schedule.  Called under rt_enter_critical the
\* thread goes on running, suspended, so it may call it again.
ThreadSleep(t, n) ==
  /\ At(t, "run")
  /\ t # Idle
  /\ IF stat[t] = "READY"
       THEN RemoveThread(t) /\ stat' = [stat EXCEPT ![t] = "SUSPEND"]
       ELSE UNCHANGED <<ready, group, stat, waitq>>
  /\ StartTimer(t, n)
  /\ Goto(t, "sleep_sched")
  /\ UNCHANGED <<prio, cur, lock, timeVars, err>>

SleepReturn(t) ==
  /\ At(t, "sleep_ret")
  /\ err' = [err EXCEPT ![t] = "OK"]
  /\ Goto(t, "run")
  /\ UNCHANGED <<schedVars, cur, lock, timeVars, tmrVars, waitq>>

\* Mutant: the comparison is the wrong way round.
BehindSwapped(o, t) == IF o \in PrioIpc THEN {x \in Thread : prio[x] < prio[t]} ELSE {}

\* The waiters rt_ipc_list_suspend scans for: t goes before the first of them.
Behind(o, t) == IF o \in PrioIpc THEN {x \in Thread : prio[t] < prio[x]} ELSE {}

\* A blocking IPC call up to rt_schedule: rt_ipc_list_suspend, and the thread
\* timer when the call has a time limit n.
IpcSuspend(t, o, n) ==
  /\ At(t, "run")
  /\ t # Idle /\ lock = 0
  /\ RemoveReady(t)
  /\ stat' = [stat EXCEPT ![t] = "SUSPEND"]
  /\ waitq' = [waitq EXCEPT ![o] = LinkBefore(@, t, Behind(o, t))]
  /\ err' = [err EXCEPT ![t] = "OK"]
  /\ IF n > 0 THEN StartTimer(t, n) ELSE StopTimer(t)
  /\ Goto(t, "ipc_sched")
  /\ UNCHANGED <<prio, cur, lock, timeVars>>

\* The woken thread reads its thread->error.
IpcReturn(t) ==
  /\ At(t, "ipc_ret")
  /\ Goto(t, "run")
  /\ UNCHANGED <<schedVars, cur, lock, timeVars, tmrVars, waitq, err>>

\* Mutant: the timer of the waiter goes on running.
WakeFirstArmed(o) ==
  LET w == Head(waitq[o]) IN
  /\ waitq[o] # <<>>
  /\ waitq' = UnlinkAll(waitq, w)
  /\ InsertThread(UnlinkAll(ready, w), w)
  /\ UNCHANGED tmrVars

\* rt_ipc_list_resume on a list with a waiter; interrupts are off throughout.
WakeFirst(o) ==
  LET w == Head(waitq[o]) IN
  /\ waitq[o] # <<>>
  /\ waitq' = UnlinkAll(waitq, w)
  /\ StopTimer(w)
  /\ InsertThread(UnlinkAll(ready, w), w)

IpcResume(t, o) ==
  /\ At(t, "run")
  /\ WakeFirst(o)
  /\ Goto(t, "sched")
  /\ UNCHANGED <<prio, cur, lock, timeVars, err>>

\* The same from a device interrupt, which schedules before it returns.
IpcResumeIsr(o) ==
  /\ isr = "none"
  /\ WakeFirst(o)
  /\ cur' = Scheduled(ready', group')
  /\ UNCHANGED <<prio, lock, timeVars, err, callVars, isr>>

-----------------------------------------------------------------------------
(* The tick interrupt                                                      *)

\* rt_tick_increase up to rt_timer_check.
TickIncrease ==
  /\ isr = "none"
  /\ tick' = (tick + 1) % TickMod
  /\ IF slice[cur] = 1
       THEN /\ slice' = [slice EXCEPT ![cur] = InitTick[cur]]
            /\ ready' = YieldTable(cur)
            /\ cur' = IF Yields(cur) THEN Scheduled(ready', group) ELSE cur
       ELSE /\ slice' = [slice EXCEPT ![cur] = @ - 1]
            /\ UNCHANGED <<ready, cur>>
  /\ isr' = "check"
  /\ UNCHANGED <<group, stat, prio, lock, tmrVars, waitq, err, callVars>>

\* Mutant: the woken thread is not scheduled.
ThreadTimeoutQuiet ==
  /\ isr = "check" /\ tmrs # <<>> /\ Expired(Head(tmrs))
  /\ LET t == Head(tmrs) IN
       /\ StopTimer(t)
       /\ err' = [err EXCEPT ![t] = "ETIMEOUT"]
       /\ waitq' = UnlinkAll(waitq, t)
       /\ InsertThread(UnlinkAll(ready, t), t)
  /\ UNCHANGED <<cur, prio, lock, timeVars, callVars, isr>>

\* One round of the loop of rt_timer_check: the first timer has expired and
\* its function, rt_thread_timeout, runs.
ThreadTimeout ==
  /\ isr = "check" /\ tmrs # <<>> /\ Expired(Head(tmrs))
  /\ LET t == Head(tmrs) IN
       /\ StopTimer(t)
       /\ err' = [err EXCEPT ![t] = "ETIMEOUT"]
       /\ waitq' = UnlinkAll(waitq, t)
       /\ InsertThread(UnlinkAll(ready, t), t)
  /\ cur' = Scheduled(ready', group')
  /\ UNCHANGED <<prio, lock, timeVars, callVars, isr>>

TickReturn ==
  /\ isr = "check" /\ (tmrs # <<>> => ~Expired(Head(tmrs)))
  /\ isr' = "none"
  /\ UNCHANGED <<schedVars, cur, lock, timeVars, tmrVars, waitq, err, callVars>>

-----------------------------------------------------------------------------
Interrupt == TickIncrease \/ ThreadTimeout \/ TickReturn
             \/ \E o \in Ipc : IpcResumeIsr(o)

\* The next step of the kernel call thread t has under way.
Continue(t) ==
  \/ Schedule(t) \/ ResumeInsert(t) \/ ResumeUnlink(t) \/ SuspendSection(t)
  \/ DetachTimer(t) \/ DetachClose(t) \/ SleepReturn(t) \/ IpcReturn(t)

\* A call the application code of thread t makes.
Begin(t) ==
  \/ EnterCritical(t) \/ ExitCritical(t) \/ ThreadYield(t) \/ ThreadExit(t)
  \/ \E s \in Thread : ThreadStartup(t, s)
  \/ \E s \in Movable : ThreadResume(t, s) \/ ThreadSuspend(t, s)
  \/ \E s \in Detachable : ThreadDetach(t, s)
  \/ \E s \in Thread, p \in NewPrios : ChangePriority(t, s, p)
  \/ \E n \in SleepTicks : ThreadSleep(t, n)
  \/ \E o \in Ipc, n \in WaitTicks : IpcSuspend(t, o, n)
  \/ \E o \in Ipc : IpcResume(t, o)

Next == Interrupt \/ \E t \in Thread : Continue(t) \/ Begin(t)

Spec == Init /\ [][Next]_vars

\* The tick timer keeps running and its handler ends; between two ticks the
\* running thread gets on with its kernel call; and application code leaves
\* its critical sections.
FairSpec ==
  /\ Spec
  /\ WF_vars(TickIncrease) /\ WF_vars(ThreadTimeout) /\ WF_vars(TickReturn)
  /\ \A t \in Thread :
       SF_vars(Continue(t)) /\ SF_vars(lock > 0 /\ ExitCritical(t))

-----------------------------------------------------------------------------
(* Properties                                                              *)

Labels == {"run", "start_insert", "res_unlink", "res_insert", "susp",
           "det_timer", "det_close", "sleep_sched", "sleep_ret", "sched",
           "ipc_sched", "ipc_ret"}

TypeOK ==
  /\ ready \in [Prio -> Seq(Thread)]
  /\ group \in SUBSET Prio
  /\ stat \in [Thread -> {"INIT", "READY", "SUSPEND", "CLOSE"}]
  /\ prio \in [Thread -> Prio]
  /\ cur \in Thread
  /\ lock \in 0..MaxNest
  /\ tick \in Tick
  /\ slice \in [Thread -> Nat \ {0}]
  /\ tmrs \in Seq(Thread)
  /\ due \in [Thread -> Tick]
  /\ waitq \in [Ipc -> Seq(Thread)]
  /\ err \in [Thread -> {"OK", "ETIMEOUT"}]
  /\ pc \in [Thread -> Labels]
  /\ arg \in [Thread -> Thread]
  /\ isr \in {"none", "check"}

\* A call holds t between two lists: rt_thread_resume after its unlink, or
\* rt_thread_detach after its unlink.
InTransit(t) == \E x \in Thread :
  arg[x] = t /\ pc[x] \in {"res_insert", "det_timer", "det_close"}

\* The ready table holds exactly the READY threads, each once and in the list
\* of its current priority.
ReadyTable ==
  /\ \A p \in Prio : Once(ready[p])
  /\ \A p \in Prio, t \in Thread :
       Linked(ready[p], t) => stat[t] = "READY" /\ prio[t] = p
  /\ \A t \in Thread : stat[t] = "READY" => Linked(ready[prio[t]], t) \/ InTransit(t)

\* The bitmap rt_schedule searches names exactly the non-empty lists of the
\* table; only rt_thread_resume can leave a stale bit, with the scheduler
\* locked, until it inserts the thread again.
BitmapExact == \A p \in Prio :
  /\ ready[p] # <<>> => p \in group
  /\ p \in group => \/ ready[p] # <<>>
                    \/ lock > 0 /\ \E x \in Thread :
                         pc[x] = "res_insert" /\ prio[arg[x]] = p

\* Whenever the scheduler is unlocked and rt_current_thread is not itself on its
\* way into rt_schedule, it is the first thread of the highest non-empty
\* priority: no ready thread of higher priority waits, in a thread or in the
\* tick handler.
CurrentIsHighest ==
  (lock = 0 /\ pc[cur] \notin SchedLabels \union {"start_insert"})
     => cur = Choice(ready, group)

\* The RT_ASSERT of rt_thread_timeout (thread.c:804), before the timer fires:
\* a thread whose timer runs, or that waits on an IPC object, is suspended, and
\* it is on at most one waiting list, once.
WaitersSuspended ==
  /\ \A t \in Thread : Linked(tmrs, t) => stat[t] = "SUSPEND"
  /\ \A o \in Ipc, t \in Thread : Linked(waitq[o], t) => stat[t] = "SUSPEND"
  /\ \A o1, o2 \in Ipc, t \in Thread :
       Linked(waitq[o1], t) /\ Linked(waitq[o2], t) => o1 = o2
  /\ Once(tmrs) /\ \A o \in Ipc : Once(waitq[o])

Loose(t) ==
  /\ \A p \in Prio : ~Linked(ready[p], t)
  /\ \A o \in Ipc : ~Linked(waitq[o], t)
  /\ ~Linked(tmrs, t)

\* The windows between the locked sections of one kernel call: what is true of
\* the thread the call is about while interrupts are enabled in the middle of
\* it.  Only rt_thread_startup and a thread suspending itself may be preempted
\* there, and no two calls are ever about the same thread.
CallsInProgress == \A x \in Thread :
  LET s == arg[x] IN
  /\ \A y \in Thread :
       pc[x] \in ClaimLabels /\ pc[y] \in ClaimLabels /\ arg[y] = s => x = y
  /\ pc[x] = "start_insert" => stat[s] = "SUSPEND"
  /\ pc[x] \in {"res_unlink", "res_insert"} => stat[s] \in {"SUSPEND", "READY"}
  /\ pc[x] \in {"det_timer", "det_close"} => stat[s] # "CLOSE" /\ s # x
  /\ pc[x] = "susp" => stat[s] = "READY"
  /\ pc[x] \in {"start_insert", "res_insert", "det_timer", "det_close"} => Loose(s)
  /\ pc[x] \in ClaimLabels \ {"start_insert"} =>
       s # Idle /\ ((lock > 0 /\ x = cur) \/ (pc[x] = "susp" /\ s = x))

IdleReady == stat[Idle] = "READY"

\* The running thread has been started and is not closed, and no
\* rt_thread_startup is still about to put it on the ready table.
RunnerStarted ==
  /\ stat[cur] \in {"READY", "SUSPEND"}
  /\ \A x \in Thread : pc[x] = "start_insert" => arg[x] # cur

\* A PRIO list is ordered by priority (while nobody changes priorities).
WaitOrder == \A o \in PrioIpc : \A i, j \in DOMAIN waitq[o] :
  i < j => prio[waitq[o][i]] <= prio[waitq[o][j]]

\* rt_thread_detach and rt_thread_exit: "The thread object will be removed from
\* thread queue" (thread.c:301).  A closed thread is on no list.
ClosedOffQueues == \A t \in Thread : stat[t] = "CLOSE" =>
  /\ \A p \in Prio : ~Linked(ready[p], t)
  /\ \A o \in Ipc : ~Linked(waitq[o], t)
  /\ ~Linked(tmrs, t)

\* A sleeping or waiting thread never loses its timer without being made
\* runnable: the timer goes only when the thread becomes READY, is being
\* resumed, or is closed.
TimerNeverDropped == [][\A t \in Thread :
  Linked(tmrs, t) /\ ~Linked(tmrs', t)
    => stat'[t] = "READY" \/ \E x \in Thread : pc'[x] = "res_insert" /\ arg'[x] = t]_vars

\* A timer fires on the tick it is due, one tick later when it was started
\* with 0 ticks, and never before.
TimeoutOnTime == [][\A t \in Thread :
  isr = "check" /\ Linked(tmrs, t) /\ ~Linked(tmrs', t)
    => Diff(tick, due[t]) \in {0, 1}]_vars

\* Time slices: a READY thread of the highest ready priority is not passed over
\* for ever by its equals.
RoundRobin == \A t \in Thread :
  []<>(cur = t \/ stat[t] # "READY" \/ prio[t] # Highest(group))

\* Every thread timer that runs makes its thread READY in the end, however
\* rt_tick wraps and whatever else is on the list.
SleeperWakes == \A t \in Thread : Linked(tmrs, t) ~> stat[t] = "READY"

\* A closed thread never runs or becomes ready again.
ClosedIsFinal == [][\A t \in Thread :
  stat[t] = "CLOSE" => stat'[t] = "CLOSE" /\ cur' # t]_vars

-----------------------------------------------------------------------------
(* The promise of RtWait                                                   *)

\* The threads that hang on a suspend list with their timer running.
Armed == {t \in Thread : Linked(tmrs, t) /\ \E o \in Ipc : Linked(waitq[o], t)}

W == INSTANCE RtWait WITH
       List <- Ipc, PrioList <- PrioIpc, Level <- InitPrio,
       wait <- waitq, armed <- Armed

\* rt_ipc_list_suspend, rt_ipc_list_resume and rt_thread_timeout under the
\* scheduler and the tick keep the promise the IPC objects are built on: the
\* suspend lists, the running timers of the waiters and their errors only
\* change as RtWait says.
WaitsAsPromised == W!WaitSpec
=============================================================================
