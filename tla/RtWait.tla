------------------------------- MODULE RtWait -------------------------------
(***************************************************************************)
(* What the suspend lists of ipc.c promise to the IPC objects, with the    *)
(* scheduler abstracted away: a thread that hangs on a suspend_thread list *)
(* does not run; it comes off it by rt_ipc_list_resume (with no error), by *)
(* rt_ipc_list_resume_all (RT_ERROR) or by the thread timer (RT_ETIMEOUT), *)
(* and only one of them.  Any other thread may run at any time, so what    *)
(* the modules built on this one show holds for every priority assignment. *)
(* RtKernel keeps this promise: WaitsAsPromised there.                     *)
(***************************************************************************)
EXTENDS RtList

CONSTANTS
  Thread,
  List,      \* the suspend_thread lists
  PrioList,  \* those of objects created with RT_IPC_FLAG_PRIO
  Level      \* [Thread -> Nat]: current_priority, which nobody changes

ASSUME WaitAssumption ==
  /\ IsFiniteSet(Thread) /\ PrioList \subseteq List
  /\ Level \in [Thread -> Nat]

VARIABLES
  wait,   \* the suspend_thread lists
  armed,  \* the threads whose thread_timer is running
  err     \* thread->error

waitVars == <<wait, armed, err>>

WaitInit ==
  /\ wait = [l \in List |-> <<>>]
  /\ armed = {}
  /\ err = [t \in Thread |-> "OK"]

Suspended(t) == \E l \in List : Linked(wait[l], t)

\* The waiters rt_ipc_list_suspend scans for.
Lower(l, t) == IF l \in PrioList THEN {x \in Thread : Level[t] < Level[x]} ELSE {}

\* Mutant: the newest waiter of a FIFO list is served first.
EnqueueFirst(l, t) == LinkFirst(wait[l], t)

\* The list after rt_ipc_list_suspend.
Enqueue(l, t) == LinkBefore(wait[l], t, Lower(l, t))

\* t becomes a waiter and l becomes waiters: the error is reset and the thread
\* timer started, when the call has a time limit.
Park(l, t, waiters, limited) ==
  /\ wait' = [wait EXCEPT ![l] = waiters]
  /\ armed' = IF limited THEN armed \union {t} ELSE armed \ {t}
  /\ err' = [err EXCEPT ![t] = "OK"]

\* rt_ipc_list_suspend with what the callers do around it.
Suspend(l, t, limited) == Park(l, t, Enqueue(l, t), limited)

\* rt_ipc_list_resume of a list with a waiter: rt_thread_resume stops its timer.
Resume(l) ==
  /\ wait' = [wait EXCEPT ![l] = Tail(@)]
  /\ armed' = armed \ {Head(wait[l])}
  /\ UNCHANGED err

\* One round of rt_ipc_list_resume_all on a list with a waiter.
ResumeFailed(l) ==
  /\ wait' = [wait EXCEPT ![l] = Tail(@)]
  /\ armed' = armed \ {Head(wait[l])}
  /\ err' = [err EXCEPT ![Head(wait[l])] = "ERROR"]

\* rt_ipc_list_resume_all of the lists L with interrupts disabled around it.
ResumeAllFailed(L) ==
  LET W == {t \in Thread : \E l \in L : Linked(wait[l], t)} IN
  /\ wait' = [l \in List |-> IF l \in L THEN <<>> ELSE wait[l]]
  /\ armed' = armed \ W
  /\ err' = [t \in Thread |-> IF t \in W THEN "ERROR" ELSE err[t]]

\* rt_thread_timeout in the tick interrupt.
Timeout(t) ==
  /\ t \in armed
  /\ wait' = [l \in List |-> Unlink(wait[l], t)]
  /\ armed' = armed \ {t}
  /\ err' = [err EXCEPT ![t] = "ETIMEOUT"]

WaitNext ==
  \/ \E t \in Thread : Timeout(t)
  \/ \E l \in List : wait[l] # <<>> /\ (Resume(l) \/ ResumeFailed(l))
  \/ \E t \in Thread, l \in List, limited \in BOOLEAN :
       ~Suspended(t) /\ Suspend(l, t, limited)

WaitSpec == WaitInit /\ [][WaitNext]_waitVars

-----------------------------------------------------------------------------
WaitTypeOK ==
  /\ wait \in [List -> Seq(Thread)]
  /\ armed \in SUBSET Thread
  /\ err \in [Thread -> {"OK", "ERROR", "ETIMEOUT"}]

\* A thread waits in one place, and its timer runs only while it waits: a
\* thread that was woken can no longer time out, so its error is the reason it
\* woke up for.
OneReason ==
  /\ \A l \in List : Once(wait[l])
  /\ \A l, m \in List, t \in Thread : Linked(wait[l], t) /\ Linked(wait[m], t) => l = m
  /\ \A t \in armed : Suspended(t)
=============================================================================
