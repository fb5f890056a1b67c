------------------------------- MODULE RtSem -------------------------------
(***************************************************************************)
(* A counting semaphore (rt_sem_take and rt_sem_release of ipc.c) on RtWait. *)
(* rt_sem_release hands the token straight to the first waiter, who owns   *)
(* it from the moment it is resumed and learns of it when it next runs.    *)
(* Built with RT_USING_DEVICE, finsh uses one as rx_sem: the UART          *)
(* interrupt releases it, the shell thread takes it.                       *)
(***************************************************************************)
EXTENDS RtObject

CONSTANTS
  Sem,       \* the suspend list of the semaphore
  Initial,   \* the value rt_sem_init gives it
  MaxValue,  \* RT_SEM_VALUE_MAX
  Resets     \* values of rt_sem_control(RT_IPC_CMD_RESET)

\* Threads of one priority, for a semaphore of FIFO waiters.
OneLevel == [t \in Thread |-> 0]

ASSUME SemAssumption ==
  /\ List = {Sem}
  /\ MaxValue \in Nat /\ Initial \in 0..MaxValue
  /\ Resets \subseteq 0..MaxValue

VARIABLES
  value,    \* sem->value
  holders,  \* the threads that took a token and have not released it
  issued    \* history: the tokens there should be

semVars == <<value, holders, issued>>
vars == <<objectVars, semVars>>

Init ==
  /\ ObjectInit
  /\ value = Initial
  /\ holders = {}
  /\ issued = Initial

\* rt_sem_take, token available.  A thread of the model takes one at a time.
TakeNow(t) ==
  /\ Calls(t, Sem) /\ t \notin holders
  /\ value > 0
  /\ value' = value - 1
  /\ holders' = holders \union {t}
  /\ UNCHANGED <<objectVars, issued>>

\* rt_sem_take up to rt_schedule, no token.
TakeWait(t, limited) ==
  /\ Calls(t, Sem) /\ t \notin holders
  /\ value = 0
  /\ Suspend(Sem, t, limited)
  /\ Goto(t, "wait", Sem)
  /\ UNCHANGED <<gone, semVars>>

\* Mutant: the error is not looked at.
TakeReturnBlind(t) ==
  /\ Back(t, "wait")
  /\ holders' = holders \union {t}
  /\ Return(t)
  /\ UNCHANGED <<waitVars, value, issued, gone>>

\* rt_sem_take after rt_schedule.
TakeReturn(t) ==
  /\ Back(t, "wait")
  /\ holders' = IF err[t] = "OK" THEN holders \union {t} ELSE holders
  /\ Return(t)
  /\ UNCHANGED <<waitVars, value, issued, gone>>

\* The locked section of rt_sem_release.
ReleaseSection ==
  IF wait[Sem] # <<>>
    THEN Resume(Sem) /\ UNCHANGED value
    ELSE value' = (IF value < MaxValue THEN value + 1 ELSE value) /\ UNCHANGED waitVars

\* rt_sem_release returns -RT_EFULL and the token is dropped.
Full == wait[Sem] = <<>> /\ value = MaxValue

\* A thread gives its token back.
Release(t) ==
  /\ Calls(t, Sem) /\ t \in holders
  /\ ReleaseSection
  /\ holders' = holders \ {t}
  /\ issued' = IF Full THEN issued - 1 ELSE issued
  /\ UNCHANGED callVars

\* The token stood for an event, as those of rx_sem do, and is used up.
Consume(t) ==
  /\ Calls(t, Sem) /\ t \in holders
  /\ holders' = holders \ {t}
  /\ issued' = issued - 1
  /\ UNCHANGED <<objectVars, value>>

\* finsh_rx_ind: an interrupt adds a token.
ReleaseIsr ==
  /\ Sem \notin gone
  /\ ReleaseSection
  /\ issued' = IF Full THEN issued ELSE issued + 1
  /\ UNCHANGED <<holders, callVars>>

\* The waiters that have been handed a token and have not run yet.
Handed == Woken("wait", Sem)

\* rt_sem_control(sem, RT_IPC_CMD_RESET, v): all in one locked section.
Reset(t, v) ==
  /\ Calls(t, Sem)
  /\ ResumeAllFailed({Sem})
  /\ value' = v
  /\ issued' = v + Cardinality(holders) + Cardinality(Handed)
  /\ UNCHANGED <<holders, callVars>>

\* What does not touch the semaphore itself.
Outside ==
  /\ \/ TimerExpires
     \/ \E t \in Thread : Detach(t, Sem, {Sem}) \/ DetachTest(t, {}) \/ DetachResume(t)
  /\ UNCHANGED semVars

Next ==
  \/ ReleaseIsr \/ Outside
  \/ \E t \in Thread :
       \/ TakeNow(t) \/ TakeReturn(t) \/ Release(t) \/ Consume(t)
       \/ \E limited \in Timed : TakeWait(t, limited)
       \/ \E v \in Resets : Reset(t, v)

Spec == Init /\ [][Next]_vars

\* A thread in rt_sem_detach, which does not block, goes on.
DetachGoesOn(t) == (DetachTest(t, {}) \/ DetachResume(t)) /\ UNCHANGED semVars

\* The device goes on interrupting.
FairSpec ==
  /\ Spec
  /\ WF_vars(ReleaseIsr)
  /\ \A t \in Thread : WF_vars(DetachGoesOn(t))

-----------------------------------------------------------------------------
TypeOK ==
  /\ CallTypeOK
  /\ value \in 0..MaxValue
  /\ holders \in SUBSET Thread
  /\ issued \in Nat

\* No token is lost or made: every one that was put in is in the count, with a
\* thread, or on its way to the waiter it was handed to, whatever timeouts and
\* resets come between the wake and the return of rt_sem_take.
Conservation == value + Cardinality(holders) + Cardinality(Handed) = issued

\* Nobody waits while there is a token.
NobodyWaitsForNothing == value > 0 => wait[Sem] = <<>>

\* With FIFO waiters a thread cannot be overtaken for ever: tokens that keep
\* coming reach it, or the detach does.
Served == \A t \in Thread : Suspended(t) ~> ~Suspended(t)
=============================================================================
