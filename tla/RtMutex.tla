------------------------------- MODULE RtMutex -------------------------------
(***************************************************************************)
(* The mutexes of ipc.c: nested taking by the owner, hand-over to the first *)
(* waiter, and priority inheritance, which is one saved priority per mutex *)
(* and a change of the owner's priority when a thread that outranks it     *)
(* begins to wait.  A thread may hold several mutexes.                     *)
(***************************************************************************)
EXTENDS RtObject

CONSTANTS
  HoldMax,  \* RT_MUTEX_HOLD_MAX
  Nesting,  \* TRUE: a thread that holds a mutex may take another one
  None      \* RT_NULL as the owner

\* What the constants must be; the module that instantiates this one assumes it.
MutexConstants ==
  HoldMax \in Nat \ {0} /\ Nesting \in BOOLEAN /\ None \notin Thread

NoPriority == 255

VARIABLES
  value,     \* mutex->value
  owner,     \* mutex->owner
  hold,      \* mutex->hold
  original,  \* mutex->original_priority
  prio,      \* thread->current_priority
  depth,     \* history: how often each thread has taken each mutex, as it was told
  mixed      \* history: the threads that have been in two mutexes at once

lockVars == <<value, owner, hold, original>>
mutexVars == <<lockVars, prio, depth, mixed>>
vars == <<objectVars, mutexVars>>

Init ==
  /\ ObjectInit
  /\ value = [m \in List |-> 1]
  /\ owner = [m \in List |-> None]
  /\ hold = [m \in List |-> 0]
  /\ original = [m \in List |-> NoPriority]
  /\ prio = Level
  /\ depth = [m \in List |-> [t \in Thread |-> 0]]
  /\ mixed = {}

\* The mutexes t is in.
Holds(t) == {m \in List : depth[m][t] > 0}

\* The application asks for m.
Asks(t, m) == Calls(t, m) /\ (Nesting \/ Holds(t) \subseteq {m})

Told(t, m, n) == depth' = [depth EXCEPT ![m][t] = n]

\* t is in m, whatever else it is in.
Mixes(t, m) == mixed' = IF Holds(t) \ {m} # {} THEN mixed \union {t} ELSE mixed

\* rt_mutex_take by the owner.  At the limit it is refused (-RT_EFULL).
TakeAgain(t, m) ==
  /\ Asks(t, m) /\ owner[m] = t
  /\ hold[m] < HoldMax
  /\ hold' = [hold EXCEPT ![m] = @ + 1]
  /\ Told(t, m, depth[m][t] + 1)
  /\ UNCHANGED <<objectVars, value, owner, original, prio, mixed>>

\* rt_mutex_take of a free mutex.
TakeNow(t, m) ==
  /\ Asks(t, m) /\ owner[m] # t
  /\ value[m] > 0
  /\ value' = [value EXCEPT ![m] = @ - 1]
  /\ owner' = [owner EXCEPT ![m] = t]
  /\ original' = [original EXCEPT ![m] = prio[t]]
  /\ hold' = [hold EXCEPT ![m] = @ + 1]
  /\ Told(t, m, 1) /\ Mixes(t, m)
  /\ UNCHANGED <<objectVars, prio>>

\* Mutant: only the boost of an owner with its own priority.
InheritedOnce(t, m) ==
  IF prio[t] < prio[owner[m]] /\ prio[owner[m]] = original[m]
    THEN [prio EXCEPT ![owner[m]] = prio[t]] ELSE prio

\* The priorities once t waits for m.  rt_thread_control leaves an owner that
\* waits itself where it is on its list.
Inherited(t, m) ==
  IF prio[t] < prio[owner[m]] THEN [prio EXCEPT ![owner[m]] = prio[t]] ELSE prio

\* The waiters of a PRIO list that t goes in front of.
Outranked(t, m) == IF m \in PrioList THEN {x \in Thread : prio[t] < prio[x]} ELSE {}

\* rt_mutex_take up to rt_schedule, somebody else in m.
TakeWait(t, m, limited) ==
  /\ Asks(t, m) /\ owner[m] # t
  /\ value[m] = 0
  /\ prio' = Inherited(t, m)
  /\ Park(m, t, LinkBefore(wait[m], t, Outranked(t, m)), limited)
  /\ Goto(t, "wait", m)
  /\ Mixes(t, m)
  /\ UNCHANGED <<gone, lockVars, depth>>

\* Mutant: the error is not looked at.
TakeReturnBlind(t) ==
  /\ Back(t, "wait")
  /\ Told(t, on[t], 1)
  /\ Return(t)
  /\ UNCHANGED <<waitVars, gone, lockVars, prio, mixed>>

\* rt_mutex_take after rt_schedule.
TakeReturn(t) ==
  /\ Back(t, "wait")
  /\ IF err[t] = "OK" THEN Told(t, on[t], 1) ELSE UNCHANGED depth
  /\ Return(t)
  /\ UNCHANGED <<waitVars, gone, lockVars, prio, mixed>>

\* The owner gives one of several takes back.
ReleaseNested(t, m) ==
  /\ Calls(t, m) /\ owner[m] = t
  /\ hold[m] > 1
  /\ hold' = [hold EXCEPT ![m] = @ - 1]
  /\ Told(t, m, depth[m][t] - 1)
  /\ UNCHANGED <<objectVars, value, owner, original, prio, mixed>>

\* The priorities after the last release: the owner has the saved one.
Restored(m) == [prio EXCEPT ![owner[m]] = original[m]]

\* The owner gives the last take back.  The first waiter becomes the owner
\* before it runs; without one the mutex is free.
ReleaseLast(t, m) ==
  /\ Calls(t, m) /\ owner[m] = t
  /\ hold[m] = 1
  /\ prio' = Restored(m)
  /\ Told(t, m, 0)
  /\ IF wait[m] # <<>>
       THEN LET w == Head(wait[m]) IN
            /\ owner' = [owner EXCEPT ![m] = w]
            /\ original' = [original EXCEPT ![m] = prio[w]]
            /\ Resume(m)
            /\ UNCHANGED <<value, hold>>
       ELSE /\ value' = [value EXCEPT ![m] = @ + 1]
            /\ owner' = [owner EXCEPT ![m] = None]
            /\ original' = [original EXCEPT ![m] = NoPriority]
            /\ hold' = [hold EXCEPT ![m] = 0]
            /\ UNCHANGED waitVars
  /\ UNCHANGED <<callVars, mixed>>

\* What does not touch the mutexes themselves.
Outside ==
  /\ \/ TimerExpires
     \/ \E t \in Thread, m \in List : Detach(t, m, {m})
     \/ \E t \in Thread : DetachTest(t, {}) \/ DetachResume(t)
  /\ UNCHANGED mutexVars

Next ==
  \/ Outside
  \/ \E t \in Thread :
       \/ TakeReturn(t)
       \/ \E m \in List :
            \/ TakeNow(t, m) \/ TakeAgain(t, m)
            \/ ReleaseNested(t, m) \/ ReleaseLast(t, m)
            \/ \E limited \in Timed : TakeWait(t, m, limited)

Spec == Init /\ [][Next]_vars

-----------------------------------------------------------------------------
TypeOK ==
  /\ CallTypeOK
  /\ value \in [List -> 0..1]
  /\ owner \in [List -> Thread \union {None}]
  /\ hold \in [List -> 0..HoldMax]
  /\ original \in [List -> Nat]
  /\ prio \in [Thread -> Nat]
  /\ depth \in [List -> [Thread -> 0..HoldMax]]
  /\ mixed \in SUBSET Thread

\* The threads that are in m: they were told so, or m was handed to them.
Inside(m) == {t \in Thread : depth[m][t] > 0} \union Woken("wait", m)

\* Mutual exclusion as the callers of rt_mutex_take see it, with the waiter a
\* mutex is handed to from the moment it is resumed: a thread is in a mutex
\* exactly when it is the owner, as often as the count says.
OneInside ==
  \A m \in List :
    /\ Inside(m) = (IF owner[m] = None THEN {} ELSE {owner[m]})
    /\ \A t \in Thread : depth[m][t] > 0 => hold[m] = depth[m][t]
    /\ value[m] = 1 <=> owner[m] = None

\* Nobody waits for a free mutex, nor for one it has itself.
NobodyWaitsForNothing ==
  \A m \in List, t \in Thread : Linked(wait[m], t) => owner[m] \notin {None, t}

\* Priority inheritance (PRIO lists): nobody in one mutex at a time waits for an
\* owner it outranks, whoever held the mutex before.
OwnerOutranks ==
  \A m \in PrioList \ gone, t \in Thread \ mixed :
    Linked(wait[m], t) /\ owner[m] \notin mixed => prio[owner[m]] <= prio[t]

\* A thread that was in one mutex at a time has its own priority back once it is
\* in none.
PriorityRestored ==
  \A t \in Thread \ mixed : (\A m \in List : owner[m] # t) => prio[t] = Level[t]
=============================================================================
