------------------------------ MODULE RtObject ------------------------------
(***************************************************************************)
(* What the objects with suspend lists (ipc.c, mempool.c) have in common:  *)
(* threads that are in a call about one of the lists, and the detach, which *)
(* wakes the waiters one by one with interrupts enabled at the loop test.  *)
(* From the detach on nobody else may use the object.                      *)
(***************************************************************************)
EXTENDS RtWait

CONSTANTS
  Detaches,       \* TRUE: a thread may detach the object
  DetachUnarmed,  \* TRUE (discipline): only while no waiter has a time limit
  Timed           \* values the application gives "the call has a time limit"

ASSUME ObjectAssumption ==
  /\ List # {}
  /\ Detaches \in BOOLEAN /\ DetachUnarmed \in BOOLEAN /\ Timed \subseteq BOOLEAN

VARIABLES
  pc,    \* where the call of a thread stands
  on,    \* the list the call is about
  gone   \* the lists of detached objects

callVars == <<pc, on, gone>>
objectVars == <<waitVars, callVars>>

SomeList == CHOOSE l \in List : TRUE

ObjectInit ==
  /\ WaitInit
  /\ pc = [t \in Thread |-> "run"]
  /\ on = [t \in Thread |-> SomeList]
  /\ gone = {}

\* The application calls: t runs, is in no call, and the object exists.
Calls(t, l) == pc[t] = "run" /\ l \notin gone

\* The call of t about l goes on at c.
Goto(t, c, l) ==
  /\ pc' = [pc EXCEPT ![t] = c]
  /\ on' = [on EXCEPT ![t] = l]

Return(t) == Goto(t, "run", SomeList)

\* Back from rt_schedule in call c.
Back(t, c) == pc[t] = c /\ ~Suspended(t)

\* The threads in call c about l that have been woken and have not run yet.
Woken(c, l) == {t \in Thread : Back(t, c) /\ on[t] = l /\ err[t] = "OK"}

\* rt_ipc_list_resume, if anybody waits on l.
ResumeOne(l) == IF wait[l] # <<>> THEN Resume(l) ELSE UNCHANGED waitVars

-----------------------------------------------------------------------------
\* The call of a detach of the object with the given lists, l first.
Detach(t, l, lists) ==
  /\ Calls(t, l) /\ Detaches
  /\ DetachUnarmed => armed = {}
  /\ gone' = gone \union lists
  /\ Goto(t, "detach", l)
  /\ UNCHANGED waitVars

\* The loop test.  When nobody is left, the object goes on with rest, the lists
\* that come after this one.
DetachTest(t, rest) ==
  /\ pc[t] = "detach"
  /\ CASE wait[on[t]] # <<>> -> Goto(t, "resume", on[t])
       [] wait[on[t]] = <<>> /\ on[t] \notin rest /\ rest # {} ->
            Goto(t, "detach", CHOOSE l \in rest : TRUE)
       [] OTHER -> Return(t)
  /\ UNCHANGED <<waitVars, gone>>

\* Mutant: the loop ends after one thread.
DetachResumeOnce(t) ==
  /\ pc[t] = "resume"
  /\ IF wait[on[t]] # <<>>
       THEN ResumeFailed(on[t]) /\ Return(t)
       ELSE Goto(t, "astray", on[t]) /\ UNCHANGED waitVars
  /\ UNCHANGED gone

\* The locked section resumes the thread at the head of the list.  With nobody
\* left there it takes the list head for a thread: what it then writes is not
\* modelled, and the call goes no further.
DetachResume(t) ==
  /\ pc[t] = "resume"
  /\ IF wait[on[t]] # <<>>
       THEN ResumeFailed(on[t]) /\ Goto(t, "detach", on[t])
       ELSE Goto(t, "astray", on[t]) /\ UNCHANGED waitVars
  /\ UNCHANGED gone

TimerExpires == (\E t \in Thread : Timeout(t)) /\ UNCHANGED callVars

-----------------------------------------------------------------------------
CallTypeOK ==
  /\ WaitTypeOK
  /\ pc \in [Thread -> {"run", "wait", "send", "fill", "urge", "copy",
                     "detach", "resume", "astray"}]
  /\ on \in [Thread -> List]
  /\ gone \in SUBSET List

\* "get next suspended thread" (ipc.c:174) and the object check of
\* rt_thread_resume (thread.c:760): the loop of the detach only resumes threads.
ResumesThreads == \A t \in Thread : pc[t] # "astray"

\* A detach leaves nobody waiting for an object that is gone.
DetachWakesAll ==
  \A l \in gone :
    (\A t \in Thread : pc[t] \notin {"detach", "resume"}) => wait[l] = <<>>
=============================================================================
