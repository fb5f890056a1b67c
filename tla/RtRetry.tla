------------------------------- MODULE RtRetry -------------------------------
(***************************************************************************)
(* Objects that hand nothing over: a woken thread looks again, may find    *)
(* that another one was faster, and waits on for the time it has left      *)
(* (the loops of rt_mb_send_wait, rt_mb_recv, rt_mq_send_wait, rt_mq_recv  *)
(* and rt_mp_alloc).                                                       *)
(***************************************************************************)
EXTENDS RtObject

CONSTANT Limits  \* the time limits calls are given, among "none", "some", "never"

\* What the constants must be; the module that instantiates this one assumes it.
RetryConstants == Limits \subseteq {"none", "some", "never"}

VARIABLE left  \* the waiting time a call has left: none, some, or for ever

loopVars == <<objectVars, left>>

RetryInit ==
  /\ ObjectInit
  /\ left = [t \in Thread |-> "none"]

Remains(t, limit) == left' = [left EXCEPT ![t] = limit]

\* Call c of t waits on l, whose waiters are then the given ones.
WaitOn(t, c, l, waiters, limit) ==
  /\ limit # "none"
  /\ Park(l, t, waiters, limit = "some")
  /\ Goto(t, c, l)
  /\ Remains(t, limit)
  /\ UNCHANGED gone

\* The call of t is over.
Over(t) == Return(t) /\ Remains(t, "none") /\ UNCHANGED gone

\* The time that is left after waiting: with a limit, some or none.
Remaining(t) == IF left[t] = "some" THEN {"some", "none"} ELSE {left[t]}

\* Back from rt_schedule with an error: the call fails.
Failed(t, c) == Back(t, c) /\ err[t] # "OK"

\* Back from rt_schedule: the call looks again, with the time limit left.
Looks(t, c, limit) == Back(t, c) /\ err[t] = "OK" /\ limit \in Remaining(t)

\* The detach of such an object.  (Discipline) No woken thread is on its way to
\* it: it would look at, and wait on, an object that is gone.
RetryDetach(t, l, lists) ==
  /\ DetachUnarmed => \A x \in Thread : pc[x] \in {"wait", "send"} => Suspended(x)
  /\ Detach(t, l, lists)

RetryTypeOK == CallTypeOK /\ left \in [Thread -> {"none", "some", "never"}]
=============================================================================
