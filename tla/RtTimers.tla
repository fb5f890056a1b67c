------------------------------ MODULE RtTimers ------------------------------
(***************************************************************************)
(* The timers of timer.c on the system timer list: one-shot and periodic,  *)
(* started, stopped, detached and changed by threads between the ticks and *)
(* by the handlers that rt_timer_check calls in the tick interrupt.        *)
(* RT_TIMER_SKIP_LIST_LEVEL is 1, as in rtconfig.h.                        *)
(***************************************************************************)
EXTENDS RtList

CONSTANTS
  Timer,
  Times,    \* init_tick of a timer; 0 would keep rt_timer_check busy for ever
  TickMod,  \* RT_TICK_MAX + 1
  None      \* no timer

HalfTick == (TickMod - 1) \div 2   \* RT_TICK_MAX / 2

\* What the constants must be; the module that instantiates this one assumes it.
TimersConstants ==
  /\ TickMod \in Nat /\ TickMod > 3
  /\ Times \subseteq 1..(HalfTick - 1) /\ Times # {}
  /\ None \notin Timer /\ None \notin Nat

VARIABLES
  tick,      \* rt_tick
  list,      \* rt_timer_list
  temp,      \* the list of rt_timer_check, which holds the timer being handled
  due,       \* timer->timeout_tick
  time,      \* timer->init_tick
  active,    \* the timers with RT_TIMER_FLAG_ACTIVATED
  periodic,  \* the timers with RT_TIMER_FLAG_PERIODIC
  checking,  \* rt_timer_check runs
  handler,   \* the timer whose handler it has called
  stopping   \* the timer a thread is about to stop

settings == <<time, periodic>>
vars == <<tick, list, temp, due, settings, active, checking, handler, stopping>>

Init ==
  /\ tick = 0
  /\ list = <<>> /\ temp = <<>>
  /\ due = [t \in Timer |-> 0]
  /\ time \in [Timer -> Times]
  /\ active = {} /\ periodic \in SUBSET Timer
  /\ checking = FALSE /\ handler = None /\ stopping = None

Diff(a, b) == (a - b) % TickMod

-----------------------------------------------------------------------------
\* The timers rt_timer_start puts one that expires at tick d in front of.
Later(d) == {u \in Timer : Diff(due[u], d) # 0 /\ Diff(due[u], d) < HalfTick}

\* rt_timer_start, with l and a the list and the active timers it finds.
StartFrom(t, l, a) ==
  LET d == (tick + time[t]) % TickMod IN
  /\ due' = [due EXCEPT ![t] = d]
  /\ list' = LinkBefore(Unlink(l, t), t, Later(d))
  /\ active' = a \union {t}

Start(t) ==
  /\ StartFrom(t, list, active)
  /\ temp' = Unlink(temp, t)
  /\ UNCHANGED <<tick, settings, checking, handler, stopping>>

\* The locked section of rt_timer_stop and rt_timer_detach.  The timeout_tick of
\* a timer that is off is forgotten.
Unset(t) ==
  /\ list' = Unlink(list, t) /\ temp' = Unlink(temp, t)
  /\ due' = [due EXCEPT ![t] = 0]
  /\ active' = active \ {t}
  /\ UNCHANGED <<tick, settings, checking, handler>>

\* rt_timer_stop in a handler: one step.
StopInHandler(t) ==
  /\ checking /\ t \in active
  /\ Unset(t)
  /\ UNCHANGED stopping

Detach(t) == Unset(t) /\ UNCHANGED stopping

\* rt_timer_stop in a thread: the flag is tested before interrupts are disabled.
StopTest(t) ==
  /\ ~checking /\ t \in active
  /\ stopping' = t
  /\ UNCHANGED <<tick, list, temp, due, settings, active, checking, handler>>

StopSection ==
  /\ ~checking
  /\ Unset(stopping)
  /\ stopping' = None

\* rt_timer_control.  (Discipline) A handler does not make its own timer one-shot:
\* it would not be started again, and still be marked active.
SetTime(t, n) ==
  /\ time' = [time EXCEPT ![t] = n]
  /\ UNCHANGED <<tick, list, temp, due, active, periodic, checking, handler, stopping>>

SetPeriodic(t) ==
  /\ periodic' = periodic \union {t}
  /\ UNCHANGED <<tick, list, temp, due, active, time, checking, handler, stopping>>

SetOneshot(t) ==
  /\ t # handler
  /\ periodic' = periodic \ {t}
  /\ UNCHANGED <<tick, list, temp, due, active, time, checking, handler, stopping>>

-----------------------------------------------------------------------------
(* The tick interrupt: rt_tick_increase, then rt_timer_check *)

TickIncrease ==
  /\ ~checking
  /\ tick' = (tick + 1) % TickMod
  /\ checking' = TRUE
  /\ UNCHANGED <<list, temp, due, settings, active, handler, stopping>>

Expired(t) == Diff(tick, due[t]) < HalfTick

\* The first timer is taken off the list and its handler called.
Expire(t) ==
  /\ checking /\ handler = None
  /\ list # <<>> /\ t = Head(list) /\ Expired(t)
  /\ list' = Tail(list)
  /\ temp' = LinkFirst(temp, t)
  /\ active' = IF t \in periodic THEN active ELSE active \ {t}
  /\ handler' = t
  /\ due' = [due EXCEPT ![t] = 0]
  /\ UNCHANGED <<tick, settings, checking, stopping>>

\* Mutant: the handler is not asked whether it has handled its own timer.
HandlerReturnsBlind ==
  /\ handler # None
  /\ temp' = <<>> /\ handler' = None
  /\ IF handler \in periodic
       THEN StartFrom(handler, list, active)
       ELSE UNCHANGED <<list, due, active>>
  /\ UNCHANGED <<tick, settings, checking, stopping>>

\* The handler is back.  Unless it has started, stopped or detached its timer, a
\* periodic one starts again.
HandlerReturns ==
  /\ handler # None
  /\ temp' = <<>> /\ handler' = None
  /\ IF temp # <<>> /\ handler \in periodic /\ handler \in active
       THEN StartFrom(handler, list, active \ {handler})
       ELSE UNCHANGED <<list, due, active>>
  /\ UNCHANGED <<tick, settings, checking, stopping>>

CheckDone ==
  /\ checking /\ handler = None
  /\ list # <<>> => ~Expired(Head(list))
  /\ checking' = FALSE
  /\ UNCHANGED <<tick, list, temp, due, settings, active, handler, stopping>>

\* A thread between two interrupts, or the handler.
Calling == (~checking /\ stopping = None) \/ handler # None

Next ==
  \/ TickIncrease \/ HandlerReturns \/ CheckDone
  \/ stopping # None /\ StopSection
  \/ \E t \in Timer :
       \/ Expire(t)
       \/ Calling /\ stopping # t /\ (Start(t) \/ Detach(t))
       \/ Calling /\ (StopInHandler(t) \/ StopTest(t) \/ SetPeriodic(t) \/ SetOneshot(t))
       \/ Calling /\ \E n \in Times : SetTime(t, n)

Spec == Init /\ [][Next]_vars

-----------------------------------------------------------------------------
\* The ticks a timer on the list has left.  A tick counts when its check is over.
Left(t) ==
  IF ~Linked(list, t) THEN None ELSE Diff(due[t], tick)

Service == INSTANCE RtTimerService WITH
  left <- [t \in Timer |-> Left(t)],
  again <- IF temp # <<>> /\ handler \in periodic /\ handler \in active THEN handler ELSE None

\* The timers do what RtTimerService promises.
IsTimerService == Service!ServiceSpec
=============================================================================
