--------------------------- MODULE RtTimerService ---------------------------
(***************************************************************************)
(* What timer.c promises: a timer is off or has some ticks left; every     *)
(* tick takes one; when none is left its handler runs before the next tick, *)
(* once; a periodic timer then starts again.  Starting, stopping and       *)
(* changing a timer is allowed in every handler, its own included.         *)
(***************************************************************************)
EXTENDS Naturals

CONSTANTS
  Timer,
  Times,  \* init_tick
  None

VARIABLES
  left,     \* the ticks a timer has left, None when it is off
  again,    \* the timer whose handler runs, if it is to be started again
  handler,  \* the timer whose handler runs
  time,     \* timer->init_tick
  periodic  \* the timers with RT_TIMER_FLAG_PERIODIC

serviceVars == <<left, again, handler, time, periodic>>

ServiceInit ==
  /\ left = [t \in Timer |-> None]
  /\ again = None /\ handler = None
  /\ time \in [Timer -> Times]
  /\ periodic \in SUBSET Timer

Tick ==
  /\ handler = None
  /\ \A t \in Timer : left[t] # 0
  /\ left' = [t \in Timer |-> IF left[t] = None THEN None ELSE left[t] - 1]
  /\ UNCHANGED <<again, handler, time, periodic>>

Fire(t) ==
  /\ handler = None /\ left[t] = 0
  /\ handler' = t
  /\ left' = [left EXCEPT ![t] = None]
  /\ again' = IF t \in periodic THEN t ELSE None
  /\ UNCHANGED <<time, periodic>>

Return ==
  /\ handler # None
  /\ left' = IF again # None THEN [left EXCEPT ![again] = time[again]] ELSE left
  /\ again' = None /\ handler' = None
  /\ UNCHANGED <<time, periodic>>

\* A timer that is handled by its own handler is not started again.
Forget(t) == again' = IF again = t THEN None ELSE again

Start(t) ==
  /\ left' = [left EXCEPT ![t] = time[t]]
  /\ Forget(t)
  /\ UNCHANGED <<handler, time, periodic>>

Stop(t) ==
  /\ left' = [left EXCEPT ![t] = None]
  /\ Forget(t)
  /\ UNCHANGED <<handler, time, periodic>>

SetTime(t, n) ==
  /\ time' = [time EXCEPT ![t] = n]
  /\ UNCHANGED <<left, again, handler, periodic>>

\* One-shot to periodic and back, for the timeouts to come.
SetPeriodic(t, on) ==
  /\ periodic' = IF on THEN periodic \union {t} ELSE periodic \ {t}
  /\ again' = IF again = t /\ ~on THEN None ELSE again
  /\ UNCHANGED <<left, handler, time>>

ServiceNext ==
  \/ Tick \/ Return
  \/ \E t \in Timer :
       \/ Fire(t) \/ Start(t) \/ Stop(t)
       \/ \E n \in Times : SetTime(t, n)
       \/ \E on \in BOOLEAN : SetPeriodic(t, on)

ServiceSpec == ServiceInit /\ [][ServiceNext]_serviceVars
=============================================================================
