----------------------------- MODULE SocTimer -----------------------------
(***************************************************************************)
(* The timer of rtl/perips/pa_perips_timer.v clock by clock, with its       *)
(* driver libs/_sdk/timer/timer.c.  It makes the system tick.  Of the       *)
(* control and status registers bit 0 is kept, the only one with a meaning. *)
(***************************************************************************)
EXTENDS Naturals

CONSTANTS
  Prescales, Loads, \* psc and value of timer_init
  None              \* no tick yet

\* What the constants must be; the module that instantiates this one assumes it.
TimerConstants ==  \* a value of 1 ticks every other clock
  Prescales \subseteq Nat /\ Loads \subseteq Nat \ {0, 1} /\ None \notin Nat

VARIABLES
  cr, sr, psc, load,       \* _timer_cr, _timer_sr, _timer_psc, _timer_load
  counter, clkCnt, timeup, \* _timer_count, timer_clk_cnt, timer_timeup
  step,                    \* where the driver is
  written,                 \* history: a register was written in the last clock
  phase                    \* history: clocks since the last time a tick was due

vars == <<cr, sr, psc, load, counter, clkCnt, timeup, step, written, phase>>

Init ==
  /\ cr = FALSE /\ sr = FALSE /\ psc = 0 /\ load = 0
  /\ counter = 0 /\ clkCnt = 0 /\ timeup = FALSE
  /\ step = "run"
  /\ written = FALSE /\ phase = None

\* The clocks between two ticks.  The clock of the reload hides behind the prescaler, if
\* there is one.
Period == IF psc = 0 THEN load + 1 ELSE load * (psc + 1)

-----------------------------------------------------------------------------
\* timer_clk_cnt, timer_timeup and _timer_count, which stand at zero while the timer is off.
Counters ==
  /\ clkCnt' = IF cr /\ clkCnt # psc THEN clkCnt + 1 ELSE 0
  /\ timeup' = (cr /\ ~timeup /\ counter = 0)
  /\ counter' = CASE cr /\ counter = 0 -> load
                  [] cr /\ counter # 0 /\ clkCnt = psc -> counter - 1
                  [] cr /\ counter # 0 /\ clkCnt # psc -> counter
                  [] OTHER -> 0

\* A clock in which no register is written: the flag is set for one such clock.
Quiet ==
  /\ sr' = (~sr /\ cr /\ timeup)
  /\ UNCHANGED <<cr, psc, load>>

\* The clock's histories.
Seen(we) ==
  /\ written' = we
  /\ phase' = CASE ~cr' -> None
                [] cr' /\ phase = None -> IF sr' THEN 0 ELSE None
                [] OTHER -> (phase + 1) % Period

-----------------------------------------------------------------------------
\* The core does something else, or reads.
Elsewhere == Counters /\ Quiet /\ UNCHANGED step

\* The driver goes from one of its writes to the next; a write has the status register for
\* itself.
Writes(now, then) ==
  /\ step = now /\ step' = then
  /\ Counters

\* timer_init: stop, clear the flag, and set the prescaler and the load value.
InitStop == Writes("run", "stopped") /\ cr' = FALSE /\ UNCHANGED <<sr, psc, load>>
InitClear == Writes("stopped", "cleared") /\ sr' = FALSE /\ UNCHANGED <<cr, psc, load>>
InitPsc(p) ==
  /\ Writes("cleared", "prescaled")
  /\ psc' = (IF p = 0 THEN 0 ELSE p + 1)
  /\ UNCHANGED <<cr, sr, load>>
InitLoad(v) == Writes("prescaled", "set") /\ load' = v /\ UNCHANGED <<cr, sr, psc>>

\* timer_control, on a timer that has been initialised.
Control(en) ==
  /\ step \in {"set", "run"} /\ load # 0
  /\ Writes(step, "run")
  /\ cr' = en
  /\ UNCHANGED <<sr, psc, load>>

\* timer_clearflag
ClearFlag ==
  /\ Writes("run", "run")
  /\ sr' = FALSE
  /\ UNCHANGED <<cr, psc, load>>

\* A call or a load comes between two writes.
Driver ==
  /\ ~written
  /\ \/ InitStop \/ InitClear \/ ClearFlag
     \/ \E p \in Prescales : InitPsc(p)
     \/ \E v \in Loads : InitLoad(v)
     \/ \E en \in BOOLEAN : Control(en)

Next ==
  \/ Elsewhere /\ Seen(FALSE)
  \/ Driver /\ Seen(TRUE)

Spec == Init /\ [][Next]_vars

-----------------------------------------------------------------------------
\* "tick = 1ms" (sim/rtthread-nano/main.c): once they have begun the ticks come at equal
\* distances, and none is missing but those that meet a write of a register.
TicksOnTime == phase # None /\ ~written => (sr <=> phase = 0)
=============================================================================
