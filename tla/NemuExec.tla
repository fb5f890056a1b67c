------------------------------ MODULE NemuExec ------------------------------
(***************************************************************************)
(* The execution loop of NEMU (cpu/cpu-exec.c) with its timer and its       *)
(* interrupt (device/hwdev_timer.c, device/intr.c, isa/riscv32).  A step is *)
(* one turn of the loop: an instruction, or an interrupt in its place, and *)
(* the update of the devices, which the time of the host may leave out.    *)
(* What an instruction computes is left to chance.  The status register of *)
(* the timer, on which nothing depends, is left out.                       *)
(***************************************************************************)
EXTENDS Naturals

CONSTANTS
  Size, Mtvec, Target,  \* as in PaArch
  RegisterValues,       \* what the program writes to registers of the timer
  Untimed               \* no distance yet

\* What the constants must be; the module that instantiates this one assumes it.
ExecConstants ==
  /\ Size \in Nat \ {0} /\ Mtvec \in 0..(Size - 1) /\ Target \subseteq 0..(Size - 1)
  /\ RegisterValues \subseteq Nat /\ Untimed \notin Nat

VARIABLES
  pc, mepc, mie, mpie,  \* cpu.pc and the CSRs
  mtie, mip,            \* bit 7 of mie, bit 3 of mip
  pending,              \* timer_intr_pending
  timer,                \* hwdev_timer
  phase                 \* history: updates since the last tick, if nobody wrote meanwhile

csrs == <<mepc, mie, mpie, mtie>>
vars == <<pc, csrs, mip, pending, timer, phase>>

Addr == 0 .. Size - 1
Next1(a) == (a + 1) % Size

Init ==
  /\ pc = 0 /\ mepc = 0 /\ mie = FALSE /\ mpie = FALSE /\ mtie = FALSE
  /\ mip = FALSE /\ pending = FALSE
  /\ timer = [cr |-> FALSE, psc |-> 0, load |-> 0, count |-> 0, clkCnt |-> 0]
  /\ phase = Untimed

-----------------------------------------------------------------------------
(* hwdev_timer_update and hwdev_timer_io_handler *)

Period == (timer.psc + 1) * (timer.load + 1)

\* The counter moves in this update.
Counts(t) == t.cr /\ t.clkCnt >= t.psc

Fires(t) == Counts(t) /\ t.count = 0

Updated(t) ==
  IF ~t.cr THEN t
  ELSE [t EXCEPT !.clkCnt = IF Counts(t) THEN 0 ELSE @ + 1,
                 !.count = CASE Fires(t) -> t.load
                             [] Counts(t) /\ ~Fires(t) -> @ - 1
                             [] OTHER -> @]

\* A store; switching the timer off clears its counters.
Stored(register, v) ==
  CASE register = "cr" -> IF v = 0 THEN [timer EXCEPT !.cr = FALSE, !.count = 0, !.clkCnt = 0]
                          ELSE [timer EXCEPT !.cr = TRUE]
    [] register = "psc" -> [timer EXCEPT !.psc = v]
    [] register = "load" -> [timer EXCEPT !.load = v]
    [] register = "count" -> [timer EXCEPT !.count = v, !.clkCnt = 0]

-----------------------------------------------------------------------------
(* execute *)

\* device_update, on the timer, the flag and the bit as the turn of the loop has left them;
\* dev_raise_intr sets the latter two.
Update(t, flag, bit) ==
  \E comes \in BOOLEAN :
    LET fires == comes /\ Fires(t) IN
    /\ timer' = IF comes THEN Updated(t) ELSE t
    /\ pending' = (flag \/ fires) /\ mip' = (bit \/ fires)
    /\ phase' = CASE fires -> 0
                  [] ~fires /\ (t # timer \/ phase = Untimed) -> Untimed
                  [] OTHER -> IF comes /\ t.cr THEN phase + 1 ELSE phase

\* The flag of the device agrees with the bit, and isa_raise_intr enters the handler.
Taken == mie /\ mtie /\ mip /\ pending

\* Mutant: the handler runs with interrupts enabled.
InterruptOpen ==
  /\ Taken
  /\ pc' = Mtvec /\ mepc' = pc
  /\ mpie' = TRUE /\ UNCHANGED <<mie, mtie>>
  /\ Update(timer, FALSE, FALSE)

\* isa_query_intr clears the flag and the bit.
Interrupt ==
  /\ Taken
  /\ pc' = Mtvec /\ mepc' = pc
  /\ mpie' = TRUE /\ mie' = FALSE /\ UNCHANGED mtie
  /\ Update(timer, FALSE, FALSE)

\* An instruction that leaves the CSRs and the timer alone, a jump or another one.
Plain ==
  /\ ~Taken
  /\ pc' \in {Next1(pc)} \union Target /\ UNCHANGED csrs
  /\ Update(timer, pending, mip)

\* CSR_write to mstatus, mepc or mie.
WriteCsr ==
  /\ ~Taken
  /\ pc' = Next1(pc)
  /\ \/ mie' \in BOOLEAN /\ mpie' \in BOOLEAN /\ UNCHANGED <<mepc, mtie>>
     \/ mepc' \in Addr /\ UNCHANGED <<mie, mpie, mtie>>
     \/ mtie' \in BOOLEAN /\ UNCHANGED <<mepc, mie, mpie>>
  /\ Update(timer, pending, mip)

\* A store to the timer.
Store ==
  /\ ~Taken
  /\ pc' = Next1(pc) /\ UNCHANGED csrs
  /\ \E register \in {"cr", "psc", "load", "count"}, v \in RegisterValues :
       Update(Stored(register, v), pending, mip)

\* mret sets MIE whatever MPIE is; here it returns to a program that had it set.
Mret ==
  /\ ~Taken /\ mpie
  /\ pc' = mepc
  /\ mie' = TRUE /\ mpie' = TRUE /\ UNCHANGED <<mepc, mtie>>
  /\ Update(timer, pending, mip)

Next == Interrupt \/ Plain \/ WriteCsr \/ Store \/ Mret

Spec == Init /\ [][Next]_vars

-----------------------------------------------------------------------------
\* The ticks of a timer that nobody writes to come at equal distances, and the bit of mip
\* is that of the device, whatever enters and returns.
TicksExact ==
  /\ mip = pending
  /\ phase # Untimed =>
       /\ phase < Period
       /\ timer.cr => (Fires(timer) <=> phase + 1 = Period)

\* NEMU is the machine that the core is: the two of them that "make trace_run" compares
\* look the same to a program.
Arch == INSTANCE PaArch
IsArch == Arch!Spec
=============================================================================
