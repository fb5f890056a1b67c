------------------------------ MODULE RtSwitch ------------------------------
(***************************************************************************)
(* How a thread gets and loses the processor: rt_hw_context_switch and     *)
(* rt_hw_context_switch_to (libcpu/risc-v/common/context_gcc.S),           *)
(* rt_hw_context_switch_interrupt (cpuport.c) and the trap entry and       *)
(* return of _startup/trap.S, which moves to a stack of its own through    *)
(* mscratch and back, or on to another thread.                             *)
(*                                                                         *)
(* The registers of a thread are one value, its owner; a saved frame also  *)
(* has the stack it lies on and the MPIE bit of its mstatus image.  A      *)
(* frame that has been restored is dead: what its sp then points to is     *)
(* overwritten by the thread.  The trap code and the C handler it calls    *)
(* run with MIE clear, so a trap is three steps: entry, the calls of       *)
(* rt_schedule its handler makes, return.  Which thread rt_schedule picks  *)
(* is left open here; module RtMachine takes it from RtKernel.             *)
(***************************************************************************)
EXTENDS Integers, TLAPS

CONSTANTS
  Thread,
  Main,       \* the thread rt_system_scheduler_start switches to
  Ist,        \* the interrupt stack, __intr_stack_top
  NoFrame,    \* no saved frame
  MaxSwitch   \* bound on the switches the handler of one interrupt asks for

Frame == [owner : Thread, stack : Thread, mpie : BOOLEAN]

ASSUME MachineAssumption ==
  /\ Main \in Thread
  /\ Ist \notin Thread
  /\ NoFrame \notin Frame
  /\ MaxSwitch \in Nat

VARIABLES
  curt,      \* rt_current_thread
  cpu,       \* whose registers the processor holds; in a trap, held
  stack,     \* the stack register sp points into
  mscratch,  \* the stack mscratch points into
  mie,       \* mstatus.MIE
  locked,    \* the threads between rt_hw_interrupt_disable and _enable
  nest,      \* rt_interrupt_nest
  frame,     \* the trap frame, from the trap to its return
  sp,        \* the frame thread->sp points to
  from,      \* rt_interrupt_from_thread
  to,        \* rt_interrupt_to_thread
  flag,      \* rt_thread_switch_interrupt_flag
  asked      \* the switches asked for in this trap

switchVars == <<from, to, flag>>
vars == <<curt, cpu, stack, mscratch, mie, locked, nest, frame, sp, switchVars, asked>>

\* The frame rt_hw_stack_init builds: it starts with interrupts enabled.
FirstFrame(t) == [owner |-> t, stack |-> t, mpie |-> TRUE]

\* After rt_hw_context_switch_to.
Init ==
  /\ curt = Main /\ cpu = Main /\ stack = Main
  /\ mscratch = Ist
  /\ mie = TRUE /\ locked = {} /\ nest = 0
  /\ frame = NoFrame
  /\ sp = [t \in Thread |-> IF t = Main THEN NoFrame ELSE FirstFrame(t)]
  /\ from = Main /\ to = Main /\ flag = FALSE
  /\ asked = 0

-----------------------------------------------------------------------------
(* The thread on the processor *)

InterruptDisable ==
  /\ frame = NoFrame /\ mie
  /\ mie' = FALSE
  /\ locked' = locked \union {cpu}
  /\ UNCHANGED <<curt, cpu, stack, mscratch, nest, frame, sp, switchVars, asked>>

InterruptEnable ==
  /\ frame = NoFrame /\ cpu \in locked
  /\ mie' = TRUE
  /\ locked' = locked \ {cpu}
  /\ UNCHANGED <<curt, cpu, stack, mscratch, nest, frame, sp, switchVars, asked>>

\* _thread_exit: the frame at thread x's sp goes to the registers.  A dead frame
\* is memory the thread has used since: anything can come of it.
Restore(x) ==
  IF sp[x] = NoFrame
    THEN cpu' \in Thread /\ stack' \in Thread /\ mie' \in BOOLEAN
    ELSE cpu' = sp[x].owner /\ stack' = sp[x].stack /\ mie' = sp[x].mpie

\* Mutant: every saved frame has MPIE set.
ContextSwitchOpen(x) ==
  /\ sp' = [sp EXCEPT ![curt] = [owner |-> cpu, stack |-> stack, mpie |-> TRUE],
                      ![x] = NoFrame]
  /\ Restore(x)
  /\ UNCHANGED <<mscratch, locked, nest, frame, switchVars, asked>>

\* rt_hw_context_switch(&rt_current_thread->sp, &x->sp).
ContextSwitch(x) ==
  /\ sp' = [sp EXCEPT ![curt] = [owner |-> cpu, stack |-> stack, mpie |-> mie],
                      ![x] = NoFrame]
  /\ Restore(x)
  /\ UNCHANGED <<mscratch, locked, nest, frame, switchVars, asked>>

\* rt_hw_context_switch_interrupt(&rt_current_thread->sp, &x->sp).
ContextSwitchInterrupt(x) ==
  /\ from' = curt
  /\ to' = x
  /\ flag' = TRUE
  /\ asked' = asked + 1
  /\ UNCHANGED <<cpu, stack, mscratch, mie, locked, nest, frame, sp>>

\* The part of rt_schedule that leaves the current thread for x.
Switch(x) == IF nest = 0 THEN ContextSwitch(x) ELSE ContextSwitchInterrupt(x)

\* rt_schedule, in a locked section of a thread or in the trap handler.
Schedule(x) ==
  /\ ~mie
  /\ x # curt
  /\ nest # 0 => asked < MaxSwitch
  /\ Switch(x)
  /\ curt' = x

-----------------------------------------------------------------------------
(* The trap *)

\* trap_entry up to the call of trap_handler, for an interrupt.  sp and
\* mscratch are swapped and the frame is stored with mstatus image 0x88; it
\* lies on the interrupt stack but belongs to the interrupted stack.
TrapEntry ==
  /\ frame = NoFrame /\ mie
  /\ stack' = mscratch /\ mscratch' = stack
  /\ frame' = [owner |-> cpu, stack |-> stack, mpie |-> TRUE]
  /\ mie' = FALSE
  /\ nest' = 1
  /\ asked' = 0
  /\ UNCHANGED <<curt, cpu, locked, sp, switchVars>>

\* Mutant: sp and mscratch are not swapped back.
TrapReturnUnswapped ==
  /\ frame # NoFrame /\ ~flag
  /\ cpu' = frame.owner /\ mie' = frame.mpie
  /\ frame' = NoFrame
  /\ nest' = 0
  /\ UNCHANGED <<curt, stack, mscratch, locked, sp, switchVars, asked>>

\* _restore: nobody asked for a switch.
TrapReturn ==
  /\ frame # NoFrame /\ ~flag
  /\ cpu' = frame.owner /\ mie' = frame.mpie
  /\ stack' = mscratch /\ mscratch' = stack
  /\ frame' = NoFrame
  /\ nest' = 0
  /\ UNCHANGED <<curt, locked, sp, switchVars, asked>>

\* Mutant: mscratch goes on pointing into the interrupted stack.
TrapReturnSwitchedScratch ==
  /\ frame # NoFrame /\ flag
  /\ flag' = FALSE
  /\ sp' = [sp EXCEPT ![from] = [frame EXCEPT !.stack = mscratch], ![to] = NoFrame]
  /\ Restore(to)
  /\ frame' = NoFrame
  /\ nest' = 0
  /\ UNCHANGED <<curt, locked, mscratch, from, to, asked>>

\* Mutant: the frame stays where it is, on the interrupt stack.
TrapReturnSwitchedInPlace ==
  /\ frame # NoFrame /\ flag
  /\ flag' = FALSE
  /\ sp' = [sp EXCEPT ![from] = [frame EXCEPT !.stack = stack], ![to] = NoFrame]
  /\ mscratch' = stack
  /\ Restore(to)
  /\ frame' = NoFrame
  /\ nest' = 0
  /\ UNCHANGED <<curt, locked, from, to, asked>>

\* The switch path: the trap frame is copied to the stack mscratch points into,
\* the sp of the from thread is set to it, mscratch gets the interrupt stack
\* back, and the to thread is restored.
TrapReturnSwitched ==
  /\ frame # NoFrame /\ flag
  /\ flag' = FALSE
  /\ sp' = [sp EXCEPT ![from] = [frame EXCEPT !.stack = mscratch], ![to] = NoFrame]
  /\ mscratch' = stack
  /\ Restore(to)
  /\ frame' = NoFrame
  /\ nest' = 0
  /\ UNCHANGED <<curt, locked, from, to, asked>>

Next ==
  \/ InterruptDisable \/ InterruptEnable
  \/ TrapEntry \/ TrapReturn \/ TrapReturnSwitched
  \/ \E x \in Thread : Schedule(x)

Spec == Init /\ [][Next]_vars

-----------------------------------------------------------------------------
(* Properties *)

TypeOK ==
  /\ curt \in Thread /\ cpu \in Thread
  /\ stack \in Thread \union {Ist} /\ mscratch \in Thread \union {Ist}
  /\ mie \in BOOLEAN
  /\ locked \in SUBSET Thread
  /\ nest \in {0, 1}
  /\ frame \in Frame \union {NoFrame}
  /\ sp \in [Thread -> Frame \union {NoFrame}]
  /\ from \in Thread /\ to \in Thread /\ flag \in BOOLEAN
  /\ asked \in 0..MaxSwitch

\* Outside a trap the processor executes rt_current_thread, on the stack of
\* that thread: what every other part of the kernel takes for granted.
RunsCurrent == frame = NoFrame => cpu = curt /\ stack = curt

\* Every thread that is not on the processor (in a trap: that is not the
\* interrupted one) is found through its own sp, in a frame of its own on its own
\* stack, "so the normal thread restore path can use it later" (trap.S:153).
FramesOwned == \A t \in Thread : t # cpu =>
  /\ sp[t] # NoFrame
  /\ sp[t].owner = t /\ sp[t].stack = t

\* A thread that was switched out in a locked section comes back with interrupts
\* disabled, and one that was interrupted, with interrupts enabled; the two
\* kinds of frame may be restored by either of the two return paths.
LockedSections ==
  /\ frame = NoFrame => (mie <=> cpu \notin locked)
  /\ \A t \in Thread : t # cpu => (sp[t].mpie <=> t \notin locked)

\* The interrupt stack is free whenever a trap can be taken, and
\* rt_interrupt_nest tells rt_schedule which of the two switches to use.
TrapStack ==
  /\ frame = NoFrame => mscratch = Ist /\ nest = 0
  /\ frame # NoFrame => stack = Ist /\ mscratch = cpu /\ nest = 1 /\ ~mie

-----------------------------------------------------------------------------
(* Proofs.  When the handler of one interrupt asks for at most one switch, *)
(* every thread gets the processor back with its own registers, on its own *)
(* stack and with interrupts as it left them, for any number of threads.   *)

\* What the flag stands for between the trap and its return.
Pending ==
  /\ frame = NoFrame => ~flag
  /\ frame # NoFrame => frame.owner = cpu /\ frame.stack = cpu /\ frame.mpie /\ cpu \notin locked
  /\ frame # NoFrame /\ flag => from = cpu /\ to = curt /\ curt # cpu /\ asked = 1
  /\ frame # NoFrame /\ ~flag => curt = cpu /\ asked = 0

IInv == TypeOK /\ RunsCurrent /\ FramesOwned /\ LockedSections /\ TrapStack /\ Pending

\* A frame is not the absent frame.
LEMMA FrameFacts ==
  ASSUME NEW o \in Thread, NEW s \in Thread, NEW b \in BOOLEAN
  PROVE  LET f == [owner |-> o, stack |-> s, mpie |-> b]
         IN  f \in Frame /\ f # NoFrame
<1>1. [owner |-> o, stack |-> s, mpie |-> b] \in Frame BY DEF Frame
<1> QED BY <1>1, MachineAssumption

LEMMA InitIInv == Init => IInv
<1> SUFFICES ASSUME Init PROVE IInv OBVIOUS
<1> USE MachineAssumption DEF Init
<1>1. ASSUME NEW t \in Thread PROVE
        FirstFrame(t) \in Frame /\ FirstFrame(t) # NoFrame
        /\ FirstFrame(t).owner = t /\ FirstFrame(t).stack = t /\ FirstFrame(t).mpie
  BY FrameFacts DEF FirstFrame
<1>2. TypeOK
  <2>1. \A t \in Thread : sp[t] \in Frame \union {NoFrame} BY <1>1
  <2>2. sp \in [Thread -> Frame \union {NoFrame}] BY <2>1
  <2>3. /\ curt \in Thread /\ cpu \in Thread /\ from \in Thread /\ to \in Thread
        /\ stack \in Thread \union {Ist} /\ mscratch \in Thread \union {Ist}
        /\ mie \in BOOLEAN /\ flag \in BOOLEAN /\ locked \in SUBSET Thread
        /\ nest \in {0, 1} /\ frame \in Frame \union {NoFrame}
    BY Zenon
  <2>4. asked \in 0..MaxSwitch OBVIOUS
  <2> HIDE DEF Init
  <2> QED BY <2>2, <2>3, <2>4 DEF TypeOK
<1>3. FramesOwned BY <1>1 DEF FramesOwned
<1>4. LockedSections BY <1>1 DEF LockedSections
<1>5. RunsCurrent /\ TrapStack /\ Pending BY DEF RunsCurrent, TrapStack, Pending
<1> QED BY <1>2, <1>3, <1>4, <1>5 DEF IInv

LEMMA NextIInv == ASSUME MaxSwitch = 1, IInv, [Next]_vars PROVE IInv'
<1> USE MachineAssumption
<1>1. CASE InterruptDisable
  BY <1>1 DEF InterruptDisable, IInv, TypeOK, RunsCurrent, FramesOwned, LockedSections,
     TrapStack, Pending, switchVars
<1>2. CASE InterruptEnable
  BY <1>2 DEF InterruptEnable, IInv, TypeOK, RunsCurrent, FramesOwned, LockedSections,
     TrapStack, Pending, switchVars
<1>3. CASE TrapEntry
  <2>1. cpu = curt /\ stack = curt /\ mscratch = Ist /\ cpu \notin locked /\ ~flag
    BY <1>3 DEF TrapEntry, IInv, RunsCurrent, LockedSections, TrapStack, Pending
  <2>2. frame' \in Frame /\ frame' # NoFrame /\ frame'.owner = cpu
        /\ frame'.stack = cpu /\ frame'.mpie
    BY <1>3, <2>1, FrameFacts DEF TrapEntry, IInv, TypeOK
  <2>3. TypeOK'
    <3>1. asked' \in 0..MaxSwitch BY <1>3 DEF TrapEntry
    <3>2. mie' \in BOOLEAN BY <1>3, Zenon DEF TrapEntry
    <3> QED BY <1>3, <2>2, <3>1, <3>2, Zenon DEF TrapEntry, IInv, TypeOK, switchVars
  <2>4. RunsCurrent' BY <2>2 DEF RunsCurrent
  <2>5. FramesOwned' BY <1>3 DEF TrapEntry, IInv, FramesOwned
  <2>6. LockedSections' BY <1>3, <2>2 DEF TrapEntry, IInv, LockedSections
  <2>7. TrapStack' BY <1>3, <2>1, <2>2 DEF TrapEntry, TrapStack
  <2>8. Pending' BY <1>3, <2>1, <2>2 DEF TrapEntry, Pending, switchVars
  <2> QED BY <2>3, <2>4, <2>5, <2>6, <2>7, <2>8 DEF IInv
<1>4. CASE TrapReturn
  <2>1. /\ frame.owner = cpu /\ frame.mpie = TRUE /\ cpu \notin locked
        /\ curt = cpu /\ stack = Ist /\ mscratch = cpu
    BY <1>4 DEF TrapReturn, IInv, TypeOK, Frame, TrapStack, Pending
  <2>2. cpu' = cpu /\ mie' = TRUE /\ stack' = cpu /\ mscratch' = Ist /\ frame' = NoFrame
        /\ nest' = 0 /\ ~flag'
    BY <1>4, <2>1 DEF TrapReturn, switchVars
  <2>3. TypeOK' BY <1>4, <2>2 DEF TrapReturn, IInv, TypeOK, switchVars
  <2>4. RunsCurrent' BY <1>4, <2>1, <2>2 DEF TrapReturn, RunsCurrent
  <2>5. FramesOwned' BY <1>4, <2>2 DEF TrapReturn, IInv, FramesOwned
  <2>6. LockedSections' BY <1>4, <2>1, <2>2 DEF TrapReturn, IInv, LockedSections
  <2>7. TrapStack' BY <2>2 DEF TrapStack
  <2>8. Pending' BY <2>2 DEF Pending
  <2> QED BY <2>3, <2>4, <2>5, <2>6, <2>7, <2>8 DEF IInv
<1>5. CASE TrapReturnSwitched
  <2>1. /\ from = cpu /\ to = curt /\ curt # cpu /\ cpu \notin locked
        /\ stack = Ist /\ mscratch = cpu
    BY <1>5 DEF TrapReturnSwitched, IInv, TrapStack, Pending
  <2>2. /\ frame \in Frame /\ frame.owner = cpu /\ frame.mpie
        /\ [frame EXCEPT !.stack = cpu] \in Frame
    BY <1>5 DEF TrapReturnSwitched, IInv, TypeOK, Pending, Frame
  <2> DEFINE f == [frame EXCEPT !.stack = cpu]
  <2>3. f \in Frame /\ f # NoFrame /\ f.owner = cpu /\ f.stack = cpu /\ f.mpie
    BY <2>2 DEF Frame
  <2>4. sp[curt] \in Frame /\ sp[curt].owner = curt /\ sp[curt].stack = curt
        /\ (sp[curt].mpie <=> curt \notin locked)
    BY <2>1 DEF IInv, TypeOK, FramesOwned, LockedSections
  <2>5. /\ sp' = [sp EXCEPT ![cpu] = f, ![curt] = NoFrame]
        /\ cpu' = curt /\ stack' = curt /\ mie' = sp[curt].mpie
        /\ mscratch' = Ist /\ frame' = NoFrame /\ nest' = 0 /\ ~flag' /\ flag' \in BOOLEAN
        /\ UNCHANGED <<curt, locked, from, to, asked>>
    BY <1>5, <2>1, <2>4 DEF TrapReturnSwitched, Restore
  <2> HIDE DEF f
  <2>6. TypeOK'
    <3>1. sp' \in [Thread -> Frame \union {NoFrame}] BY <2>3, <2>5 DEF IInv, TypeOK
    <3>2. mie' \in BOOLEAN BY <2>4, <2>5 DEF Frame
    <3> QED BY <2>5, <3>1, <3>2, Zenon DEF IInv, TypeOK
  <2>7. RunsCurrent' BY <2>5 DEF RunsCurrent
  <2>8. FramesOwned' BY <2>1, <2>3, <2>5 DEF IInv, TypeOK, FramesOwned
  <2>9. LockedSections' BY <2>1, <2>3, <2>4, <2>5 DEF IInv, TypeOK, LockedSections
  <2>10. TrapStack' BY <2>5 DEF TrapStack
  <2>11. Pending' BY <2>5 DEF Pending
  <2> QED BY <2>6, <2>7, <2>8, <2>9, <2>10, <2>11 DEF IInv
<1>6. ASSUME NEW x \in Thread, Schedule(x) PROVE IInv'
  <2>1. CASE nest = 0
    BY <1>6, <2>1 DEF Schedule, Switch, ContextSwitch, Restore, IInv, TypeOK, RunsCurrent,
       FramesOwned, LockedSections, TrapStack, Pending, switchVars, Frame
  <2>2. CASE nest # 0
    BY <1>6, <2>2 DEF Schedule, Switch, ContextSwitchInterrupt, IInv, TypeOK, RunsCurrent,
       FramesOwned, LockedSections, TrapStack, Pending, switchVars, Frame
  <2> QED BY <2>1, <2>2
<1>7. CASE UNCHANGED vars
  BY <1>7 DEF vars, IInv, TypeOK, RunsCurrent, FramesOwned, LockedSections, TrapStack,
     Pending, switchVars
<1> QED BY <1>1, <1>2, <1>3, <1>4, <1>5, <1>6, <1>7 DEF Next

\* trap.S, context_gcc.S: outside a trap the processor runs rt_current_thread on
\* that thread's stack.
THEOREM RunsCurrentThread == ASSUME MaxSwitch = 1 PROVE Spec => []RunsCurrent
<1>1. IInv => RunsCurrent BY DEF IInv
<1> QED BY InitIInv, NextIInv, <1>1, PTL DEF Spec

\* trap.S:151-167: every thread off the processor is saved in its own frame on
\* its own stack, and its sp points there.
THEOREM FramesSaved == ASSUME MaxSwitch = 1 PROVE Spec => []FramesOwned
<1>1. IInv => FramesOwned BY DEF IInv
<1> QED BY InitIInv, NextIInv, <1>1, PTL DEF Spec

\* context_gcc.S:53-62, trap.S:23-24: the interrupt enable of a thread survives
\* its switch, by whichever path it leaves and comes back.
THEOREM LocksSurviveSwitches == ASSUME MaxSwitch = 1 PROVE Spec => []LockedSections
<1>1. IInv => LockedSections BY DEF IInv
<1> QED BY InitIInv, NextIInv, <1>1, PTL DEF Spec

\* trap.S:106, 172-173, 191: the interrupt stack is free for the next trap.
THEOREM TrapStackFree == ASSUME MaxSwitch = 1 PROVE Spec => []TrapStack
<1>1. IInv => TrapStack BY DEF IInv
<1> QED BY InitIInv, NextIInv, <1>1, PTL DEF Spec
=============================================================================
