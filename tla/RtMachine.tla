----------------------------- MODULE RtMachine -----------------------------
(***************************************************************************)
(* The kernel of RtKernel on the machine of RtSwitch: every rt_schedule of *)
(* the kernel that changes rt_current_thread makes the machine switch, at  *)
(* once in a thread and on the return of the trap in an interrupt.  Here   *)
(* the thread that gets on is the one whose registers the processor holds, *)
(* and the question is whether that is rt_current_thread.                  *)
(*                                                                         *)
(* The machine is also looked at alone, with any thread getting on at any  *)
(* rt_schedule: in a behaviour, the kernel decides or nobody does.         *)
(***************************************************************************)
EXTENDS RtSwitch

CONSTANTS
  Deciding,  \* the behaviours looked at: TRUE, the kernel decides
  Idle, NumPrio, InitPrio, InitTick, TickMod, MaxNest, Ipc, PrioIpc, SleepTicks,
  WaitTicks, NewPrios, Movable, Detachable, DetachUnarmed  \* those of RtKernel

VARIABLES
  decides,  \* the kernel decides which thread gets on
  served,   \* the handler of the trap has been through
  ready, group, stat, prio, lock, tick, slice, tmrs, due, waitq, err, pc, arg, isr

K == INSTANCE RtKernel WITH cur <- curt

\* The kernel but for rt_current_thread.
kernelVars ==
  <<ready, group, stat, prio, lock, tick, slice, tmrs, due, waitq, err, pc, arg, isr>>
machineVars == <<cpu, stack, mscratch, mie, locked, nest, frame, sp, switchVars, asked>>

MachineInit ==
  /\ Init /\ K!Init
  /\ decides \in Deciding
  /\ served = FALSE

\* rt_schedule of a kernel step leaves the thread or stays with it.
FollowKernel == IF curt' = curt THEN UNCHANGED machineVars ELSE Switch(curt')

\* A locked section of the running thread.
ThreadSection == \E t \in Thread :
  /\ frame = NoFrame /\ ~mie /\ cpu = t
  /\ K!Continue(t) \/ K!Begin(t)
  /\ FollowKernel
  /\ UNCHANGED served

\* The thread opens or leaves a locked section.
ThreadMask ==
  /\ InterruptDisable \/ InterruptEnable
  /\ UNCHANGED <<kernelVars, served>>

TakeTrap ==
  /\ TrapEntry
  /\ served' = FALSE
  /\ UNCHANGED kernelVars

\* trap_handler: the tick (sim/rtthread-nano/interrupt.c, main.c), or a device
\* that wakes a waiting thread (finsh_rx_ind).
Handler ==
  /\ frame # NoFrame
  /\ \/ ~served /\ K!TickIncrease
     \/ ~served /\ \E o \in Ipc : K!IpcResumeIsr(o)
     \/ K!ThreadTimeout
     \/ K!TickReturn
  /\ served' = TRUE
  /\ FollowKernel

LeaveTrap ==
  /\ served /\ isr = "none"
  /\ TrapReturn \/ TrapReturnSwitched
  /\ UNCHANGED <<kernelVars, served>>

MachineNext ==
  /\ UNCHANGED decides
  /\ \/ decides /\ (ThreadSection \/ ThreadMask \/ TakeTrap \/ Handler \/ LeaveTrap)
     \/ ~decides /\ Next /\ UNCHANGED <<kernelVars, served>>

MachineSpec ==
  MachineInit /\ [][MachineNext]_<<vars, decides, served, kernelVars>>
-----------------------------------------------------------------------------
\* The priorities and time slices of the runs: the idle thread is below all others,
\* one thread above them, and main has twice the time slice.
Above == CHOOSE t \in Thread \ {Idle, Main} : TRUE
RunPrio == [t \in Thread |-> IF t = Idle THEN 2 ELSE IF t = Above THEN 0 ELSE 1]
RunTick == [t \in Thread |-> IF t = Main THEN 2 ELSE 1]
=============================================================================
