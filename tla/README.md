# Formal models of the SoC: kernel, core and simulator

TLA+ models of the real-time kernel in this repository (`src/libs/_kernel`,
RT-Thread Nano 3.1.5, on the RISC-V context switch and trap code of
`libs/_startup` and `libs/_kernel/libcpu`), of the processor it runs on
(`src/rtl`) with its drivers (`src/libs/_sdk`), and of the simulator NEMU
(`src/nemu`) that stands in for the processor; TLC runs over small instances of
them, and TLAPS proofs about the kernel, the context switch, the objects, timers,
heaps and shell, the core, its peripherals and NEMU for every instance. The modules are written from the source; `PROJECT.json` maps each
definition to its lines and lists the hazards and what covers them.

## 1. The system

| Part | State it keeps | Operations | What makes it correct |
|---|---|---|---|
| Scheduler (`scheduler.c`, `irq.c`) | `rt_thread_priority_table`, `rt_thread_ready_priority_group`, `rt_current_thread`, `rt_scheduler_lock_nest`, `rt_interrupt_nest` | insert, remove, `rt_schedule`, enter/exit critical | table = READY threads; bitmap = non-empty lists; the highest ready thread runs |
| Threads (`thread.c`) | `stat`, `current_priority`, `remaining_tick`, `error`, `tlist`, thread timer | startup, yield, sleep, suspend, resume, exit, detach, control, timeout | one list at a time; nothing is lost between the locked sections of a call; closed is final |
| Tick and timers (`clock.c`, `timer.c`) | `rt_tick`, ordered `rt_timer_list`, `timeout_tick`, flags | tick increase, start, stop, control, detach, check | each timer fires on its tick, across the wrap of the tick, whatever handlers do |
| Context switch and trap (`context_gcc.S`, `cpuport.c`, `trap.S`) | registers, frames, `mscratch`, the deferred switch | switch, switch from interrupt, trap entry and return | the processor runs `rt_current_thread`; no frame is lost |
| IPC (`ipc.c`, `mempool.c`) | suspend lists, counters, rings, message lists, owners | take/release, send/receive, alloc/free, reset, detach | nothing lost or made; no lost wake-up; one reason to wake; mutual exclusion and inheritance |
| Objects and shell (`object.c`, `finsh`) | object lists, the line and its history | init/detach, `list_` commands, keys | listings survive changes; the line stays a string |
| Heaps, memory functions (`mem.c`, `memheap.c`, `kservice.c`) | blocks, free list, counters | malloc, free, realloc; memset, memcpy, memmove, strncpy | blocks tile the memory; the bytes asked for and no others |
| Core (`rtl/core`) | pipeline registers, CSRs, trap state machine, divider | one clock cycle | precise traps, no interrupt lost, results of the ISA |
| Peripherals (`rtl/perips`, `rtl/soc`) and drivers (`libs/_sdk`) | timer, UART, memories | register access, one clock cycle | ticks at equal distances, no byte lost, byte lanes |
| NEMU (`nemu/src`) | `cpu`, devices, watchpoints, tokens | instruction, interrupt, device update, debugger commands | looks like the core to a program; pools consistent; expressions as in C |

How they interact. Threads call the kernel; the tick interrupt and device
interrupts preempt them wherever `mstatus.MIE` is set and call the same
functions from the handler. Every kernel call is a sequence of sections between
`rt_hw_interrupt_disable` and `rt_hw_interrupt_enable`; a section is atomic, the
gaps are not. `rt_schedule` switches at once in a thread and leaves a request
behind in an interrupt, which `trap.S` honours on its way out. The IPC objects
use the thread lists and the thread timers, and the timer calls back into the
thread (`rt_thread_timeout`). The configuration (`bsp/rtconfig.h`) has semaphores,
mailboxes and the shell, and leaves out the heap, mutexes, events, message queues,
the device layer and the soft timer thread; the code of those that are modelled
nevertheless is in the repository and compiles when its switch is set. `finsh`
polls the UART through the driver in `libs/_sdk`, which runs unchanged on the RTL
and on NEMU; `make trace_run` and the documents in `diff-tools` compare the two.

The hard parts are the gaps (who runs there, what it finds), the one timer
list under a wrapping tick, the two ways to switch threads with one format of
frame, the trap entry of a pipeline that cannot stop everywhere, and a status
register that hardware and driver both write.

## 2. Modules

| Module | Models | Extends / instantiates |
|---|---|---|
| `RtList` | `rt_list_t` as sequences: unlink, insert at the end, in front of a given node | – |
| `RtKernel` | scheduler, threads, thread timers, tick, and the kernel side of a wait on an IPC object; implements `RtWait` | `RtList`, `RtWait` |
| `RtListProofs`, `RtKernelProofs` | lemmas and theorems about them | `RtList`; `RtKernel` |
| `RtSwitch` | context switch and trap on the machine level, with its proofs | – |
| `RtMachine` | `RtKernel` running on `RtSwitch` | both |
| `RtWait` | abstract suspend lists: what `rt_ipc_list_*` and the timeout promise | `RtList` |
| `RtObject`, `RtRetry` | threads in calls about an object, and its detach; objects whose woken waiters look again | `RtWait` |
| `RtWaitProofs` | what their steps do to the waiters, with the proofs | `RtObject`, `RtListProofs` |
| `RtSem`, `RtEvent`, `RtMutex` | the objects that hand over to the waiter they wake | `RtObject` |
| `RtMailbox`, `RtMessageQueue`, `RtMemPool` | the objects that do not | `RtRetry` |
| `RtChannel` | abstract bounded FIFO channel, which mailbox and message queue implement | – |
| `RtClassProofs` | invariants of mutex, mailbox, message queue, memory pool and event set | `RtMutex`, `RtMailbox`, `RtMessageQueue`, `RtMemPool`, `RtEvent`, `RtWaitProofs` |
| `RtObjects` | one object of any of these classes, all classes in one run | the six above but `RtSem`, `RtChannel` |
| `RtObjectsProofs` | theorems about `RtObjects` and the refinement of `RtChannel` | `RtObjects`, `RtClassProofs` |
| `RtTimers` | the software timers with handlers; implements `RtTimerService` | `RtList` |
| `RtTimerService` | abstract: a timer is off or has some ticks left | – |
| `RtBlocks`, `RtHeap`, `RtMemHeap` | the two heaps | – |
| `RtMemory` | the memory functions | – |
| `RtListing` | one class of the object container and a command that lists it | `RtList` |
| `RtShell` | the command line | – |
| `PaCore` | the control of `rtl/core`, cycle by cycle; implements `PaArch` | `PaArch` |
| `PaCoreProofs` | theorems about it, the refinement among them | `PaCore` |
| `PaArch` | abstract: the sequential machine a program may assume | – |
| `PaAlu`, `PaDivider`, `PaMemory` | what EX computes; the divider; loads and stores with the byte lanes | – |
| `SocUart`, `SocTimer` | a peripheral of `rtl/perips` clock by clock with its driver | – |
| `NemuExec` | the execution loop of NEMU with timer and interrupt; implements `PaArch` | `PaArch` |
| `NemuUart` | its UART under the driver | – |
| `NemuWatch`, `NemuExpr` | watchpoints and expressions of its debugger | `RtList` / – |
| `Parts` | the parts that share no state with each other, all in one run | `RtSem` and fifteen of the above |
| `PartsProofs` | theorems about all of them but the divider, the ALU and the expressions | `Parts`, `RtWaitProofs` |
| `MC…` | constants for TLC | |

**RtKernel.** A thread is a value; `stat`, `prio`, `slice`, `err` and `due` are
its fields; lists are sequences without duplicates. An action is one locked
section, or the unlocked stretch between two of them, of a kernel call; `pc`
and `arg` say which call a thread is in and about whom. `cur` is both
`rt_current_thread` and the thread on the processor. The tick interrupt is
taken wherever the running thread has interrupts enabled: `TickIncrease`
(counter, time slice, yield), then one `ThreadTimeout` per timer that is due,
then `TickReturn`. `rt_schedule` in a call of a thread is an action of its own
(`Schedule`), because interrupts are enabled before it; in an interrupt it is
part of the handler's action.

Application discipline assumed, and named in the guards: a thread handles
*another* thread (`rt_thread_resume`, `_suspend`, `_detach`, `_control`) only
with the scheduler locked (`Exclusive`); it does not block with the scheduler
locked; `rt_thread_startup` is called once per thread. The kernel itself does
not enforce these. `DetachUnarmed` restricts `rt_thread_detach` to threads
whose timer is off; `kernel_detach_race` lifts the restriction.

**RtSwitch and RtMachine.** Registers are reduced to their owner; a frame has its
owner, the stack it lies on and the MPIE bit of its mstatus image. A frame that has
been restored is dead, and restoring it again may give anything. `MaxSwitch`
bounds the switches one interrupt asks for. In `RtMachine` a kernel section and
its machine steps go together; `decides` says whether the kernel picks the next
thread or the machine runs alone and any thread may be picked, which is the more
general behaviour and the one the proofs are about.

**RtWait and the objects on it.** In `RtWait` any thread may run at any time,
so what the objects show does not depend on priorities or the tick.
`RtKernel!WaitsAsPromised` states that the kernel keeps the promise: a waiter
leaves its list by one of wake, reset and timeout, its timer with it. `RtObject`
adds `pc` and `on` (the call a thread is in, the list it is about) and the detach,
which wakes the waiters one by one with interrupts enabled between test and lock
(`DetachTest`, `DetachResume`). `RtRetry` is the loop of the objects that hand
nothing over. `Detaches`, `DetachUnarmed`, `Timed` and `Limits` pick the calls
that an application makes; `DetachUnarmed` excludes finding 3. In
`RtMessageQueue` an element is taken off its list in one section, copied with
interrupts enabled and linked in another; a thread may be overtaken in between.

**RtMutex.** `value`, `owner`, `hold` and `original` are the fields of the
mutex; `prio` is the current priority of a thread. With `Nesting` a thread may hold
two mutexes at once. `mixed` records who has done so: `PriorityInherited` promises
nothing about the priority of such a thread, because one saved priority per mutex
cannot restore it whatever the order of the releases (section 4); exclusion and
nesting are checked for them too.

**RtTimers.** A step is a section of a call between ticks or in a handler.
`rt_timer_check` puts the timer it is about to serve on a list of its own (`temp`)
and looks whether it is still there when the handler returns; this is what
`HandlerReturns` translates, and what makes stopping, restarting and detaching in
a handler work. `stopping` is the gap of `rt_timer_stop`, which tests the flag
before it disables interrupts. `due` is the tick at which a timer expires; the
mapping to `RtTimerService` takes the distance to it.

**Heaps.** Both heaps are blocks by their addresses, with headers that point to the
next and the previous one (`RtBlocks`). `given` and `holds` are history: what the
callers have, and how much they asked for. `used_mem` and `available_size` are
compared with the number of units that the used, or free, blocks cover.
`heap_sem` and `heap->lock` make a call atomic, but for a `realloc` that moves a
block: that is a malloc, a copy and a free, with other calls in between
(`ReallocMove`, `ReallocFree`).

**RtMemory.** A step is a turn of a loop, so a loop that runs once too often is a
step too many. The bytes of the memory all differ. The bounds (`Long` = 2 for 4)
keep all cases of the alignment: both addresses aligned or one of them or none, calls
shorter and longer than four words, with and without a rest.

**RtListing.** `rt_object_init` sets the type before, and `rt_object_detach`
clears it before, the locked section that changes the list. A command holds the
node it fetched last across fetches. `Recycles = FALSE` keeps an object that was
detached while the command held its node from coming back before the command looks:
the code only looks at the type, so it would go on from the head of the list and
show objects twice, or from a node that is linked to itself for ever.

**PaCore.** A step is one clock edge. The operators of the first two parts are
the wires; `PcGen`, `Fetch`, `Stages`, `Divider`, `Clint` and `CsrFile` are the
registers of one RTL module each, and `Edge` is all of them at once. An
instruction is its kind and its address; what it computes is left to chance
(where a jump leads, what a CSR instruction writes), and every time a word is
fetched it may be any kind of `Code[a]`, so five words stand for every program
of that layout. mcause is left out, because nothing depends on it, and `mtvec`
is a constant, set once by `init()`. `npc`, `loadDue`, `divDue` and `armed` are
history: the next instruction of the program, results it waits for and whether
MIE was set since the last trap. No transition looks at them.

`PaArch` knows an interrupt and an mret as one step each. The core needs several
cycles; the mapping takes the first one (`Entered`, MRET) as the step. It leaves
open what MPIE is after an mret, because the core copies and NEMU sets it.

`Code` excludes what breaks the core and says so: a division where a jump leads
(finding 4), a load or a division directly behind mret (`trap.S` puts nops behind
its last mret; the first one, at line 192, has `lw x1` behind it when
`OS_ENABLE_RT_THREAD` is off). The exception arms of `TrapCapture` and
`TrapReady` are translated but never taken: in the core an ecall or ebreak
counts as an instruction that writes a register, so `Busy` holds whenever one is
in EX, and it runs on as a nop. `tb/pa_core_clint_tb.v` drives the controller
without the core and sees the trap.

**PaAlu, PaDivider, PaMemory.** What PaCore leaves out: the results. The circuits
are written with the bits they have (an additional bit for comparisons, a product
from two halves, sign extension from a named bit) and compared with RISC-V
in numbers. `PaMemory` is clocked, because a load returns a clock after its address
and shares wires with the instruction behind it. `Far` and `HighMul` let in the two
cases in which core and ISA differ (section 4).

**SocUart, SocTimer.** The peripheral clock by clock, and the driver access by
access, in the order of the volatile accesses in the C source. The device at the
other end of the line is the only external code modelled (`FarWaits`, `FarStarts`,
`FarSends`). `Duplex = FALSE` lets it send only when the core does not: section 4
says what happens otherwise. `Cycle` clocks per bit instead of hundreds still
order all events of the two directions.

**NemuExec, NemuUart.** A step of `NemuExec` is a turn of `execute`: an instruction
or an interrupt in its place, then `device_update`, which the time of the host may
skip (`comes`). `phase` is history: updates since the last tick. A step of
`NemuUart` is an access of the driver or an update. With `Prompt = TRUE` no key
comes between the load of the byte and the store that clears the flag (section 4).

**NemuExpr.** An expression is typed token by token, and evaluated whenever it is
complete, with `find_main_operator` and `eval` as written; the reference `InC` is C.
`Generated` restricts expressions to what `tools/gen-expr` generates, which is
what the test in `sdb.c:194-222` evaluates, and to the signs and operators that a
C compiler reads the same way.

**RtObjects and Parts** compose by choice: an object of one class, or one part, is
chosen in the initial state and stays. This is no abstraction, because nothing
is shared: any behaviour of several parts is an interleaving of behaviours of
each, and every property is about one. `OthersStand` keeps the variables of the
others. Each of the composed invariants is a conjunction; every one of its parts was
broken by a mutant of its own while the models were built, and `PROJECT.json` lists one
of them.

## 3. Runs

| Run | Bounds | Shows |
|---|---|---|
| `kernel_calls` | idle, main and a thread that others handle, priorities 0..2, suspend, resume, detach, changes of priority to 0 or 1, sleeps of 1, ticks modulo 6, lock nesting 1 | type, ready table and bitmap exact, highest thread runs, windows of the calls, no timer dropped, closed threads off all lists for good |
| `kernel_ipc` | idle, main and two threads (two share a priority, one preempts), one FIFO and one PRIO object, waits for ever and of 2 ticks | waiters suspended, PRIO order, time limits on their tick, refinement of `RtWait` |
| `kernel_live` | three threads, sleeps of 2 | round robin, sleepers wake |
| `kernel_detach_race` | as `kernel_calls`, detach of a sleeping thread | **violation** of `ClosedOffQueues` |
| `machine_ipc` | `RtSwitch` under `RtKernel` and alone, four threads, interrupts that ask for one switch | the processor runs `rt_current_thread`; frames, stacks, interrupt state and interrupt stack survive |
| `machine_double` | the same with sleeping threads | **violation** of `FramesOwned` |
| `sem_detach_race` | a semaphore, detach while threads wait with a limit | **violation** of `ResumesThreads` |
| `objects` | three threads of three priorities (two where order matters), an interrupt, two mails or messages, two places, elements, blocks, bits and mutexes, waits with and without limit, reset, detach | no lost wake-up, nobody waits for what is there, every element in one place, detach wakes everybody, exclusion and inheritance, each bit once, mailbox and queue are bounded channels |
| `parts` | below | the parts |
| `core_control` | five words of program, a jump leads to word 1 or 3, traps to 3; every kind of instruction behind every other one that the code discipline allows; divisions of 4 steps | what a program sees is `PaArch`; no result lost or stray, un-nested traps, no hang, latched interrupts taken |
| `core_squash` | the same with a division where jumps lead | **violation** of `NoStrayWrite` |
| `divider` | words of four bits, every pair of operands | **violation** of `DividesAsNemu` |

The parts of `parts`, with their bounds: semaphore (three threads of two priorities,
FIFO, values 0..2, resets to 0 and 2, detach while nobody waits with a limit);
software timers (two, of 1 or 2 ticks, modulo 8); heaps (memories of 10 and 12 cells
with headers of 1 and blocks of at least 2); memory functions (26 bytes, calls of up to
11, words of 2); listing (three objects, two fetched at a time); shell (lines of 3,
two history lines, two commands that begin alike); UART (frames of 2 bits, 3
clocks each); tick timer (prescales 0..2, loads 2 and 3); divider (every pair of
three-bit words); core memory (a word of four one-bit bytes, every store, load and
size); ALU (words of 8 bits with 15 operands, immediates of 4 and 6 bits, every one
of them); NEMU loop (three words of program, registers 0 and 1); NEMU UART (two keys);
watchpoints (three places, two expressions); expressions (seven tokens, two numbers).

Why the bounds are enough for the questions asked: preemption needs a higher,
time slicing an equal and starvation a lower priority, which are the three
priorities; a second thread on a list is what makes order matter, and a third one
is what overtakes them; ticks modulo 6 or 8 with timeouts of at most 2 let the
tick wrap with timers on both sides of the wrap; a ring of two places wraps and
can be partly full; two messages show order, two mutexes a chain; heaps of 10 cells
hold three blocks, so that a freed one has neighbours of every kind. For the core,
the longest chain of cycles that influence each other is a trap entry behind a
jump behind a multi-cycle instruction; five words hold such a chain with both its
neighbours, and a division of four steps outlasts the three cycles of the entry. A
sixth word and a fifth step (1.15 million states) gave the same answers for the
invariants. Circuits are regular in their width, and operands include the ends
of the words, of their halves and of the immediates.

`objects` uses a VIEW, which hides the error of a thread that is in no call: nobody
reads it, and the next call that waits resets it. The deadlock check is off where
the threads of the model may all stop for good: after a detach, and where all
of them wait for ever.

**Fairness.** `kernel_live` assumes that the tick timer keeps interrupting and
its handler returns (weak fairness of the three steps of the interrupt), that a
running thread's kernel call goes on (strong fairness, because interrupts come
in between), and that application code leaves its critical sections. Nothing is
assumed about which thread runs: that is what is shown. `parts` assumes, for
`Served`, that the device goes on releasing the semaphore and that a thread in
`rt_sem_detach`, which does not block, goes on; a detach ends the promise.
`core_control` assumes that the clock does not stop; `InterruptTaken` is for
programs that go on jumping, because the controller waits for a jump to have a
return address. The other properties need no fairness.

## 4. Findings, and where code and promise part without a run

1. `rt_thread_detach` (`thread.c:323-332`) can be overtaken by the timer of the
   thread it detaches (`kernel_detach_race`).
2. Two wake-ups of rising priority in one interrupt: `cpuport.c:113` overwrites
   `rt_interrupt_from_thread` while a switch is pending (`machine_double`). Two
   sleepers on one tick suffice. The original port sets it only when the flag
   is clear.
3. `rt_ipc_list_resume_all` (`ipc.c:169`) tests its list outside the lock
   (`sem_detach_race`). The reset commands are not affected: they call it with
   interrupts disabled.
4. A division that an interrupt squashes at the target of a jump is not squashed:
   `div_start` (`pa_core_exu_div.v:45`) does not look at the hold of the trap
   entry, and the result is written in the handler, over a register the handler
   may already have saved or loaded (`core_squash`).
5. The divider drops the sign of a partial remainder (`pa_core_exu_div.v:139`): a
   `divu` or `remu` by more than 2^31 goes wrong (`divider`).

The models name these cases, and a constant or a guard keeps them out; setting
the constant makes TLC show them. In the kernel:

- `rt_sem_take` that has to wait while the scheduler is locked returns `RT_EOK`
  without a token (`ipc.c:399`): threads do not block there in the models.
- Changing the priority of a waiting thread does not move it in a PRIO list
  (`thread.c:663`): `WaitOrder` is checked while nobody changes priorities.
- Releasing two mutexes in another order than the reverse one leaves the owner
  with a priority that no waiter and not its own code gave it (`ipc.c:849-869`).
- A one-shot set in the timer's own handler leaves it ACTIVATED but unlinked
  (`timer.c:487`, 569); the soft timer thread reads the next timeout with interrupts
  enabled (`timer.c:676`).
- Two concurrent `rt_thread_detach` of one thread may both pass the test for CLOSE.
- `mem.c:305-306` never finds a last block that fits exactly.
- A line that fills the buffer (`shell.c:761-766`) resets the position and not the
  line; `strlen` may run past it (`Overlong = TRUE`). `show_wait_queue`
  (`cmd.c:278-291`) walks a suspend list unlocked; the listings with a recycled
  node are in section 2 (`Recycles = TRUE`).
- `rt_kprintf` formats into one static buffer for all threads; `rt_strnlen` reads
  `s[maxlen]`, and `rt_strncmp` keeps the difference of two characters in a signed
  char.

In the core and its peripherals:

- ecall and ebreak never trap (`pa_core_top.v:251`), see section 2.
- A store right behind `mulhu` or `mulhsu` has the size of both
  (`pa_core_top.v:339`: the size is joined with that of the instruction before): a
  word store writes zero to its first byte, or a half (`HighMul = TRUE`).
- The target of a jal takes its sign from bit 11 of the offset and not bit 19
  (`pa_core_exu.v:273`), so jumps are only right within 4 KB or where the two agree
  (`Far = TRUE`).
- Dividing a negative number by zero gives 1 instead of -1.
- Transmitter and receiver share the status register and the wires of the bus
  (`pa_perips_uart.v:239`, `pa_chip_top.v:206-262`); a frame that comes while the
  core sends may lose its flag (`Duplex = TRUE`).
- The period of the tick is `load * (psc_arg + 2)` clocks and not what
  `main.c:22` and `timer.v:45` expect; a write to a register in the clock of a tick
  loses the tick (`pa_perips_timer.v:125-140`); the first one comes at once.

In NEMU:

- `mret` sets MIE whatever MPIE is (`inst.c:176`), ecall sets mstatus to 0x1800;
  `NemuExec` has mret of programs that had interrupts enabled. An interrupt that
  comes while MIE is clear stays pending, while the core forgets it: `PaArch`
  allows both. The period of its timer is `(load + 1) * (psc + 1)`, not that of
  the RTL.
- A key between the load of the byte and the store that clears the flag has data
  without a flag, and the receiver is dead (`hwdev_uart.c:86`, `Prompt = FALSE`).
- `divu` by zero returns its first operand, and the special case of `remu` is
  never reached; `jalr` does not clear bit 0 of its target.
- The text of a token is copied without a NUL (`expr.c:127`): `p 123` and then
  `p 4` gives 423. The test does not see it, because its numbers have two digits
  (`Earlier` with longer numbers). Comparisons bind tightest and `&&` tighter than
  `+`; a chain of `*` and `/` is evaluated from the right; `--a` is -1-a and
  `(-a)` aborts.
- A watchpoint is not compared after an interrupt, only the first one that changed
  is reported, and `new_wp` tests the pointer instead of the list
  (`watchpoint.c:58`).

## 5. Proofs

TLAPS checks these for every value of the constants that the modules' assumptions
allow; `PROJECT.json` lists the theorems.

**Kernel** (`RtListProofs`, `RtKernelProofs`). For every number of threads,
priorities and IPC objects, under `DetachUnarmed` (finding 1 refutes
`ClosedOffQueues` without it): `TypeCorrect`, `ReadyTableExact`,
`BitmapMatchesTable`, `HighestRuns`, `TimeoutAssertion`, `ClosedOff` and
`ClosedForGood`. None is inductive alone. The inductive invariant `IInv` is their
conjunction with `CallsInProgress` (what each call has left undone between its
sections: without it an insert could duplicate a thread), `IdleReady` (there is
always a thread to pick: without it `Choice` means nothing) and `RunnerStarted`.
One lemma per action; the list facts they need (`Unlink` removes one element
and keeps the order of the others, and so on) are proved in `RtListProofs` from
the definitions of the sequence operators.

On top of `IInv`: `TimersKept` and `TimersOnTime`, for every wrap of the tick. The
second one needs that a timer on the list is at most the longest time-out ahead,
in the circle of the tick; that is why `TickAssumption` bounds the time-outs by less
than half of the circle, as `RT_TICK_MAX / 2` does in `timer.c`.
`WaitersInOrder` is for constants under which nobody changes a priority (`NewPrios = {}`), because
section 4 says what happens otherwise. `KernelKeepsPromise` is the refinement of
`RtWait`: every step of the kernel is a call, a wake-up, a time-out or nothing there.
It assumes that threads are suspended by waiting only (`OnlyIpcCalls`), as
`kernel_ipc` does.

**Machine** (`RtSwitch`). `RunsCurrentThread`, `FramesSaved`,
`LocksSurviveSwitches` and `TrapStackFree` for every set of threads, under
`MaxSwitch = 1`: finding 2 is what happens beyond. The invariant adds what a
pending switch refers to (`Pending`): `from` is the interrupted thread and `to`
is the new `rt_current_thread`. The type invariant of `RtSwitch` is part of the
proof and of no run.

**Wait lists and semaphore** (`RtWaitProofs`, `PartsProofs`). `WaitListsExact`:
a waiter is on one list, once, and its timer runs only there. Every step of an
object is one of few effects on the waiters (`Leave`, `Park`), and the lemmas about
these are what the proofs of the objects use. `TokensConserved` adds where a thread
in `rt_sem_take` stands (`Takers`); `SemaphoreIsExact` carries it over to the run.

**The other classes of objects** (`RtClassProofs`, `RtObjectsProofs`). Each class has
an inductive invariant of its own in `RtClassProofs`, and `ObjectsInvariant` carries
all of them over to the eight instances in `RtObjects`. For every number of threads,
priorities, messages, places, blocks and bits, under the detaches and time limits of
`RtObjects`:
- `MutexExcludes` (`MutualExclusion`): `OneInside` holds with what each owner still
  holds (`Counts`), where the threads in a take stand (`Takers`) and that the waiters
  wait for an owned mutex (`LockInv`); a hand-over keeps it because the woken thread
  owns the mutex before it runs. `MutexInherits` (`PriorityInheritance`): with threads
  in one mutex at a time (`Single`: those that are `mixed` are promised nothing) and
  waiters in the order of their levels (`InOrder`), what the first waiter has is the
  most that the owner needs.
- `WakeupsNotLost` and `PiecesInPlace` for mailbox (`MailInv`), queue (`QueueInv`) and
  pool (`PoolInv`). The threads that are awake in the middle of a call are counted
  against the mails, places, elements and blocks: a wake-up is not lost because a
  woken thread that goes back to wait can only do so when another has taken what it
  was woken for, and that one wakes the next. The data half says where each element or
  block is: linked, free, or with the one thread that copies it.
- `NobodyForgotten` and `EachBitOnce` for the event set (`EventInv`). The scan of
  `rt_event_send` is a recursive function of the place in the list; what it leaves and
  whom it wakes is proved along the list, by the least place where it would be wrong.
- `DetachComplete`: the loop of a detach is the only one that may still find waiters
  on an object that is gone, and it goes on until it finds none.
- `ChannelKept`: each step of a mailbox or a queue is a step of `RtChannel` or none.
  The mails are what the offsets and the count show (`Mailbox!Mails`), the elements
  linked in the queue (`Queue!Mails`).

**Core** (`PaCoreProofs`). `PipelineIsExact`, `TrapsDoNotNest`, `CoreIsSequential`
(the refinement of `PaArch`) and `ResultsWritten`, for every program, every
length of a division and every place of the trap handler. `IInv` says where in the pipeline the next
instruction of the program is, by cases: after reset, behind a jump, streaming, or at
rest behind a hold (`Flow`), on the way into a trap (`Waiting`, `Trapping`) and out
of one (`Jumping`). `WInv` adds which results are under way (`Loading`,
`Dividing`) and that nothing that was squashed writes (`Squashed`). Two hypotheses are
on the program. `ResetWord`: the word at the reset address is executed twice, because
the fetch of it is repeated in the first clock; it is an `la` in `start.S`, which may be.
`Discipline`, for the writes only: no division where a jump leads
(finding 4), no load or division right behind an mret.

**NEMU** (`PartsProofs`). `NemuImplementsArch`: a turn of `execute` is a step of
`PaArch` or none. `SimulatorIsExact`: the timer (`CountInv`: the updates since the
last tick and those that the counters still ask for are one period together, which
is what keeps the distance when the host skips updates), the UART (`KeyInv`: a key
that has come is in the register or with the driver, never both), and the watchpoints
(`WatchInv`: the two lists share no place and together have all of them).

**Peripherals and loads** (`PartsProofs`). `PeripheralsAreExact`, for frames of two
bits with any number of clocks each, under `Duplex = FALSE` (section 4), any period
and prescaler. `Receives` and `Transmits` say, for each state of the two circuits,
how far the line and the counter are apart (`Sampling`, `Shifted`): the receiver
samples each bit while it lasts because its counter starts at half of a bit, and the flag
in the shared status register is set when the last one is in. `TimerInv` is an
equation between the clocks since the last tick and what is left in the counter and
the prescaler (`Phased`), with a case for the clock in which the counter is loaded.
`MemInv` is about the load that is one clock behind the wires (`copied`).

**Software timers** (`PartsProofs`). `TimersKeepPromise` is the refinement of
`RtTimerService`, for any timers, periods and width of the tick. The list is in the
order of the ticks that are left (`InTime`), which all lie within half of the
circle; the timer whose handler runs is on `temp` until a handler deals with it, and
then an active one is periodic (`Handling`): this is why `rt_timer_check` may start
it again, and must not when it is gone from there.

**Heaps and memory functions** (`PartsProofs`). `HeapsAreExact`, for every size of the
memory, of the headers and of the smallest block. Both heaps are `Laid` (the blocks lie
end to end and know the one before) and `Merged` (no two free ones meet), `lfree` is the
lowest free block (`LowOf`) and the free list has each free block once (`Listed`). To
split a block, to join it with the next one and to mark it are three lemmas for both
heaps; what they do to a counter is the size of one interval of units (`More`), and
the counter is a cardinality because a sum over the blocks would be a recursive
definition. `rt_realloc` that moves needs no case of its own: between its steps the
old block is one that a caller has. `BytesInv` says of a memory function that each byte
is either dealt with and right or as it was before; where source and destination of
`rt_memmove` overlap, what is still to be read is among the latter.

**Shell** (`PartsProofs`). `ShellIsExact`, for any keys, commands, sizes of the line and
of the history, objects and nodes fetched at once. `IsLine` is a string with NULs
behind it, which every key leaves (`LineInv`, `HistoryInv`). For the listing, an object
that stays is among the shown, the fetched or those still to fetch, and these follow
each other in the order of the list (`StayInv`): what comes joins at the head, what
goes is not among those that stay, and neither changes the order of the others.

Only model-checked: liveness (`RoundRobin`, `SleeperWakes`, `Served`, `Progress`,
`InterruptTaken`), which is out of the prover's reach; and `ArithmeticRight` with the
run `divider`, where circuits are compared with powers of two, quotients and
products, for which the provers have no arithmetic, and where an evaluator of
expressions is followed through its recursion. Liveness apart, every property
of a passing run but this one is stated by a theorem. The proofs about instances
inherit their constants: the UART with two bits in a frame, one direction at a
time (`Parts`), objects without the detach that finding 3 is about, switches one at a
time.

## 6. Not modelled, and the plan

Left out of the models that exist: hooks, debug output and assertions (switched
off in the build), stack overflow checks, `rt_thread_delay_until`, the heap
forms of the constructors, thread cleanup functions, the exception half of
`trap.S`, bitwise operations and misaligned accesses of the core, CSR writes to
`mip` and `mtvec` in NEMU, registers and dereferences in the expressions of its
debugger.

Left out altogether: `slab.c` (its zones and chunks are picked by a page table as
large as the memory), `device.c` and the soft timer thread (switched off), the
cleaning of defunct threads (needs the heap), formatted output, graphics, audio
and disk of NEMU, the function trace, and its other instruction sets. Most lines
of the repository are not its own logic: the configuration tool of the kernel
build (`nemu/tools/kconfig`), the vendored utilities, copies of the RTL and of
the kernel (`diff-tools`, `sim`), test benches and example programs. The maps
cover the kernel's IPC, timers, threads, scheduler and heaps, the core and the
devices; covering a much larger share of all lines would mean to model that code,
in which nothing concurrent or stateful happens.

Plan, in order:

1. Proofs: the divider for every width, from a lemma on shifts and quotients; frames
   of more than two bits.
2. The soft timer thread beside the tick, with its window.
3. ecall against its test bench, once the core takes it.
