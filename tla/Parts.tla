------------------------------- MODULE Parts -------------------------------
(***************************************************************************)
(* The parts of the system that share no state with one another: the       *)
(* semaphore on its wait list, the software timers, the two heaps, the      *)
(* memory functions, the container of objects with the listings of the     *)
(* shell and its command line; the UART and the tick timer with their      *)
(* drivers, and what the core computes, loads and stores; and the loop, the *)
(* UART, the watchpoints and the expressions of NEMU.  As they share        *)
(* nothing, what each does does not depend on the others: every behaviour  *)
(* is one of a single part, chosen in the initial state, while the others   *)
(* stand still.                                                             *)
(***************************************************************************)
EXTENDS RtSem

CONSTANTS
  None,
  Timer, Times, TickMod,                 \* software timers
  HeapSize, PoolSize, Struct, MinSize,   \* heaps
  Cells, Most, From, Long, Filler,       \* memory functions
  Obj, Fetched,                          \* container and listings
  CmdSize, Lines, Typed, Commands,       \* shell
  Byte, Cycle,                           \* UART
  Prescales, Loads,                      \* tick timer
  Width,                                 \* divider
  AluWidth, ShortImm, LongImm, Operands, \* results of EX
  Size, Mtvec, Target, RegisterValues,   \* loop of NEMU
  Keys, Ahead,                           \* its UART
  Places, Expr,                          \* its watchpoints
  Digits, Longest, Deepest               \* its expressions

VARIABLES
  part,
  tick, list, temp, due, time, active, periodic, checking, handler, stopping,
  heap, lfree, usedMem, given, moving,
  items, freeList, available, holds, leaving,
  ram, call, done,
  typed, objects, listed, next, array, shown, throughout,
  stat, line, linePosition, lineCurpos, cmdHistory, historyCount, currentHistory,
  txCnt, txState, txPipe, txStart, rxCnt, rxState, rxPipe,
  sr, txd, rxd, data, op, byte, wire, wireCnt, sent, unread,
  cr, timerSr, psc, load, counter, clkCnt, timeup, step, written, phase,
  count, dividend, divisor, qSign, rSign, rem, remainder, asked,
  tcm, douta, memEx, copied, memory, loaded,
  ex,
  cpuPc, mepc, mie, mpie, mtie, mip, pending, nemuTimer, sinceTick,
  txFlag, rxFlag, nemuRxd, hasData, driver, driverData, keys,
  mode, val, head, free, used, exprs, num,
  tokens

Timers == INSTANCE RtTimers
Heap == INSTANCE RtHeap WITH Size <- HeapSize, Nowhere <- None
MemHeap == INSTANCE RtMemHeap WITH Pool <- PoolSize, MinAlloc <- MinSize, Nowhere <- None
Functions == INSTANCE RtMemory
Listing == INSTANCE RtListing WITH listing <- listed, Recycles <- FALSE
Shell == INSTANCE RtShell WITH Nul <- None, Overlong <- FALSE
Uart == INSTANCE SocUart WITH Bits <- 2, Duplex <- FALSE
TickTimer == INSTANCE SocTimer WITH sr <- timerSr
Divider == INSTANCE PaDivider
Memory == INSTANCE PaMemory WITH ram <- tcm, ex <- memEx, value <- loaded, HighMul <- FALSE
Alu == INSTANCE PaAlu WITH
  Width <- AluWidth, Short <- ShortImm, Long <- LongImm, Far <- FALSE
Exec == INSTANCE NemuExec WITH
  pc <- cpuPc, timer <- nemuTimer, phase <- sinceTick, Untimed <- None
NUart == INSTANCE NemuUart WITH
  rxd <- nemuRxd, op <- driver, data <- driverData, unread <- keys, Prompt <- TRUE
Watch == INSTANCE NemuWatch WITH Values <- {0, 1}
Expression == INSTANCE NemuExpr WITH Earlier <- Digits

ASSUME PartsAssumption ==
  /\ Timers!TimersConstants
  /\ Heap!HeapConstants /\ MemHeap!MemHeapConstants
  /\ Functions!MemoryConstants /\ Listing!ListingConstants /\ Shell!ShellConstants
  /\ Uart!UartConstants /\ TickTimer!TimerConstants
  /\ Divider!DividerConstants /\ Memory!MemoryConstants /\ Alu!AluConstants
  /\ Exec!ExecConstants /\ NUart!UartConstants
  /\ Watch!WatchConstants /\ Expression!ExprConstants

semaphore == vars
timers == <<tick, list, temp, due, time, active, periodic, checking, handler, stopping>>
systemHeap == <<heap, lfree, usedMem, given, moving>>
memoryHeap == <<items, freeList, available, holds, leaving>>
functions == <<ram, call, done>>
listing == <<typed, objects, listed, next, array, shown, throughout>>
shell == <<stat, line, linePosition, lineCurpos, cmdHistory, historyCount, currentHistory>>
uart == <<txCnt, txState, txPipe, txStart, rxCnt, rxState, rxPipe,
          sr, txd, rxd, data, op, byte, wire, wireCnt, sent, unread>>
tickTimer == <<cr, timerSr, psc, load, counter, clkCnt, timeup, step, written, phase>>
divider == <<count, dividend, divisor, qSign, rSign, rem, remainder, asked>>
coreMemory == <<tcm, douta, memEx, copied, memory, loaded>>
exec == <<cpuPc, mepc, mie, mpie, mtie, mip, pending, nemuTimer, sinceTick>>
nemuUart == <<txFlag, rxFlag, nemuRxd, hasData, driver, driverData, keys>>
watch == <<mode, val, head, free, used, exprs, num>>

PartsInit ==
  /\ part \in {"semaphore", "timers", "heap", "memheap", "functions", "listing", "shell",
              "uart", "tick timer", "divider", "memory", "alu",
              "exec", "nemu uart", "watch", "expression"}
  /\ Init /\ Timers!Init /\ Heap!Init /\ MemHeap!Init /\ Functions!Init /\ Listing!Init
  /\ Shell!Init /\ Uart!Init /\ TickTimer!Init /\ Divider!Init /\ Memory!Init /\ Alu!Init
  /\ Exec!Init /\ NUart!Init /\ Watch!Init /\ Expression!Init
  \* A part that stands still needs one initial state.
  /\ part # "timers" => periodic = {} /\ \A t \in Timer : time[t] = CHOOSE n \in Times : TRUE
  /\ part # "watch" => \A e \in Expr : val[e] = 0
  /\ part # "memory" => tcm = Memory!Zero

\* The parts that were not chosen.
OthersStand ==
  /\ part # "semaphore" => UNCHANGED semaphore
  /\ part # "timers" => UNCHANGED timers
  /\ part # "heap" => UNCHANGED systemHeap
  /\ part # "memheap" => UNCHANGED memoryHeap
  /\ part # "functions" => UNCHANGED functions
  /\ part # "listing" => UNCHANGED listing
  /\ part # "shell" => UNCHANGED shell
  /\ part # "uart" => UNCHANGED uart
  /\ part # "tick timer" => UNCHANGED tickTimer
  /\ part # "divider" => UNCHANGED divider
  /\ part # "memory" => UNCHANGED coreMemory
  /\ part # "alu" => UNCHANGED ex
  /\ part # "exec" => UNCHANGED exec
  /\ part # "nemu uart" => UNCHANGED nemuUart
  /\ part # "watch" => UNCHANGED watch
  /\ part # "expression" => UNCHANGED tokens

PartsNext ==
  /\ UNCHANGED part /\ OthersStand
  /\ \/ part = "semaphore" /\ Next
     \/ part = "timers" /\ Timers!Next
     \/ part = "heap" /\ Heap!Next
     \/ part = "memheap" /\ MemHeap!Next
     \/ part = "functions" /\ Functions!Next
     \/ part = "listing" /\ Listing!Next
     \/ part = "shell" /\ Shell!Next
     \/ part = "uart" /\ Uart!Clock
     \/ part = "tick timer" /\ TickTimer!Next
     \/ part = "divider" /\ Divider!Next
     \/ part = "memory" /\ Memory!Clock
     \/ part = "alu" /\ Alu!Next
     \/ part = "exec" /\ Exec!Next
     \/ part = "nemu uart" /\ NUart!Next
     \/ part = "watch" /\ Watch!Next
     \/ part = "expression" /\ Expression!Next

partsVars ==
  <<part, semaphore, timers, systemHeap, memoryHeap, functions, listing, shell,
    uart, tickTimer, divider, coreMemory, ex, exec, nemuUart, watch, tokens>>

\* As in RtSem: the device goes on interrupting, and a detach does not block.
PartsSpec ==
  /\ PartsInit /\ [][PartsNext]_partsVars
  /\ WF_vars(part = "semaphore" /\ ReleaseIsr)
  /\ \A t \in Thread : WF_vars(part = "semaphore" /\ DetachGoesOn(t))

-----------------------------------------------------------------------------
\* No token of the semaphore is lost or made, nobody waits while there is one, and a
\* thread that wakes up does so for one reason.
SemaphoreExact == TypeOK /\ Conservation /\ NobodyWaitsForNothing /\ OneReason

\* The timers do what RtTimerService promises: each expires at its tick, once, or again
\* and again, whatever handlers do to it and to others.
IsTimerService == Timers!IsTimerService

\* The blocks of both heaps tile the memory, nobody has less than asked for, and the
\* totals, the lowest free block and the free list agree with the blocks; and the memory
\* functions write the bytes they were told to, for every alignment and overlap.
HeapsExact == Heap!HeapExact /\ MemHeap!MemHeapExact /\ Functions!MemoryExact

\* The line that is typed, its cursor and the history stay consistent under any keys, and
\* a listing shows the objects that stay while others come and go.
ShellExact == Shell!LineExact /\ Shell!HistoryExact /\ Listing!ListsWhatStays

\* What the driver sends is on the line, and what it reads is what came over the line
\* since it read last, although both directions share the status register; the ticks
\* of the timer come at equal distances; and a load returns what was stored, whatever the
\* sizes and the instruction before, but for the case that PaMemory names.
PeripheralsExact ==
  /\ Uart!ReceivedFlagged /\ Uart!ReadsWhatCame /\ Uart!SentWhole
  /\ TickTimer!TicksOnTime
  /\ Memory!MemoryExact

\* Results, targets and quotients are those of RISC-V whatever the signs, but for the cases
\* that PaDivider and PaAlu name; and the debugger of NEMU evaluates what its test generates
\* as C does.
ArithmeticRight == Divider!DividesRight /\ Alu!ComputesRight /\ Expression!EvaluatesAsC

\* To a program NEMU is the machine that the core is (LooksSequential): an interrupt comes
\* between two instructions, saves the address of the next one and closes interrupts.
NemuIsArch == Exec!IsArch

\* The ticks of NEMU's timer come at equal distances and each key is read once; and a
\* watchpoint is on one list, and a program that goes on has changed nothing watched.
SimulatorExact == Exec!TicksExact /\ NUart!KeysRead /\ Watch!WatchExact
=============================================================================
