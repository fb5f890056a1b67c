------------------------------- MODULE PaCore -------------------------------
(***************************************************************************)
(* The control of the RV32IM core (rtl/core): fetch, decode and execute    *)
(* stages, holds, jumps, the interrupt controller and the write port of    *)
(* the register file.  A step is one clock edge; each conjunct of Edge is  *)
(* the register update of one RTL module, and the operators before it are  *)
(* the wires.  Data are left out: a word is its kind and its address.      *)
(***************************************************************************)
EXTENDS Naturals

CONSTANTS
  Size,      \* words of memory; the program counter wraps there
  Mtvec,     \* the trap vector, set once by init()
  Code,      \* the kinds of instruction each word may hold
  Target,    \* where jumps and branches may lead
  DivSteps   \* cycles of a long division, 32 in the code

Addr == 0 .. Size - 1

\* "bubble" is the zero word a flush leaves; "status" and "epc" are CSR
\* instructions on mstatus and mepc, "ecall" is also ebreak, "alu" is every
\* other instruction that ends in EX and writes a register.
Kind == {"alu", "branch", "jump", "load", "store", "div", "status", "epc", "ecall", "mret"}

\* Decoded as instructions with a destination register, be it x0.
HasDest == {"alu", "jump", "load", "div", "status", "epc", "ecall", "mret"}

ASSUME SizeAssumption == Size \in Nat /\ Size > 2
ASSUME AddrAssumption == Mtvec \in Addr /\ Target \subseteq Addr /\ Target # {}
ASSUME CodeAssumption == Code \in [Addr -> SUBSET Kind] /\ \A a \in Addr : Code[a] # {}
ASSUME DivAssumption == DivSteps \in Nat /\ DivSteps > 0

VARIABLES
  pc,         \* _pc, the address on the instruction bus
  word,       \* the word the memory returns, read one cycle earlier
  kept,       \* inst_data_1r: the word in ID while the pipeline is held
  ex,         \* the exu_* registers: the instruction in EX
  hold1, jump1, intHold1, wb1, load1,   \* the signals of the cycle before
  divCnt,     \* div_cnt, idle above DivSteps
  irq,        \* irq_1r, the last two samples of irq_i
  irqVldT, irqPending, captured, csrState, breakAddr, intJump, intAddr,
  mie, mpie, mepc,
  npc,        \* history: the address of the next instruction of the program
  loadDue,    \* history: a load of the program was executed the cycle before
  divDue,     \* history: a division of the program is under way
  armed       \* history: MIE has been set since the last trap

pipe == <<pc, word, kept, ex, hold1, jump1, intHold1, wb1, load1, divCnt>>
clint == <<irq, irqVldT, irqPending, captured, csrState, breakAddr, intJump, intAddr>>
csr == <<mie, mpie, mepc>>
history == <<npc, loadDue, divDue, armed>>
vars == <<pipe, clint, csr, history>>

Bubble == [kind |-> "bubble", at |-> 0]
Slot == {Bubble} \cup [kind : Kind, at : Addr]

Next1(a) == (a + 1) % Size

-----------------------------------------------------------------------------
(* Wires of the execute stage. *)

DivRunning == divCnt < DivSteps

DivDone == divCnt = DivSteps

MemEn == ex.kind \in {"load", "store"}

\* Mutant: memory instructions do not hold the pipeline.
ExuHoldDivOnly == ex.kind = "div" \/ DivRunning

ExuHold == MemEn \/ ex.kind = "div" \/ DivRunning

\* reg_waddr_vld_o
WritesBack == \/ DivDone
              \/ ex.kind \in HasDest \ {"div"} /\ ~DivRunning

IntHold == csrState \notin {"IDLE", "WAIT"}

Hold == ExuHold \/ IntHold

-----------------------------------------------------------------------------
(* Wires of the interrupt controller. *)

IrqVld == irqVldT \/ (irq[1] /\ ~irq[2])

\* Mutant: an edge counts whether interrupts are enabled or not.
RequestUnmasked == CASE ex.kind = "mret"  -> "MRET"
                     [] ex.kind = "ecall" -> "EXCEPTION"
                     [] OTHER -> IF irqPending \/ IrqVld THEN "INTERRUPT" ELSE "NONE"

\* int_state and int_type
Request == CASE ex.kind = "mret"  -> "MRET"
             [] ex.kind = "ecall" -> "EXCEPTION"
             [] OTHER -> IF irqPending \/ (mie /\ IrqVld) THEN "INTERRUPT" ELSE "NONE"

\* hold_flag_i of the controller: EX or the register file is not at rest.
Busy == ExuHold \/ WritesBack \/ wb1 \/ MemEn

\* Mutant: an interrupt that has waited is not captured.
TrapCaptureAtOnce(jump) ==
  ~captured /\ Request = "INTERRUPT" /\ csrState = "IDLE" /\ jump

TrapCapture(jump) ==
  /\ ~captured
  /\ \/ Request = "EXCEPTION" /\ csrState = "IDLE" /\ ~jump /\ ~Busy
     \/ Request = "INTERRUPT" /\ csrState \in {"IDLE", "WAIT"} /\ jump

TrapReady(jump) ==
  \/ Request = "EXCEPTION" /\ TrapCapture(jump)
  \/ /\ Request = "INTERRUPT" /\ ~Busy
     /\ (TrapCapture(jump) \/ (csrState = "WAIT" /\ captured))

\* The state after IDLE or WAIT.
AfterWait(jump) ==
  CASE Request = "NONE" -> csrState
    [] Request = "MRET" -> "MRET"
    [] OTHER -> IF TrapReady(jump) THEN "MEPC"
                ELSE IF \/ Request = "INTERRUPT" /\ csrState = "IDLE"
                        \/ Request = "INTERRUPT" /\ csrState = "WAIT" /\ ~TrapCapture(jump)
                        \/ jump \/ Busy
                     THEN "WAIT" ELSE "MEPC"

\* The controller asks the pipeline for nothing in IDLE and WAIT; mret is one
\* state, a trap writes mepc, mstatus and mcause in turn.
NextCsrState(jump) ==
  CASE csrState \in {"IDLE", "WAIT"} -> AfterWait(jump)
    [] csrState = "MEPC"    -> IF jump THEN "MEPC" ELSE "MSTATUS"
    [] csrState = "MSTATUS" -> "MCAUSE"
    [] OTHER -> "IDLE"

-----------------------------------------------------------------------------
(* Register updates, one operator for each RTL module. *)

JumpFlag(jump) == jump \/ intJump

PcGen(jump, target) ==
  pc' = CASE JumpFlag(jump) -> IF jump THEN target ELSE intAddr
          [] ~JumpFlag(jump) /\ Hold -> pc
          [] OTHER -> Next1(pc)

\* The memory answers every cycle, the address on the bus may be held.
Fetch == \E k \in Code[pc] : word' = [kind |-> k, at |-> pc]

\* idu_inst_data
Decoded == IF hold1 THEN kept ELSE word

\* Flushes take precedence over holds: a held EX passes bubbles on.
IduFlush(jump) == JumpFlag(jump) \/ intHold1
\* Mutant: the word fetched behind a jump is not flushed.
ExuFlushOnce(jump) == JumpFlag(jump) \/ IntHold \/ intHold1 \/ ExuHold
ExuFlush(jump) == JumpFlag(jump) \/ jump1 \/ IntHold \/ intHold1 \/ ExuHold

Stages(jump) ==
  /\ kept' = IF IduFlush(jump) THEN Bubble ELSE Decoded
  /\ ex' = IF ExuFlush(jump) THEN Bubble ELSE Decoded
  /\ hold1' = Hold
  /\ jump1' = JumpFlag(jump)
  /\ intHold1' = IntHold
  /\ wb1' = WritesBack
  /\ load1' = (ex.kind = "load")

\* Mutant: the count stops one step early and the pipeline is held.
DividerShort ==
  IF ex.kind = "div" THEN divCnt' \in {0, DivSteps}
  ELSE divCnt' = IF divCnt >= DivSteps - 1 THEN divCnt ELSE divCnt + 1

\* The divider starts on whatever is in EX; a zero or larger divisor ends at once.
Divider ==
  IF ex.kind = "div" THEN divCnt' \in {0, DivSteps}
  ELSE divCnt' = IF divCnt > DivSteps THEN divCnt ELSE divCnt + 1

Clint(jump, target) ==
  /\ \E i \in BOOLEAN : irq' = <<i, irq[1]>>
  /\ irqVldT' = (Request # "NONE" /\ IrqVld)
  /\ irqPending' = (csrState # "MCAUSE" /\ (irqPending \/ (mie /\ IrqVld)))
  /\ captured' = IF csrState = "IDLE" /\ Request \in {"NONE", "MRET"} THEN FALSE
                 ELSE captured \/ (TrapCapture(jump) /\ jump)
  /\ breakAddr' = IF ~TrapCapture(jump) THEN breakAddr
                  ELSE IF Request = "INTERRUPT" THEN target
                  ELSE (pc + Size - 2) % Size
  /\ csrState' = NextCsrState(jump)
  /\ intJump' = (csrState \in {"MCAUSE", "MRET"})
  /\ intAddr' = CASE csrState = "MCAUSE" -> Mtvec
                  [] csrState = "MRET" -> mepc
                  [] OTHER -> 0

\* Mutant: MIE is cleared without a copy in MPIE.
CsrFileUnsaved ==
  CASE csrState = "MEPC" -> mepc' = breakAddr /\ UNCHANGED <<mie, mpie>>
    [] csrState = "MSTATUS" -> mie' = FALSE /\ UNCHANGED <<mpie, mepc>>
    [] csrState = "MRET" -> mie' = mpie /\ mpie' = FALSE /\ mepc' = mepc
    [] ~IntHold /\ ex.kind = "status" -> mie' \in BOOLEAN /\ mpie' \in BOOLEAN /\ mepc' = mepc
    [] OTHER -> UNCHANGED csr

\* The controller has the CSR port whenever it holds the pipeline.
CsrFile ==
  CASE csrState = "MEPC" -> mepc' = breakAddr /\ UNCHANGED <<mie, mpie>>
    [] csrState = "MSTATUS" -> mie' = FALSE /\ mpie' = mie /\ mepc' = mepc
    [] csrState = "MRET" -> mie' = mpie /\ mpie' = FALSE /\ mepc' = mepc
    [] ~IntHold /\ ex.kind = "status" -> mie' \in BOOLEAN /\ mpie' \in BOOLEAN /\ mepc' = mepc
    [] ~IntHold /\ ex.kind = "epc" -> mepc' \in Addr /\ UNCHANGED <<mie, mpie>>
    [] OTHER -> UNCHANGED csr

-----------------------------------------------------------------------------
(* The write port of the register file, rtu_reg_waddr_vld. *)

WritesLoad == load1 /\ wb1 /\ ~MemEn /\ ~IntHold

WritesExu == ~load1 /\ ex.kind # "load" /\ WritesBack /\ ~IntHold

-----------------------------------------------------------------------------
(* History: what the program has done so far. *)

\* The word read while reset lasts is executed once more than the program
\* says, with a pc one word short.
Boot == ex.at = 0 /\ pc = 1

\* The instruction in EX belongs to the program.
Effective == ex # Bubble /\ ~IntHold

Successor(jump, target) ==
  CASE jump -> target
    [] ex.kind = "mret" -> mepc
    [] OTHER -> Next1(ex.at)

History(jump, target) ==
  /\ npc' = CASE Effective /\ ~Boot -> Successor(jump, target)
              [] csrState = "MEPC" -> Mtvec
              [] OTHER -> npc
  /\ loadDue' = (Effective /\ ex.kind = "load")
  /\ divDue' = IF ex.kind = "div" THEN Effective ELSE (divDue /\ ~DivDone)
  /\ armed' = (csrState # "MCAUSE" /\ (armed \/ mie))

-----------------------------------------------------------------------------
Init ==
  /\ pc = 0
  /\ word \in {Bubble} \cup [kind : Code[0], at : {0}]
  /\ kept = Bubble /\ ex = Bubble
  /\ hold1 = FALSE /\ jump1 = FALSE /\ intHold1 = FALSE /\ wb1 = FALSE /\ load1 = FALSE
  /\ divCnt = DivSteps + 1
  /\ irq = <<FALSE, FALSE>> /\ irqVldT = FALSE /\ irqPending = FALSE
  /\ captured = FALSE /\ csrState = "IDLE" /\ breakAddr = 0
  /\ intJump = FALSE /\ intAddr = 0
  /\ mie = FALSE /\ mpie = FALSE /\ mepc = 0
  /\ npc = 0 /\ loadDue = FALSE /\ divDue = FALSE /\ armed = FALSE

Edge(jump, target) ==
  /\ PcGen(jump, target) /\ Fetch /\ Stages(jump) /\ Divider
  /\ Clint(jump, target) /\ CsrFile /\ History(jump, target)

\* No jump leaves EX in this cycle.
Straight == ex.kind # "jump" /\ Edge(FALSE, 0)

\* A jump or a taken branch is in EX.
Leave == ex.kind \in {"jump", "branch"} /\ \E t \in Target : Edge(TRUE, t)

Next == Straight \/ Leave

\* The clock does not stop.
Spec == Init /\ [][Next]_vars /\ WF_vars(Next)

-----------------------------------------------------------------------------
TypeOK ==
  /\ pc \in Addr /\ word \in Slot /\ kept \in Slot /\ ex \in Slot
  /\ {hold1, jump1, intHold1, wb1, load1} \subseteq BOOLEAN
  /\ divCnt \in 0 .. DivSteps + 1
  /\ irq \in BOOLEAN \X BOOLEAN
  /\ {irqVldT, irqPending, captured, intJump} \subseteq BOOLEAN
  /\ csrState \in {"IDLE", "WAIT", "MEPC", "MSTATUS", "MCAUSE", "MRET"}
  /\ breakAddr \in Addr /\ intAddr \in Addr
  /\ {mie, mpie} \subseteq BOOLEAN /\ mepc \in Addr
  /\ npc \in Addr /\ {loadDue, divDue, armed} \subseteq BOOLEAN

\* Whatever holds, jumps and traps went before, the instruction that takes
\* effect in EX is the next one of the program, and the program counter that
\* jumps and auipc count from is two words ahead of it.
InOrder == (Effective /\ ~Boot) => ex.at = npc /\ pc = Next1(Next1(ex.at))

\* A squashed jump in EX keeps the controller in MEPC for one cycle more.
Entered == csrState = "MSTATUS" \/ (csrState = "MEPC" /\ intHold1)

\* The address saved by a trap is that of the first instruction not executed.
PreciseTrap == (csrState = "MEPC" /\ ~Entered) => breakAddr = npc

\* Registers, program counter and saved address stay exact under any mix of holds, jumps
\* and traps.
PipelineExact == TypeOK /\ InOrder /\ PreciseTrap

\* The result of every executed instruction reaches the register file: from
\* EX in the same cycle, from memory one cycle later, from the divider at its
\* end, and none of them takes the write port from another.
NoLostResult ==
  /\ (Effective /\ ex.kind \in HasDest \ {"load", "div"}) => (WritesExu /\ ~DivDone)
  /\ loadDue => WritesLoad
  /\ (divDue /\ DivDone) => WritesExu

\* The register file is written only for executed instructions: the ones that
\* a trap or mret squashes leave no trace ("precise interrupts").
NoStrayWrite ==
  /\ WritesLoad => loadDue
  /\ WritesExu => IF DivDone THEN divDue ELSE Effective

\* Every result is written, once, and nothing else is.
WritesExact == NoLostResult /\ NoStrayWrite

\* No second trap before the program has set MIE again: requests that come
\* while a trap is being entered do not survive into the handler.
NoNestedTrap == csrState = "MEPC" => armed

\* MIE and MPIE as a program sees them: traps and mret are one step, although
\* the core needs three and two cycles and executes on meanwhile.
SeenMie  == IF Entered THEN FALSE ELSE IF csrState = "MRET" THEN mpie ELSE mie
SeenMpie == IF Entered THEN mie ELSE IF csrState = "MRET" THEN FALSE ELSE mpie

\* What a program sees is PaArch.
Arch == INSTANCE PaArch WITH pc <- npc, mie <- SeenMie, mpie <- SeenMpie

\* Every cycle is a step of that machine or none, whatever pauses, flushes and
\* interrupts there are.
LooksSequential == Arch!Spec

\* The pipeline never hangs: instructions go on being executed.
Progress == []<>Effective

\* A latched interrupt is taken, provided the program goes on jumping; the
\* controller waits for a jump to have a clean return address.
InterruptTaken ==
  []<><<Leave>>_vars => (irqPending ~> csrState = "MCAUSE")
=============================================================================
