---------------------------- MODULE PaCoreProofs ----------------------------
(***************************************************************************)
(* The pipeline of PaCore, for every program, every memory size, every     *)
(* length of a division and every pattern of holds, jumps and interrupts.  *)
(***************************************************************************)
EXTENDS PaCore, TLAPS

\* The word at the reset address is executed twice: it must bear that.
ResetWord == Code[0] = {"alu"}

Rest == csrState \in {"IDLE", "WAIT"}

\* What is not taken into EX, and when the divider runs.
Passed ==
  /\ hold1 \/ jump1 \/ intHold1 => ex = Bubble
  /\ ex = Bubble \/ divCnt > DivSteps
  /\ DivRunning => hold1

\* The address behind the instruction in EX.
Ahead == IF Effective /\ ~Boot THEN Next1(npc) ELSE npc

\* The first cycle after reset.
AtReset ==
  /\ ~hold1 /\ ~jump1 /\ ex = Bubble
  /\ pc = 0 /\ npc = 0 /\ word \in {Bubble, [kind |-> "alu", at |-> 0]}

\* A jump went before: what has been fetched is of no use, the bus is at the target.
AtTarget == jump1 /\ pc = npc /\ (hold1 => kept = Bubble)

\* The next word is on its way into ID, and the one in EX is the one before.
Streaming ==
  /\ ~jump1 /\ ~hold1
  /\ word # Bubble /\ word.at = Ahead /\ pc = Next1(Ahead)
  /\ Effective => IF Boot THEN ex.kind = "alu" ELSE ex.at = npc

\* The pipeline was held: the next word waits in ID, or has not been read yet.
Resting ==
  /\ ~jump1 /\ hold1
  /\ IF kept = Bubble THEN pc = npc ELSE kept.at = npc /\ pc = Next1(npc)

\* The pipeline while the interrupt controller leaves it alone.
Flow == Rest /\ ~intJump => ~intHold1 /\ (AtReset \/ AtTarget \/ Streaming \/ Resting)

\* The jump of the interrupt controller.
Jumping == intJump => csrState = "IDLE" /\ intHold1 /\ intAddr = npc

\* A captured interrupt waits with an empty pipeline, for two cycles at most.
Waiting ==
  /\ csrState = "WAIT" /\ captured =>
       /\ ex = Bubble /\ divCnt > DivSteps /\ (jump1 \/ ~wb1)
       /\ irqPending /\ breakAddr = npc
  /\ csrState = "IDLE" /\ captured => intJump /\ ~mie /\ ~irqPending

\* The states of a trap and of mret.
Trapping ==
  /\ csrState = "MRET" => ~captured /\ mepc = npc
  /\ csrState = "MEPC" => IF intHold1 THEN npc = Mtvec /\ mepc = breakAddr ELSE breakAddr = npc
  /\ csrState = "MSTATUS" => npc = Mtvec
  /\ csrState = "MCAUSE" => npc = Mtvec /\ ~mie

IInv == TypeOK /\ Passed /\ Flow /\ Jumping /\ Waiting /\ Trapping

\* One cycle, with or without a jump in EX.
Cycle(jump, target) ==
  /\ jump \in BOOLEAN /\ target \in Addr
  /\ jump => ex.kind \in {"jump", "branch"} /\ target \in Target
  /\ Edge(jump, target)

-----------------------------------------------------------------------------
(* Addresses and words                                                     *)

LEMMA AddrFacts ==
  /\ \A a \in Addr : Next1(a) \in Addr
  /\ \A a \in Addr : (a + Size - 2) % Size \in Addr
  /\ 0 \in Addr /\ Next1(0) = 1 /\ Next1(1) # 1
<1>1. Size \in Nat /\ Size > 2
  BY SizeAssumption
<1>2. \A a \in Addr : Next1(a) \in Addr
  BY <1>1 DEF Addr, Next1
<1>3. \A a \in Addr : (a + Size - 2) % Size \in Addr
  BY <1>1 DEF Addr
<1>4. 0 \in Addr
  BY <1>1 DEF Addr
<1>5. 1 % Size = 1 /\ 2 % Size # 1
  BY <1>1
<1> QED BY <1>2, <1>3, <1>4, <1>5 DEF Next1

LEMMA SlotFacts ==
  ASSUME NEW s \in Slot
  PROVE  s.at \in Addr /\ (s = Bubble <=> s.kind = "bubble") /\ (s # Bubble => s.kind \in Kind)
BY AddrFacts DEF Slot, Bubble, Kind

LEMMA BubbleFacts == Bubble \in Slot /\ Bubble.kind = "bubble" /\ Bubble.at = 0
BY DEF Slot, Bubble

\* What the memory returns.
LEMMA FetchFacts ==
  ASSUME pc \in Addr, Fetch
  PROVE  word' \in Slot /\ word' # Bubble /\ word'.at = pc /\ word'.kind \in Code[pc]
<1>1. PICK k \in Code[pc] : word' = [kind |-> k, at |-> pc]
  BY DEF Fetch
<1>2. k \in Kind
  BY CodeAssumption
<1> QED BY <1>1, <1>2 DEF Slot, Bubble, Kind

\* Every step is a cycle.
LEMMA StepIsCycle ==
  ASSUME Next
  PROVE  \E jump \in BOOLEAN, target \in Addr : Cycle(jump, target)
<1>1. CASE Straight
  BY <1>1, AddrFacts DEF Straight, Cycle
<1>2. CASE Leave
  BY <1>2, AddrAssumption DEF Leave, Cycle
<1> QED BY <1>1, <1>2 DEF Next

-----------------------------------------------------------------------------
(* Types                                                                   *)

LEMMA TypeStep ==
  ASSUME TypeOK, NEW jump, NEW target, Cycle(jump, target)
  PROVE  TypeOK'
<1>0. jump \in BOOLEAN /\ target \in Addr /\ Edge(jump, target)
  BY DEF Cycle
<1>1. pc' \in Addr
  BY <1>0, AddrFacts DEF TypeOK, Edge, PcGen
<1>2. word' \in Slot
  BY <1>0, FetchFacts DEF TypeOK, Edge
<1>3. kept' \in Slot /\ ex' \in Slot
  BY <1>0, BubbleFacts DEF TypeOK, Edge, Stages, Decoded
<1>4. {hold1', jump1', intHold1', wb1', load1'} \subseteq BOOLEAN
  <2>1. /\ hold1' \in BOOLEAN /\ intHold1' \in BOOLEAN /\ load1' \in BOOLEAN
    BY <1>0 DEF Edge, Stages, Hold, ExuHold, MemEn, IntHold, DivRunning
  <2>2. wb1' \in BOOLEAN
    BY <1>0 DEF Edge, Stages, WritesBack, DivDone, DivRunning
  <2>3. jump1' \in BOOLEAN
    BY <1>0 DEF TypeOK, Edge, Stages, JumpFlag
  <2> QED BY <2>1, <2>2, <2>3
<1>5. divCnt' \in 0 .. DivSteps + 1
  BY <1>0, DivAssumption DEF TypeOK, Edge, Divider
<1>6. irq' \in BOOLEAN \X BOOLEAN
  BY <1>0 DEF TypeOK, Edge, Clint
<1>7. {irqVldT', irqPending', captured', intJump'} \subseteq BOOLEAN
  <2>1. IrqVld \in BOOLEAN /\ TrapCapture(jump) \in BOOLEAN
    BY DEF TypeOK, IrqVld, TrapCapture
  <2>2. irqVldT' \in BOOLEAN /\ irqPending' \in BOOLEAN /\ intJump' \in BOOLEAN
    BY <1>0, <2>1 DEF TypeOK, Edge, Clint
  <2>3. captured' \in BOOLEAN
    BY <1>0, <2>1 DEF TypeOK, Edge, Clint
  <2> QED BY <2>2, <2>3
<1>8. csrState' \in {"IDLE", "WAIT", "MEPC", "MSTATUS", "MCAUSE", "MRET"}
  BY <1>0 DEF TypeOK, Edge, Clint, NextCsrState, AfterWait
<1>9. breakAddr' \in Addr /\ intAddr' \in Addr
  BY <1>0, AddrFacts, AddrAssumption DEF TypeOK, Edge, Clint
<1>10. {mie', mpie'} \subseteq BOOLEAN /\ mepc' \in Addr
  BY <1>0 DEF TypeOK, Edge, CsrFile, csr
<1>11. npc' \in Addr /\ {loadDue', divDue', armed'} \subseteq BOOLEAN
  <2>1. npc' \in Addr
    BY <1>0, AddrFacts, AddrAssumption, SlotFacts DEF TypeOK, Edge, History, Successor
  <2>2. Effective \in BOOLEAN /\ DivDone \in BOOLEAN
    BY DEF Effective, DivDone
  <2>3. loadDue' \in BOOLEAN /\ divDue' \in BOOLEAN /\ armed' \in BOOLEAN
    BY <1>0, <2>2 DEF TypeOK, Edge, History
  <2> QED BY <2>1, <2>3
<1> QED
  BY <1>1, <1>2, <1>3, <1>4, <1>5, <1>6, <1>7, <1>8, <1>9, <1>10, <1>11 DEF TypeOK

-----------------------------------------------------------------------------
(* What a cycle does to the pipeline and to the interrupt controller       *)

LEMMA PassedStep ==
  ASSUME TypeOK, Passed, NEW jump, NEW target, Cycle(jump, target)
  PROVE  Passed'
<1>0. Stages(jump) /\ Divider /\ divCnt \in 0 .. DivSteps + 1 /\ DivSteps \in Nat /\ DivSteps > 0
  BY DivAssumption DEF TypeOK, Cycle, Edge
<1>1. ExuHold \/ IntHold \/ JumpFlag(jump) => ex' = Bubble
  BY <1>0 DEF Stages, ExuFlush
<1>2. hold1' \/ jump1' \/ intHold1' => ex' = Bubble
  BY <1>0, <1>1 DEF Stages, Hold
<1>3. ~ExuHold => divCnt' > DivSteps
  BY <1>0 DEF Divider, ExuHold, DivRunning
<1>4. (DivRunning' => ExuHold)
  BY <1>0 DEF Divider, ExuHold, DivRunning
<1>5. DivRunning' => hold1'
  BY <1>0, <1>4 DEF Stages, Hold
<1> QED BY <1>1, <1>2, <1>3, <1>5 DEF Passed

\* An instruction in EX is the only one there: nothing holds, nothing is flushed.
LEMMA InEx ==
  ASSUME TypeOK, Passed, ex # Bubble
  PROVE  /\ ~hold1 /\ ~jump1 /\ ~intHold1 /\ divCnt > DivSteps
         /\ ~DivRunning /\ ~DivDone /\ ex.kind \in Kind
         /\ WritesBack <=> ex.kind \in HasDest \ {"div"}
<1>1. ~hold1 /\ ~jump1 /\ ~intHold1 /\ divCnt > DivSteps
  BY DEF Passed
<1>2. ~DivRunning /\ ~DivDone
  BY <1>1, DivAssumption DEF TypeOK, DivRunning, DivDone
<1>3. ex.kind \in Kind
  BY SlotFacts DEF TypeOK
<1> QED BY <1>1, <1>2, <1>3 DEF WritesBack

\* ecall and ebreak write a register, so the controller never finds EX at rest:
\* a trap is entered for an interrupt only.
LEMMA EcallBusy ==
  ASSUME TypeOK, Passed, ex.kind = "ecall"
  PROVE  Busy
<1>1. ex # Bubble
  BY BubbleFacts
<1>2. WritesBack
  BY <1>1, InEx DEF HasDest
<1> QED BY <1>2 DEF Busy

\* What the controller does while it leaves the pipeline alone.
LEMMA RestNext ==
  ASSUME TypeOK, Passed, Rest, NEW jump, NEW target, Cycle(jump, target)
  PROVE  \/ csrState' \in {"IDLE", "WAIT"} /\ ex.kind # "mret"
         \/ csrState' = "MRET" /\ ex.kind = "mret"
         \/ /\ csrState' = "MEPC" /\ Request = "INTERRUPT" /\ ~Busy
            /\ TrapCapture(jump) \/ (csrState = "WAIT" /\ captured)
<1>1. csrState' = AfterWait(jump)
  BY DEF Rest, Cycle, Edge, Clint, NextCsrState
<1>2. CASE ex.kind = "mret"
  BY <1>1, <1>2 DEF AfterWait, Request
<1>3. CASE ex.kind = "ecall"
  <2>1. Request = "EXCEPTION" /\ Busy
    BY <1>3, EcallBusy DEF Request
  <2>2. csrState' = "WAIT"
    BY <1>1, <2>1 DEF AfterWait, TrapReady, TrapCapture
  <2> QED BY <1>3, <2>2
<1>4. CASE ex.kind # "mret" /\ ex.kind # "ecall" /\ Request = "NONE"
  BY <1>1, <1>4 DEF AfterWait, Rest
<1>5. CASE ex.kind # "mret" /\ ex.kind # "ecall" /\ Request = "INTERRUPT"
  <2>1. CASE TrapReady(jump)
    <3>1. csrState' = "MEPC"
      BY <1>1, <1>5, <2>1 DEF AfterWait
    <3> QED BY <1>5, <2>1, <3>1 DEF TrapReady
  <2>2. CASE ~TrapReady(jump)
    <3>1. csrState = "WAIT" /\ TrapCapture(jump) => Busy
      BY <1>5, <2>2 DEF TrapReady
    <3>2. csrState' = "WAIT"
      BY <1>1, <1>5, <2>2, <3>1 DEF AfterWait, Rest
    <3> QED BY <1>5, <3>2
  <2> QED BY <2>1, <2>2
<1> QED BY <1>2, <1>3, <1>4, <1>5 DEF Request

\* The program goes on behind the instruction in EX, or at the target of the jump.
LEMMA RestGoesOn ==
  ASSUME TypeOK, Rest, NEW jump, NEW target, Cycle(jump, target),
         Effective => IF Boot THEN ex.kind = "alu" ELSE ex.at = npc
  PROVE  /\ Effective <=> ex # Bubble
         /\ jump => npc' = target /\ ex # Bubble
         /\ ex.kind = "mret" => npc' = mepc
         /\ ~jump /\ ex.kind # "mret" => npc' = Ahead
<1>0. npc' = CASE Effective /\ ~Boot -> Successor(jump, target)
              [] csrState = "MEPC" -> Mtvec
              [] OTHER -> npc
  BY DEF Cycle, Edge, History
<1>1. Effective <=> ex # Bubble
  BY DEF Effective, IntHold, Rest
<1>2. jump => ex.kind \in {"jump", "branch"}
  BY DEF Cycle
<1>3. ex.kind \in {"jump", "branch", "mret"} => ex # Bubble
  BY BubbleFacts
<1>4. ASSUME jump PROVE npc' = target
  <2>1. Effective /\ ~Boot /\ ex.kind # "mret" /\ csrState # "MEPC"
    BY <1>1, <1>2, <1>3, <1>4 DEF Rest
  <2>2. npc' = Successor(jump, target)
    BY <1>0, <2>1
  <2>3. Successor(jump, target) = target
    BY <1>4, <2>1 DEF Successor
  <2> QED BY <2>2, <2>3
<1>5. ASSUME ex.kind = "mret" PROVE npc' = mepc
  <2>1. Effective /\ ~Boot /\ ~jump /\ csrState # "MEPC"
    BY <1>1, <1>2, <1>3, <1>5 DEF Rest
  <2>2. npc' = Successor(jump, target)
    BY <1>0, <2>1
  <2>3. Successor(jump, target) = mepc
    BY <1>5, <2>1 DEF Successor
  <2> QED BY <2>2, <2>3
<1>6. ~jump /\ ex.kind # "mret" => npc' = Ahead
  BY <1>0, <1>1 DEF Successor, Ahead, Rest
<1> QED BY <1>1, <1>2, <1>3, <1>4, <1>5, <1>6

-----------------------------------------------------------------------------
(* The flow of words                                                       *)

\* What is in EX while the controller leaves the pipeline alone.
LEMMA ExFacts ==
  ASSUME TypeOK, Passed, Flow, Jumping, Rest
  PROVE  /\ Effective <=> ex # Bubble
         /\ ex # Bubble => ~intJump /\ Streaming
         /\ Effective => IF Boot THEN ex.kind = "alu" ELSE ex.at = npc
<1>1. Effective <=> ex # Bubble
  BY DEF Effective, IntHold, Rest
<1>2. ASSUME ex # Bubble PROVE ~intJump /\ Streaming
  <2>1. ~hold1 /\ ~jump1 /\ ~intHold1
    BY <1>2, InEx
  <2>2. ~intJump
    BY <2>1 DEF Jumping
  <2> QED BY <1>2, <2>1, <2>2 DEF Flow, AtReset, AtTarget, Resting
<1> QED BY <1>1, <1>2 DEF Streaming

\* A jump of the program, or of the controller, empties the pipeline.
LEMMA JumpFlow ==
  ASSUME TypeOK, Passed, Flow, Jumping, Rest,
         NEW jump, NEW target, Cycle(jump, target), JumpFlag(jump)
  PROVE  AtTarget' /\ ex' = Bubble
<1>1. kept' = Bubble /\ ex' = Bubble /\ jump1'
  BY DEF Cycle, Edge, Stages, IduFlush, ExuFlush
<1>2. CASE jump
  <2>1. npc' = target
    BY <1>2, ExFacts, RestGoesOn
  <2>2. pc' = target
    BY <1>2 DEF Cycle, Edge, PcGen, JumpFlag
  <2> QED BY <1>1, <2>1, <2>2 DEF AtTarget
<1>3. CASE ~jump
  <2>1. intJump
    BY <1>3 DEF JumpFlag
  <2>2. ex = Bubble /\ intAddr = npc
    BY <2>1, ExFacts DEF Jumping
  <2>3. npc' = npc
    BY <1>3, <2>2, ExFacts, RestGoesOn, BubbleFacts DEF Ahead
  <2>4. pc' = intAddr
    BY <1>3, <2>1 DEF Cycle, Edge, PcGen, JumpFlag
  <2> QED BY <1>1, <2>2, <2>3, <2>4 DEF AtTarget
<1> QED BY <1>2, <1>3

\* A cycle without a jump, in any phase: the next word moves on or is kept.
LEMMA StraightFlow ==
  ASSUME TypeOK, Passed, Flow, Jumping, Rest, ex.kind # "mret",
         NEW jump, NEW target, Cycle(jump, target), ~JumpFlag(jump), Rest'
  PROVE  Streaming' \/ Resting'
<1>0. ~jump /\ ~intJump /\ ~intHold1 /\ ~IntHold /\ (Hold <=> ExuHold)
  BY DEF JumpFlag, Flow, Rest, IntHold, Hold
<1>1. /\ kept' = Decoded /\ ex' = (IF jump1 \/ ExuHold THEN Bubble ELSE Decoded)
      /\ (hold1' <=> ExuHold) /\ ~jump1'
  BY <1>0 DEF Cycle, Edge, Stages, IduFlush, ExuFlush
<1>2. pc' = IF ExuHold THEN pc ELSE Next1(pc)
  BY <1>0 DEF Cycle, Edge, PcGen
<1>3. npc' = Ahead
  BY <1>0, ExFacts, RestGoesOn
<1>4. pc \in Addr /\ npc \in Addr /\ word' # Bubble /\ word'.at = pc /\ word'.kind \in Code[pc]
  BY FetchFacts DEF TypeOK, Cycle, Edge
<1>5. Effective' <=> ex' # Bubble
  BY DEF Effective, IntHold, Rest
<1>6. ex = Bubble => Ahead = npc
  BY ExFacts DEF Ahead
<1>7. ExuHold /\ ex = Bubble => hold1
  BY BubbleFacts DEF Passed, ExuHold, MemEn
<1>8. CASE AtReset
  <2>1. ~ExuHold /\ Ahead = 0
    BY <1>6, <1>7, <1>8 DEF AtReset
  <2>2. ex' = word /\ pc' = 1 /\ npc' = 0 /\ word'.at = 0 /\ ~hold1'
    BY <1>1, <1>2, <1>3, <1>4, <1>8, <2>1, AddrFacts DEF AtReset, Decoded
  <2>3. ex' = Bubble \/ (ex'.kind = "alu" /\ ex'.at = 0)
    BY <1>8, <2>2 DEF AtReset
  <2>4. Boot' \/ ex' = Bubble
    BY <2>2, <2>3 DEF Boot
  <2>5. Ahead' = 0
    BY <1>5, <2>2, <2>4 DEF Ahead
  <2> QED BY <1>1, <1>4, <1>5, <2>2, <2>3, <2>4, <2>5, AddrFacts DEF Streaming
<1>9. CASE AtTarget /\ ~AtReset
  <2>1. ex = Bubble /\ Ahead = npc /\ ex' = Bubble /\ npc' = npc /\ pc = npc
    BY <1>1, <1>3, <1>6, <1>9 DEF AtTarget, Passed
  <2>2. Ahead' = npc'
    BY <1>5, <2>1 DEF Ahead
  <2>3. CASE ExuHold
    BY <1>1, <1>2, <1>7, <1>9, <2>1, <2>3 DEF AtTarget, Decoded, Resting
  <2>4. CASE ~ExuHold
    BY <1>1, <1>2, <1>4, <1>5, <2>1, <2>2, <2>4 DEF Streaming
  <2> QED BY <2>3, <2>4
<1>10. CASE Streaming
  <2> DEFINE n == Ahead
  <2>0. n \in Addr
    BY <1>4, AddrFacts DEF Ahead
  <2> HIDE DEF n
  <2>1. word # Bubble /\ word.at = n /\ pc = Next1(n) /\ Decoded = word /\ npc' = n
    BY <1>3, <1>10 DEF Streaming, Decoded, n
  <2>2. CASE ExuHold
    BY <1>1, <1>2, <2>1, <2>2 DEF Resting
  <2>3. CASE ~ExuHold
    <3>1. ex' = word /\ pc' = Next1(Next1(n)) /\ ~hold1' /\ Effective'
      BY <1>1, <1>2, <1>5, <1>10, <2>1, <2>3 DEF Streaming
    <3>2. ~Boot'
      BY <2>1, <3>1, AddrFacts DEF Boot
    <3>3. Ahead' = Next1(n)
      BY <2>1, <3>1, <3>2 DEF Ahead
    <3> QED BY <1>1, <1>4, <2>1, <3>1, <3>2, <3>3 DEF Streaming
  <2> QED BY <2>2, <2>3
<1>11. CASE Resting
  <2>1. ex = Bubble /\ npc' = npc /\ Decoded = kept /\ ~jump1
    BY <1>3, <1>6, <1>11 DEF Resting, Passed, Decoded
  <2>2. CASE ExuHold
    BY <1>1, <1>2, <1>11, <2>1, <2>2 DEF Resting
  <2>3. CASE ~ExuHold /\ kept = Bubble
    <3>1. ex' = Bubble /\ pc = npc /\ pc' = Next1(npc) /\ ~hold1'
      BY <1>1, <1>2, <1>11, <2>1, <2>3 DEF Resting
    <3>2. Ahead' = npc'
      BY <1>5, <3>1 DEF Ahead
    <3> QED BY <1>1, <1>4, <1>5, <2>1, <3>1, <3>2 DEF Streaming
  <2>4. CASE ~ExuHold /\ kept # Bubble
    <3>1. /\ ex' = kept /\ kept.at = npc /\ pc = Next1(npc) /\ pc' = Next1(Next1(npc))
          /\ ~hold1' /\ Effective'
      BY <1>1, <1>2, <1>5, <1>11, <2>1, <2>4 DEF Resting
    <3>2. ~Boot'
      BY <3>1, AddrFacts DEF Boot
    <3>3. Ahead' = Next1(npc)
      BY <2>1, <3>1, <3>2 DEF Ahead
    <3> QED BY <1>1, <1>4, <2>1, <3>1, <3>2, <3>3 DEF Streaming
  <2> QED BY <2>2, <2>3, <2>4
<1> QED BY <1>0, <1>8, <1>9, <1>10, <1>11 DEF Flow

-----------------------------------------------------------------------------
(* The interrupt controller                                                *)

\* The CSRs in each state.
LEMMA CsrNext ==
  ASSUME TypeOK, CsrFile
  PROVE  /\ csrState = "MEPC" => mepc' = breakAddr /\ mie' = mie /\ mpie' = mpie
         /\ csrState = "MSTATUS" => mie' = FALSE /\ mpie' = mie /\ mepc' = mepc
         /\ csrState = "MCAUSE" => mie' = mie /\ mpie' = mpie /\ mepc' = mepc
         /\ csrState = "MRET" => mie' = mpie /\ mpie' = FALSE /\ mepc' = mepc
         /\ Rest /\ ex.kind = "status" => mie' \in BOOLEAN /\ mpie' \in BOOLEAN /\ mepc' = mepc
         /\ Rest /\ ex.kind = "epc" => mepc' \in Addr /\ mie' = mie /\ mpie' = mpie
         /\ Rest /\ ex.kind \notin {"status", "epc"} =>
              mie' = mie /\ mpie' = mpie /\ mepc' = mepc
<1>1. CASE csrState = "MEPC"
  BY <1>1 DEF CsrFile, Rest, IntHold
<1>2. CASE csrState = "MSTATUS"
  BY <1>2 DEF CsrFile, Rest, IntHold
<1>3. CASE csrState = "MCAUSE"
  BY <1>3 DEF CsrFile, Rest, IntHold, csr
<1>4. CASE csrState = "MRET"
  BY <1>4 DEF CsrFile, Rest, IntHold
<1>5. CASE Rest
  <2>1. CASE ex.kind = "status"
    BY <1>5, <2>1 DEF CsrFile, Rest, IntHold
  <2>2. CASE ex.kind = "epc"
    BY <1>5, <2>2 DEF CsrFile, Rest, IntHold
  <2>3. CASE ex.kind \notin {"status", "epc"}
    BY <1>5, <2>3 DEF CsrFile, Rest, IntHold, csr
  <2> QED BY <1>5, <2>1, <2>2, <2>3 DEF Rest
<1> QED BY <1>1, <1>2, <1>3, <1>4, <1>5 DEF TypeOK, Rest

\* The states of a trap and of mret follow each other; nothing is captured in them,
\* and only the first of them moves the program on.
LEMMA TrapNext ==
  ASSUME TypeOK, ~Rest, NEW jump, NEW target, Cycle(jump, target)
  PROVE  /\ csrState = "MEPC" => csrState' \in {"MEPC", "MSTATUS"}
         /\ csrState = "MSTATUS" => csrState' = "MCAUSE"
         /\ csrState \in {"MCAUSE", "MRET"} => csrState' = "IDLE"
         /\ npc' = IF csrState = "MEPC" THEN Mtvec ELSE npc
         /\ breakAddr' = breakAddr /\ captured' = captured
         /\ intHold1' = TRUE /\ ex' = Bubble
         /\ csrState \in {"MEPC", "MSTATUS", "MCAUSE", "MRET"}
<1>1. csrState \in {"MEPC", "MSTATUS", "MCAUSE", "MRET"} /\ IntHold
  BY DEF TypeOK, Rest, IntHold
<1>2. ~TrapCapture(jump) /\ ~Effective
  BY <1>1 DEF TrapCapture, Effective
<1>3. csrState' = NextCsrState(jump)
  BY DEF Cycle, Edge, Clint
<1>4. /\ csrState = "MEPC" => csrState' \in {"MEPC", "MSTATUS"}
      /\ csrState = "MSTATUS" => csrState' = "MCAUSE"
      /\ csrState \in {"MCAUSE", "MRET"} => csrState' = "IDLE"
  BY <1>3 DEF NextCsrState
<1>5. npc' = IF csrState = "MEPC" THEN Mtvec ELSE npc
  BY <1>2 DEF Cycle, Edge, History
<1>6. breakAddr' = breakAddr
  BY <1>2 DEF Cycle, Edge, Clint
<1>7. captured' = captured
  BY <1>1, <1>2 DEF TypeOK, Cycle, Edge, Clint
<1>8. intHold1' = TRUE /\ ex' = Bubble
  BY <1>1 DEF Cycle, Edge, Stages, ExuFlush
<1> QED BY <1>1, <1>4, <1>5, <1>6, <1>7, <1>8

\* An interrupt is captured with the target of the jump.
LEMMA CaptureFacts ==
  ASSUME TypeOK, Passed, Flow, Jumping, Rest, NEW jump, NEW target, Cycle(jump, target),
         TrapCapture(jump), Request = "INTERRUPT"
  PROVE  /\ jump /\ ~captured /\ ex # Bubble /\ divCnt > DivSteps
         /\ breakAddr' = target /\ npc' = target /\ irqPending'
<1>1. jump /\ ~captured
  BY DEF TrapCapture
<1>2. npc' = target /\ ex # Bubble
  BY <1>1, ExFacts, RestGoesOn
<1>3. breakAddr' = target
  BY DEF Cycle, Edge, Clint
<1>4. irqPending \/ (mie /\ IrqVld)
  BY DEF Request
<1>5. irqPending'
  BY <1>4 DEF Rest, Cycle, Edge, Clint
<1> QED BY <1>1, <1>2, <1>3, <1>5, InEx

\* Nothing is in EX while a captured interrupt waits.
LEMMA CapturedFacts ==
  ASSUME TypeOK, Passed, Flow, Jumping, Waiting, csrState = "WAIT", captured,
         NEW jump, NEW target, Cycle(jump, target)
  PROVE  /\ ~jump /\ ~TrapCapture(jump) /\ Request = "INTERRUPT"
         /\ npc' = npc /\ breakAddr' = breakAddr /\ breakAddr = npc
         /\ irqPending' /\ divCnt' > DivSteps /\ ~WritesBack
         /\ Busy => jump1
<1>1. /\ ex = Bubble /\ divCnt > DivSteps /\ (jump1 \/ ~wb1)
      /\ irqPending /\ breakAddr = npc /\ ex.kind = "bubble" /\ Rest
  BY BubbleFacts DEF Waiting, Rest
<1>2. ~jump /\ ~TrapCapture(jump) /\ Request = "INTERRUPT"
  BY <1>1 DEF Cycle, TrapCapture, Request
<1>3. npc' = npc
  BY <1>1, <1>2, ExFacts, RestGoesOn DEF Ahead
<1>4. breakAddr' = breakAddr /\ irqPending'
  BY <1>1, <1>2 DEF Cycle, Edge, Clint
<1>5. divCnt' > DivSteps
  BY <1>1, DivAssumption DEF TypeOK, Cycle, Edge, Divider
<1>6. ~WritesBack /\ ~ExuHold /\ ~MemEn
  BY <1>1, DivAssumption DEF TypeOK, WritesBack, ExuHold, MemEn, DivRunning, DivDone, HasDest
<1>7. Busy => jump1
  BY <1>1, <1>6 DEF Busy
<1> QED BY <1>1, <1>2, <1>3, <1>4, <1>5, <1>6, <1>7

-----------------------------------------------------------------------------
(* The invariant                                                           *)

LEMMA FlowStep ==
  ASSUME IInv, NEW jump, NEW target, Cycle(jump, target)
  PROVE  Flow'
<1>1. SUFFICES ASSUME Rest', ~intJump'
               PROVE ~intHold1' /\ (AtReset' \/ AtTarget' \/ Streaming' \/ Resting')
  BY DEF Flow
<1>2. Rest
  <2>1. csrState \notin {"MCAUSE", "MRET"}
    BY <1>1 DEF Cycle, Edge, Clint
  <2> QED BY <1>1, <2>1, TrapNext DEF IInv, Rest
<1>3. ~intHold1'
  BY <1>2 DEF Rest, IntHold, Cycle, Edge, Stages
<1>4. ex.kind # "mret"
  BY <1>1, <1>2, RestNext DEF IInv, Rest
<1>5. CASE JumpFlag(jump)
  BY <1>2, <1>3, <1>5, JumpFlow DEF IInv
<1>6. CASE ~JumpFlag(jump)
  BY <1>1, <1>2, <1>3, <1>4, <1>6, StraightFlow DEF IInv
<1> QED BY <1>5, <1>6

LEMMA JumpingStep ==
  ASSUME IInv, NEW jump, NEW target, Cycle(jump, target)
  PROVE  Jumping'
<1>1. SUFFICES ASSUME intJump'
               PROVE csrState' = "IDLE" /\ intHold1' /\ intAddr' = npc'
  BY DEF Jumping
<1>2. csrState \in {"MCAUSE", "MRET"} /\ ~Rest
  BY <1>1 DEF Cycle, Edge, Clint, Rest
<1>3. csrState' = "IDLE" /\ intHold1' = TRUE /\ npc' = npc
  BY <1>2, TrapNext DEF IInv
<1>4. intAddr' = IF csrState = "MCAUSE" THEN Mtvec ELSE mepc
  BY <1>2 DEF Cycle, Edge, Clint
<1>5. npc = IF csrState = "MCAUSE" THEN Mtvec ELSE mepc
  BY <1>2 DEF IInv, Trapping
<1> QED BY <1>3, <1>4, <1>5

LEMMA WaitingStep ==
  ASSUME IInv, NEW jump, NEW target, Cycle(jump, target)
  PROVE  Waiting'
<1>0. TypeOK /\ Passed /\ Flow /\ Jumping /\ Waiting /\ Trapping
  BY DEF IInv
<1>1. ASSUME csrState' = "WAIT", captured'
      PROVE  /\ ex' = Bubble /\ divCnt' > DivSteps /\ (jump1' \/ ~wb1')
             /\ irqPending' /\ breakAddr' = npc'
  <2>1. Rest
    BY <1>0, <1>1, TrapNext
  <2>2. CASE captured /\ csrState = "WAIT"
    <3>1. /\ Request = "INTERRUPT" /\ npc' = npc /\ breakAddr' = breakAddr /\ breakAddr = npc
          /\ irqPending' /\ divCnt' > DivSteps /\ ~WritesBack /\ (Busy => jump1)
      BY <1>0, <2>2, CapturedFacts
    <3>2. Busy
      <4>1. csrState' = AfterWait(jump)
        BY <2>2 DEF Cycle, Edge, Clint, NextCsrState
      <4> QED BY <1>1, <2>2, <3>1, <4>1 DEF AfterWait, TrapReady
    <3>3. ex' = Bubble /\ ~wb1'
      BY <3>1, <3>2 DEF Cycle, Edge, Stages, ExuFlush
    <3> QED BY <3>1, <3>3
  <2>3. CASE captured /\ csrState = "IDLE"
    <3>1. ~mie /\ ~irqPending /\ ex = Bubble
      BY <1>0, <2>3 DEF Waiting, Jumping, Passed
    <3>2. Request = "NONE"
      BY <3>1, BubbleFacts DEF Request
    <3> QED BY <1>1, <2>3, <3>2 DEF Cycle, Edge, Clint
  <2>4. CASE ~captured
    <3>0. TrapCapture(jump)
      BY <1>0, <1>1, <2>4 DEF Cycle, Edge, Clint, TypeOK
    <3>1. jump
      BY <1>0, <1>1, <2>4 DEF Cycle, Edge, Clint, TypeOK
    <3>2. Request = "INTERRUPT"
      BY <3>0, <3>1 DEF TrapCapture
    <3>3. divCnt > DivSteps /\ breakAddr' = target /\ npc' = target /\ irqPending'
      BY <1>0, <2>1, <3>0, <3>2, CaptureFacts
    <3>4. ex' = Bubble /\ jump1'
      BY <3>1 DEF Cycle, Edge, Stages, ExuFlush, JumpFlag
    <3>5. divCnt' > DivSteps
      <4>1. ex.kind # "div"
        BY <3>1 DEF Cycle
      <4> QED BY <1>0, <3>3, <4>1, DivAssumption DEF TypeOK, Cycle, Edge, Divider
    <3> QED BY <3>3, <3>4, <3>5
  <2> QED BY <2>1, <2>2, <2>3, <2>4 DEF Rest
<1>2. ASSUME csrState' = "IDLE", captured'
      PROVE  intJump' /\ ~mie' /\ ~irqPending'
  <2>1. CASE Rest
    <3>1. csrState' = AfterWait(jump)
      BY <2>1 DEF Rest, Cycle, Edge, Clint, NextCsrState
    <3>2. csrState = "IDLE" /\ Request \in {"NONE", "MRET"}
      BY <1>2, <2>1, <3>1, <1>0, RestNext DEF Rest, AfterWait, TrapReady, TrapCapture, Request
    <3> QED BY <1>2, <3>2 DEF Cycle, Edge, Clint
  <2>2. CASE ~Rest
    <3>1. captured /\ csrState \in {"MCAUSE", "MRET"}
      BY <1>0, <1>2, <2>2, TrapNext
    <3>2. csrState = "MCAUSE" /\ ~mie
      BY <1>0, <3>1 DEF Trapping
    <3>3. mie' = mie
      BY <1>0, <3>2, CsrNext DEF Cycle, Edge
    <3>4. intJump' /\ ~irqPending'
      BY <3>2 DEF Cycle, Edge, Clint
    <3> QED BY <3>2, <3>3, <3>4
  <2> QED BY <2>1, <2>2
<1> QED BY <1>1, <1>2 DEF Waiting

LEMMA TrappingStep ==
  ASSUME IInv, NEW jump, NEW target, Cycle(jump, target)
  PROVE  Trapping'
<1>0. TypeOK /\ Passed /\ Flow /\ Jumping /\ Waiting /\ Trapping /\ CsrFile
  BY DEF IInv, Cycle, Edge
<1>1. ASSUME csrState' = "MRET" PROVE ~captured' /\ mepc' = npc'
  <2>1. Rest /\ ex.kind = "mret"
    BY <1>0, <1>1, TrapNext, RestNext
  <2>2. npc' = mepc /\ mepc' = mepc
    BY <1>0, <2>1, ExFacts, RestGoesOn, CsrNext
  <2>3. Request = "MRET" /\ ~TrapCapture(jump) /\ ex # Bubble
    BY <2>1, BubbleFacts DEF Request, TrapCapture
  <2>4. csrState = "WAIT" => ~captured
    BY <1>0, <2>3 DEF Waiting
  <2>5. ~captured'
    BY <1>0, <2>1, <2>3, <2>4 DEF Rest, TypeOK, Cycle, Edge, Clint
  <2> QED BY <2>2, <2>5
<1>2. ASSUME csrState' = "MEPC"
      PROVE  IF intHold1' THEN npc' = Mtvec /\ mepc' = breakAddr' ELSE breakAddr' = npc'
  <2>1. CASE Rest
    <3>1. ~intHold1'
      BY <2>1 DEF Rest, IntHold, Cycle, Edge, Stages
    <3>2. Request = "INTERRUPT" /\ (TrapCapture(jump) \/ (csrState = "WAIT" /\ captured))
      BY <1>0, <1>2, <2>1, RestNext
    <3>3. breakAddr' = npc'
      BY <1>0, <2>1, <3>2, CaptureFacts, CapturedFacts
    <3> QED BY <3>1, <3>3
  <2>2. CASE ~Rest
    <3>1. csrState = "MEPC" /\ npc' = Mtvec /\ breakAddr' = breakAddr /\ intHold1' = TRUE
      BY <1>0, <1>2, <2>2, TrapNext
    <3> QED BY <1>0, <3>1, CsrNext
  <2> QED BY <2>1, <2>2
<1>3. ASSUME csrState' = "MSTATUS" PROVE npc' = Mtvec
  <2>1. ~Rest /\ csrState = "MEPC"
    BY <1>0, <1>3, TrapNext, RestNext
  <2> QED BY <1>0, <2>1, TrapNext
<1>4. ASSUME csrState' = "MCAUSE" PROVE npc' = Mtvec /\ ~mie'
  <2>1. ~Rest /\ csrState = "MSTATUS"
    BY <1>0, <1>4, TrapNext, RestNext
  <2> QED BY <1>0, <2>1, TrapNext, CsrNext DEF Trapping
<1> QED BY <1>1, <1>2, <1>3, <1>4 DEF Trapping

LEMMA InitInv ==
  ASSUME ResetWord, Init
  PROVE  IInv
<1>0. word \in {Bubble, [kind |-> "alu", at |-> 0]} /\ kept = Bubble /\ ex = Bubble
  BY DEF Init, ResetWord
<1>1. TypeOK
  <2>1. [kind |-> "alu", at |-> 0] \in Slot
    BY AddrFacts DEF Slot, Kind
  <2>2. word \in Slot /\ kept \in Slot /\ ex \in Slot
    BY <1>0, <2>1, BubbleFacts
  <2>3. divCnt \in 0 .. DivSteps + 1
    BY DivAssumption DEF Init
  <2> QED BY <2>2, <2>3, AddrFacts DEF Init, TypeOK
<1>2. Passed
  BY DivAssumption DEF Init, Passed, DivRunning
<1>3. Flow
  BY DEF Init, Flow, AtReset, ResetWord
<1>4. Jumping /\ Waiting /\ Trapping
  BY DEF Init, Jumping, Waiting, Trapping
<1> QED BY <1>1, <1>2, <1>3, <1>4 DEF IInv

LEMMA StepInv ==
  ASSUME IInv, [Next]_vars
  PROVE  IInv'
<1>1. CASE UNCHANGED vars
  BY <1>1 DEF vars, pipe, clint, csr, history, IInv, TypeOK, Passed, Flow, Jumping, Waiting,
     Trapping, AtReset, AtTarget, Streaming, Resting, Ahead, Effective, IntHold, Boot, Rest,
     DivRunning
<1>2. ASSUME NEW jump, NEW target, Cycle(jump, target) PROVE IInv'
  BY <1>2, TypeStep, PassedStep, FlowStep, JumpingStep, WaitingStep, TrappingStep DEF IInv
<1> QED BY <1>1, <1>2, StepIsCycle

LEMMA IInvAlways ==
  ASSUME ResetWord
  PROVE  Spec => []IInv
<1>1. Init => IInv
  BY InitInv
<1>2. IInv /\ [Next]_vars => IInv'
  BY StepInv
<1> QED BY <1>1, <1>2, PTL DEF Spec

-----------------------------------------------------------------------------
(* What follows                                                            *)

\* For every program and every mix of holds, jumps and traps: the instruction that
\* takes effect is the next one of the program, the program counter is two words
\* ahead of it, and a trap saves the address of the first instruction not executed.
THEOREM PipelineIsExact ==
  ASSUME ResetWord
  PROVE  Spec => []PipelineExact
<1>1. ASSUME IInv PROVE InOrder
  <2>1. SUFFICES ASSUME Effective, ~Boot
                 PROVE  ex.at = npc /\ pc = Next1(Next1(ex.at))
    BY DEF InOrder
  <2>2. Rest /\ ex # Bubble
    BY <2>1 DEF Effective, IntHold, Rest
  <2>3. Streaming /\ ex.at = npc
    BY <1>1, <2>1, <2>2, ExFacts DEF IInv
  <2> QED BY <2>1, <2>3 DEF Streaming, Ahead
<1>2. IInv => PreciseTrap
  BY DEF IInv, Trapping, PreciseTrap, Entered
<1>3. IInv => PipelineExact
  BY <1>1, <1>2 DEF IInv, PipelineExact
<1> QED BY <1>3, IInvAlways, PTL

\* No trap is entered before the program has set MIE again after the last one, because
\* ecall never enters one and a request counts only while MIE is set.
THEOREM TrapsDoNotNest ==
  ASSUME ResetWord
  PROVE  Spec => []NoNestedTrap
<1> DEFINE Armed == irqPending => armed
<1>1. Init => Armed /\ NoNestedTrap
  BY DEF Init, NoNestedTrap
<1>2. ASSUME IInv, Armed, NoNestedTrap, [Next]_vars PROVE Armed' /\ NoNestedTrap'
  <2>1. CASE UNCHANGED vars
    BY <1>2, <2>1 DEF vars, clint, history, NoNestedTrap
  <2>2. ASSUME NEW jump, NEW target, Cycle(jump, target) PROVE Armed' /\ NoNestedTrap'
    <3>1. /\ irqPending' = (csrState # "MCAUSE" /\ (irqPending \/ (mie /\ IrqVld)))
          /\ armed' = (csrState # "MCAUSE" /\ (armed \/ mie))
      BY <2>2 DEF Cycle, Edge, Clint, History
    <3>2. Armed'
      BY <1>2, <3>1
    <3>3. ASSUME csrState' = "MEPC" PROVE armed'
      <4>1. CASE Rest
        <5>1. Request = "INTERRUPT"
          BY <1>2, <2>2, <3>3, <4>1, RestNext DEF IInv
        <5>2. irqPending \/ mie
          BY <5>1 DEF Request
        <5> QED BY <1>2, <3>1, <4>1, <5>2 DEF Rest
      <4>2. CASE ~Rest
        <5>1. csrState = "MEPC"
          BY <1>2, <2>2, <3>3, <4>2, TrapNext DEF IInv
        <5> QED BY <1>2, <3>1, <5>1 DEF NoNestedTrap
      <4> QED BY <4>1, <4>2
    <3> QED BY <3>2, <3>3 DEF NoNestedTrap
  <2> QED BY <1>2, <2>1, <2>2, StepIsCycle
<1> QED BY <1>1, <1>2, IInvAlways, PTL DEF Spec

-----------------------------------------------------------------------------
(* Refinement of the sequential machine                                    *)

\* A cycle in which the controller leaves the pipeline alone.
LEMMA RestIsArch ==
  ASSUME IInv, Rest, NEW jump, NEW target, Cycle(jump, target)
  PROVE  [Arch!Next]_(Arch!vars)
<1>0. TypeOK /\ Passed /\ Flow /\ Jumping /\ CsrFile
  BY DEF IInv, Cycle, Edge
<1>1. /\ Effective <=> ex # Bubble
      /\ Effective => IF Boot THEN ex.kind = "alu" ELSE ex.at = npc
      /\ jump => npc' = target /\ ex # Bubble
      /\ ex.kind = "mret" => npc' = mepc
      /\ ~jump /\ ex.kind # "mret" => npc' = Ahead
  BY <1>0, ExFacts, RestGoesOn
<1>2. SeenMie = mie /\ SeenMpie = mpie
  BY DEF SeenMie, SeenMpie, Entered, Rest
<1>3. CASE ex.kind = "mret"
  <2>1. csrState' = "MRET"
    <3>1. Request # "INTERRUPT"
      BY <1>3 DEF Request
    <3> QED BY <1>0, <1>3, <3>1, RestNext
  <2>2. mie' = mie /\ mpie' = mpie /\ mepc' = mepc /\ npc' = mepc
    BY <1>0, <1>1, <1>3, CsrNext
  <2>3. SeenMie' = mpie /\ SeenMpie' = FALSE
    BY <2>1, <2>2 DEF SeenMie, SeenMpie, Entered
  <2>4. Arch!Return
    BY <1>2, <2>2, <2>3 DEF Arch!Return
  <2> QED BY <2>4 DEF Arch!Next
<1>4. CASE ex.kind # "mret"
  <2>1. csrState' \in {"IDLE", "WAIT", "MEPC"} /\ ~intHold1'
    BY <1>0, <1>4, RestNext DEF Rest, IntHold, Cycle, Edge, Stages
  <2>2. SeenMie' = mie' /\ SeenMpie' = mpie'
    BY <2>1 DEF SeenMie, SeenMpie, Entered
  <2>3. CASE ex = Bubble \/ Boot
    <3>1. ex.kind \notin {"status", "epc", "jump", "branch"}
      BY <1>1, <2>3, BubbleFacts
    <3>2. ~jump /\ Ahead = npc
      BY <1>1, <2>3, <3>1 DEF Cycle, Ahead
    <3>3. npc' = npc /\ mie' = mie /\ mpie' = mpie /\ mepc' = mepc
      BY <1>0, <1>1, <1>4, <3>1, <3>2, CsrNext
    <3> QED BY <1>2, <2>2, <3>3 DEF Arch!vars
  <2>4. CASE ex # Bubble /\ ~Boot
    <3>1. npc' \in {Next1(npc)} \cup Target /\ (~jump => npc' = Next1(npc))
      BY <1>1, <1>4, <2>4 DEF Cycle, Ahead
    <3>2. Arch!Next1(npc) = Next1(npc) /\ Arch!Addr = Addr
      BY DEF Arch!Next1, Next1, Arch!Addr, Addr
    <3>3. CASE ex.kind = "status"
      <4>1. ~jump /\ mie' \in BOOLEAN /\ mpie' \in BOOLEAN /\ mepc' = mepc
        BY <1>0, <3>3, CsrNext DEF Cycle
      <4>2. Arch!WriteStatus
        BY <2>2, <3>1, <3>2, <4>1 DEF Arch!WriteStatus
      <4> QED BY <4>2 DEF Arch!Next
    <3>4. CASE ex.kind = "epc"
      <4>1. ~jump /\ mepc' \in Addr /\ mie' = mie /\ mpie' = mpie
        BY <1>0, <3>4, CsrNext DEF Cycle
      <4>2. Arch!WriteEpc
        BY <1>2, <2>2, <3>1, <3>2, <4>1 DEF Arch!WriteEpc
      <4> QED BY <4>2 DEF Arch!Next
    <3>5. CASE ex.kind \notin {"status", "epc"}
      <4>1. mie' = mie /\ mpie' = mpie /\ mepc' = mepc
        BY <1>0, <3>5, CsrNext
      <4>2. Arch!Execute
        BY <1>2, <2>2, <3>1, <3>2, <4>1 DEF Arch!Execute
      <4> QED BY <4>2 DEF Arch!Next
    <3> QED BY <3>3, <3>4, <3>5
  <2> QED BY <2>3, <2>4
<1> QED BY <1>3, <1>4

\* A cycle of a trap or of mret: the first one of a trap is the interrupt, and the
\* program sees none of the others.
LEMMA TrapIsArch ==
  ASSUME IInv, ~Rest, NEW jump, NEW target, Cycle(jump, target)
  PROVE  [Arch!Next]_(Arch!vars)
<1>0. TypeOK /\ Trapping /\ CsrFile
  BY DEF IInv, Cycle, Edge
<1>1. /\ csrState = "MEPC" => csrState' \in {"MEPC", "MSTATUS"}
      /\ csrState = "MSTATUS" => csrState' = "MCAUSE"
      /\ csrState \in {"MCAUSE", "MRET"} => csrState' = "IDLE"
      /\ npc' = IF csrState = "MEPC" THEN Mtvec ELSE npc
      /\ breakAddr' = breakAddr /\ intHold1' = TRUE
      /\ csrState \in {"MEPC", "MSTATUS", "MCAUSE", "MRET"}
  BY <1>0, TrapNext
<1>2. CASE csrState = "MEPC"
  <2>1. mepc' = breakAddr /\ mie' = mie /\ mpie' = mpie /\ npc' = Mtvec
    BY <1>0, <1>1, <1>2, CsrNext
  <2>2. SeenMie' = FALSE /\ SeenMpie' = mie
    BY <1>1, <1>2, <2>1 DEF SeenMie, SeenMpie, Entered
  <2>3. CASE intHold1
    <3>1. SeenMie = FALSE /\ SeenMpie = mie /\ npc = Mtvec /\ mepc = breakAddr
      BY <1>0, <1>2, <2>3 DEF SeenMie, SeenMpie, Entered, Trapping
    <3> QED BY <2>1, <2>2, <3>1 DEF Arch!vars
  <2>4. CASE ~intHold1
    <3>1. SeenMie = mie /\ breakAddr = npc
      BY <1>0, <1>2, <2>4 DEF SeenMie, Entered, Trapping
    <3>2. Arch!Interrupt
      BY <2>1, <2>2, <3>1 DEF Arch!Interrupt
    <3> QED BY <3>2 DEF Arch!Next
  <2> QED BY <2>3, <2>4
<1>3. CASE csrState = "MSTATUS"
  <2>1. mie' = FALSE /\ mpie' = mie /\ mepc' = mepc /\ npc' = npc /\ csrState' = "MCAUSE"
    BY <1>0, <1>1, <1>3, CsrNext
  <2>2. SeenMie = FALSE /\ SeenMpie = mie /\ SeenMie' = FALSE /\ SeenMpie' = mie
    BY <1>3, <2>1 DEF SeenMie, SeenMpie, Entered
  <2> QED BY <2>1, <2>2 DEF Arch!vars
<1>4. CASE csrState = "MCAUSE"
  <2>1. mie' = mie /\ mpie' = mpie /\ mepc' = mepc /\ npc' = npc /\ csrState' = "IDLE"
    BY <1>0, <1>1, <1>4, CsrNext
  <2>2. SeenMie = mie /\ SeenMpie = mpie /\ SeenMie' = mie /\ SeenMpie' = mpie
    BY <1>4, <2>1 DEF SeenMie, SeenMpie, Entered
  <2> QED BY <2>1, <2>2 DEF Arch!vars
<1>5. CASE csrState = "MRET"
  <2>1. mie' = mpie /\ mpie' = FALSE /\ mepc' = mepc /\ npc' = npc /\ csrState' = "IDLE"
    BY <1>0, <1>1, <1>5, CsrNext
  <2>2. SeenMie = mpie /\ SeenMpie = FALSE /\ SeenMie' = mpie /\ SeenMpie' = FALSE
    BY <1>5, <2>1 DEF SeenMie, SeenMpie, Entered
  <2> QED BY <2>1, <2>2 DEF Arch!vars
<1> QED BY <1>1, <1>2, <1>3, <1>4, <1>5

\* A program cannot tell the pipelined core from a machine that executes one
\* instruction after the other, takes interrupts between two of them in one step and
\* returns from them in one step.
THEOREM CoreIsSequential ==
  ASSUME ResetWord
  PROVE  Spec => LooksSequential
<1>1. Init => Arch!Init
  BY DEF Init, Arch!Init, SeenMie, SeenMpie, Entered
<1>2. IInv /\ [Next]_vars => [Arch!Next]_(Arch!vars)
  <2>1. SUFFICES ASSUME IInv, [Next]_vars PROVE [Arch!Next]_(Arch!vars)
    OBVIOUS
  <2>2. CASE UNCHANGED vars
    BY <2>2 DEF vars, pipe, clint, csr, history, Arch!vars, SeenMie, SeenMpie, Entered
  <2>3. ASSUME NEW jump, NEW target, Cycle(jump, target) PROVE [Arch!Next]_(Arch!vars)
    BY <2>1, <2>3, RestIsArch, TrapIsArch
  <2> QED BY <2>1, <2>2, <2>3, StepIsCycle
<1> QED BY <1>1, <1>2, IInvAlways, PTL DEF Spec, LooksSequential, Arch!Spec

-----------------------------------------------------------------------------
(* The write port of the register file                                     *)

\* The discipline: no division where a jump leads, and neither a division nor a load
\* behind mret.
Discipline ==
  /\ \A a \in Target : "div" \notin Code[a]
  /\ \A a \in Addr : "mret" \in Code[a] => Code[Next1(a)] \cap {"div", "load"} = {}

\* Every word is one of the program.
OfProgram == \A s \in {word, kept, ex} : s = Bubble \/ s.kind \in Code[s.at]

\* A squashed word in EX starts no division, and no load whose result would come
\* when the controller has let go.
Squashed ==
  /\ ~Rest => ex.kind # "div"
  /\ csrState \in {"MCAUSE", "MRET"} => ex.kind # "load"
  /\ csrState = "WAIT" /\ captured => npc \in Target

\* A load that has been executed is read in the next cycle.
Loading ==
  /\ load1 => ex = Bubble /\ divCnt > DivSteps
  /\ loadDue => load1 /\ wb1 /\ Rest
  /\ load1 /\ Rest => loadDue

\* Only divisions of the program run, and no trap begins while they do.
Dividing == divCnt <= DivSteps => divDue /\ Rest /\ ~intJump

WInv == OfProgram /\ Squashed /\ Loading /\ Dividing

\* Whether an interrupt waits, captured, in the next cycle.
LEMMA WaitsOn ==
  ASSUME IInv, NEW jump, NEW target, Cycle(jump, target), csrState' = "WAIT", captured'
  PROVE  \/ csrState = "WAIT" /\ captured
         \/ Rest /\ TrapCapture(jump) /\ Request = "INTERRUPT"
<1>1. Rest
  BY TrapNext DEF IInv
<1>2. CASE captured /\ csrState = "IDLE"
  <2>1. ~mie /\ ~irqPending /\ ex.kind = "bubble"
    BY <1>2, BubbleFacts DEF IInv, Waiting, Jumping, Passed
  <2>2. Request = "NONE"
    BY <2>1 DEF Request
  <2> QED BY <1>2, <2>2 DEF Cycle, Edge, Clint
<1>3. CASE ~captured
  <2>1. TrapCapture(jump)
    BY <1>3 DEF Cycle, Edge, Clint, IInv, TypeOK
  <2>2. jump
    BY <1>3 DEF Cycle, Edge, Clint, IInv, TypeOK
  <2>3. Request = "INTERRUPT"
    BY <2>1, <2>2 DEF TrapCapture
  <2> QED BY <1>1, <2>1, <2>3
<1> QED BY <1>1, <1>2, <1>3 DEF Rest

\* Without a jump in EX and with nothing captured, no trap begins.
LEMMA StaysAtRest ==
  ASSUME IInv, Rest, NEW jump, NEW target, Cycle(jump, target), ~jump, ex.kind # "mret",
         ~(csrState = "WAIT" /\ captured)
  PROVE  Rest' /\ ~intJump'
<1>1. Request = "INTERRUPT" => ~TrapCapture(jump)
  BY DEF TrapCapture
<1>2. Rest'
  BY <1>1, RestNext DEF IInv, Rest
<1>3. ~intJump'
  BY DEF Cycle, Edge, Clint, Rest
<1> QED BY <1>2, <1>3

LEMMA OfProgramStep ==
  ASSUME IInv, OfProgram, NEW jump, NEW target, Cycle(jump, target)
  PROVE  OfProgram'
<1>1. word'.kind \in Code[word'.at]
  BY FetchFacts DEF IInv, TypeOK, Cycle, Edge
<1>2. Decoded \in {word, kept}
  BY DEF Decoded
<1>3. kept' \in {Bubble, word, kept} /\ ex' \in {Bubble, word, kept}
  BY <1>2 DEF Cycle, Edge, Stages
<1> QED BY <1>1, <1>3 DEF OfProgram

LEMMA SquashedStep ==
  ASSUME Discipline, IInv, OfProgram, Squashed, NEW jump, NEW target, Cycle(jump, target)
  PROVE  Squashed'
<1>0. TypeOK /\ Passed /\ Flow /\ Jumping /\ Waiting
  BY DEF IInv
<1>1. ASSUME csrState' = "WAIT", captured' PROVE npc' \in Target
  <2>1. CASE csrState = "WAIT" /\ captured
    BY <1>0, <2>1, CapturedFacts DEF Squashed
  <2>2. CASE Rest /\ TrapCapture(jump) /\ Request = "INTERRUPT"
    <3>1. TrapCapture(jump)
      BY <2>2
    <3>2. npc' = target /\ target \in Target
      BY <1>0, <2>2, <3>1, CaptureFacts DEF Cycle
    <3> QED BY <3>2
  <2> QED BY <1>1, <2>1, <2>2, WaitsOn
<1>2. CASE ~Rest
  <2>1. ex'.kind = "bubble"
    BY <1>0, <1>2, TrapNext, BubbleFacts
  <2> QED BY <1>1, <2>1 DEF Squashed
<1>3. CASE Rest /\ csrState' = "MRET"
  <2>1. ex.kind = "mret" /\ ex # Bubble
    BY <1>0, <1>3, RestNext, BubbleFacts
  <2>2. Streaming /\ ex.at = npc /\ ~Boot /\ Effective
    BY <1>0, <1>3, <2>1, ExFacts
  <2>3. word.at = Next1(ex.at) /\ word # Bubble /\ Decoded = word
    BY <2>2 DEF Streaming, Ahead, Decoded
  <2>4. "mret" \in Code[ex.at] /\ word.kind \in Code[Next1(ex.at)] /\ ex.at \in Addr
    BY <1>0, <2>1, <2>3, SlotFacts DEF OfProgram, TypeOK
  <2>5. word.kind \notin {"div", "load"}
    BY <2>4 DEF Discipline
  <2>6. ex' \in {Bubble, word}
    BY <2>3 DEF Cycle, Edge, Stages
  <2>7. ex'.kind \notin {"div", "load"}
    BY <2>5, <2>6, BubbleFacts
  <2> QED BY <1>1, <2>7 DEF Squashed
<1>4. CASE Rest /\ csrState' = "MEPC"
  <2>1. ex'.kind # "div"
    <3>1. CASE Request = "INTERRUPT" /\ TrapCapture(jump)
      <4>1. jump
        BY <3>1 DEF TrapCapture
      <4>2. ex' = Bubble
        BY <4>1 DEF Cycle, Edge, Stages, ExuFlush, JumpFlag
      <4> QED BY <4>2, BubbleFacts
    <3>2. CASE csrState = "WAIT" /\ captured
      <4>1. npc \in Target /\ ex = Bubble /\ Ahead = npc /\ npc \in Addr
        BY <1>0, <1>4, <3>2, ExFacts DEF Squashed, Waiting, Ahead, TypeOK
      <4>2. "div" \notin Code[npc]
        BY <4>1 DEF Discipline
      <4>3. AtReset \/ AtTarget \/ Streaming \/ Resting
        BY <1>0, <1>4, <3>2 DEF Flow, Jumping
      <4>4. ex' = Bubble \/ ex' = Decoded
        BY DEF Cycle, Edge, Stages
      <4>5. CASE AtReset
        <5>1. Decoded = word /\ word.kind \in {"alu", "bubble"}
          BY <4>5, BubbleFacts DEF AtReset, Decoded
        <5> QED BY <4>4, <5>1, BubbleFacts
      <4>6. CASE AtTarget
        BY <4>6, BubbleFacts DEF AtTarget, Cycle, Edge, Stages, ExuFlush
      <4>7. CASE Streaming
        <5>1. Decoded = word /\ word.kind \in Code[npc]
          BY <4>1, <4>7 DEF Streaming, Decoded, OfProgram
        <5> QED BY <4>2, <4>4, <5>1, BubbleFacts
      <4>8. CASE Resting
        <5>1. Decoded = kept /\ (kept = Bubble \/ kept.kind \in Code[npc])
          BY <4>8 DEF Resting, Decoded, OfProgram
        <5> QED BY <4>2, <4>4, <5>1, BubbleFacts
      <4> QED BY <4>3, <4>5, <4>6, <4>7, <4>8
    <3> QED BY <1>0, <1>4, <3>1, <3>2, RestNext
  <2> QED BY <1>1, <1>4, <2>1 DEF Squashed
<1>5. CASE Rest /\ csrState' \in {"IDLE", "WAIT"}
  BY <1>1, <1>5 DEF Squashed, Rest
<1> QED BY <1>0, <1>2, <1>3, <1>4, <1>5, RestNext

LEMMA LoadingStep ==
  ASSUME IInv, Squashed, Loading, NEW jump, NEW target, Cycle(jump, target)
  PROVE  Loading'
<1>0. TypeOK /\ Passed /\ Flow /\ Jumping /\ Waiting
  BY DEF IInv
<1>1. /\ load1' = (ex.kind = "load") /\ wb1' = WritesBack
      /\ loadDue' = (Effective /\ ex.kind = "load")
  BY DEF Cycle, Edge, Stages, History
<1>2. ASSUME ex.kind = "load" PROVE ex' = Bubble /\ divCnt' > DivSteps /\ wb1'
  <2>1. ex # Bubble
    BY <1>2, BubbleFacts
  <2>2. divCnt > DivSteps /\ WritesBack
    BY <1>0, <1>2, <2>1, InEx DEF HasDest
  <2>3. divCnt' > DivSteps
    BY <1>0, <1>2, <2>2, DivAssumption DEF TypeOK, Cycle, Edge, Divider
  <2>4. ex' = Bubble
    BY <1>2 DEF Cycle, Edge, Stages, ExuFlush, ExuHold, MemEn
  <2> QED BY <1>1, <2>2, <2>3, <2>4
<1>3. ASSUME Effective, ex.kind = "load" PROVE Rest'
  <2>1. Rest /\ ~jump /\ ex # Bubble
    BY <1>3 DEF Effective, IntHold, Rest, Cycle
  <2>2. ~(csrState = "WAIT" /\ captured)
    BY <1>0, <2>1 DEF Waiting
  <2> QED BY <1>3, <2>1, <2>2, StaysAtRest
<1>4. ASSUME ex.kind = "load", Rest' PROVE Effective
  <2>1. Rest
    BY <1>0, <1>4, TrapNext DEF Squashed, Rest
  <2> QED BY <1>4, <2>1, BubbleFacts DEF Effective, IntHold, Rest
<1> QED BY <1>1, <1>2, <1>3, <1>4 DEF Loading

LEMMA DividingStep ==
  ASSUME IInv, Squashed, Dividing, NEW jump, NEW target, Cycle(jump, target)
  PROVE  Dividing'
<1>0. TypeOK /\ Passed /\ Flow /\ Jumping /\ Waiting
  BY DEF IInv
<1>1. SUFFICES ASSUME divCnt' <= DivSteps PROVE divDue' /\ Rest' /\ ~intJump'
  BY DEF Dividing
<1>2. CASE ex.kind = "div"
  <2>1. Rest /\ ex # Bubble /\ ~jump
    BY <1>2, BubbleFacts DEF Squashed, Cycle
  <2>2. divDue'
    BY <1>2, <2>1 DEF Cycle, Edge, History, Effective, IntHold, Rest
  <2>3. ~(csrState = "WAIT" /\ captured)
    BY <1>0, <2>1 DEF Waiting
  <2> QED BY <1>2, <2>1, <2>2, <2>3, StaysAtRest
<1>3. CASE ex.kind # "div"
  <2>1. divCnt < DivSteps
    BY <1>0, <1>1, <1>3, DivAssumption DEF TypeOK, Cycle, Edge, Divider
  <2>2. divDue /\ Rest /\ ex = Bubble /\ ~DivDone
    BY <1>0, <2>1, DivAssumption DEF TypeOK, Dividing, Passed, DivDone
  <2>3. divDue'
    BY <1>3, <2>2 DEF Cycle, Edge, History
  <2>4. ~(csrState = "WAIT" /\ captured)
    BY <1>0, <2>1, DivAssumption DEF Waiting, TypeOK
  <2> QED BY <2>2, <2>3, <2>4, BubbleFacts, StaysAtRest DEF Cycle
<1> QED BY <1>2, <1>3

LEMMA WritesFollow ==
  ASSUME IInv, WInv
  PROVE  WritesExact
<1>0. TypeOK /\ Passed /\ Loading /\ Dividing /\ (IntHold <=> ~Rest)
  BY DEF IInv, WInv, IntHold, Rest
<1>1. ASSUME Effective, ex.kind \in HasDest \ {"load", "div"} PROVE WritesExu /\ ~DivDone
  <2>1. ex # Bubble /\ ~IntHold
    BY <1>1 DEF Effective
  <2>2. WritesBack /\ ~DivDone /\ ~load1
    BY <1>0, <1>1, <2>1, InEx DEF Loading
  <2> QED BY <1>1, <2>1, <2>2 DEF WritesExu
<1>2. loadDue => WritesLoad
  BY <1>0, BubbleFacts DEF Loading, WritesLoad, MemEn
<1>3. ASSUME divDue, DivDone PROVE WritesExu
  <2>1. ~(divCnt > DivSteps) /\ divCnt <= DivSteps
    BY <1>0, <1>3, DivAssumption DEF DivDone
  <2>2. ex = Bubble /\ Rest /\ ~load1
    BY <1>0, <2>1 DEF Passed, Dividing, Loading
  <2> QED BY <1>0, <1>3, <2>2, BubbleFacts DEF WritesExu, WritesBack
<1>4. WritesLoad => loadDue
  BY <1>0 DEF Loading, WritesLoad
<1>5. ASSUME WritesExu PROVE IF DivDone THEN divDue ELSE Effective
  <2>1. CASE DivDone
    BY <1>0, <2>1, DivAssumption DEF DivDone, Dividing
  <2>2. CASE ~DivDone
    BY <1>5, <2>2, BubbleFacts DEF WritesExu, WritesBack, HasDest, Effective
  <2> QED BY <2>1, <2>2
<1> QED BY <1>1, <1>2, <1>3, <1>4, <1>5 DEF WritesExact, NoLostResult, NoStrayWrite

\* The result of every instruction that takes effect is written to the register file,
\* once, from EX, from memory or from the divider, and squashed instructions write
\* nothing.
THEOREM ResultsWritten ==
  ASSUME ResetWord, Discipline
  PROVE  Spec => []WritesExact
<1>1. ASSUME Init PROVE WInv
  <2>1. OfProgram
    BY <1>1 DEF Init, OfProgram
  <2>2. Squashed /\ Loading /\ Dividing
    BY <1>1, BubbleFacts, DivAssumption DEF Init, Squashed, Loading, Dividing, Rest
  <2> QED BY <2>1, <2>2 DEF WInv
<1>2. ASSUME IInv, WInv, [Next]_vars PROVE WInv'
  <2>1. CASE UNCHANGED vars
    BY <1>2, <2>1 DEF vars, pipe, clint, csr, history, WInv, OfProgram, Squashed, Loading,
       Dividing, Rest
  <2>2. ASSUME NEW jump, NEW target, Cycle(jump, target) PROVE WInv'
    BY <1>2, <2>2, OfProgramStep, SquashedStep, LoadingStep, DividingStep DEF WInv
  <2> QED BY <1>2, <2>1, <2>2, StepIsCycle
<1> QED BY <1>1, <1>2, WritesFollow, IInvAlways, PTL DEF Spec
=============================================================================
