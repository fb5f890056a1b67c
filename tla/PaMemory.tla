------------------------------ MODULE PaMemory ------------------------------
(***************************************************************************)
(* Loads and stores of the core on a word of its memory, clock by clock     *)
(* (rtl/core/pa_core_top.v, pa_core_mau.v, rtl/perips/pa_perips_tcm.v): the *)
(* address and the data of an access are there while it is in EX, a load    *)
(* returns a clock later, and what that needs is copied.  A byte has one    *)
(* bit here, a word four bytes; accesses are aligned.                       *)
(***************************************************************************)
EXTENDS Naturals

CONSTANT HighMul  \* TRUE: a store may come right behind mulhu or mulhsu

\* What the constant must be; the module that instantiates this one assumes it.
MemoryConstants == HighMul \in BOOLEAN

VARIABLES
  ram, douta,    \* the block memory and its output register
  ex,            \* exu_inst_func, the address and the second register
  copied,        \* subop_sign_1r, subop_size_1r, op_load_1r, mem_en_flag_1r, mem_addr_1r
  memory, value  \* history: the memory, and what the load returns, if one access
                 \* follows the other

vars == <<ram, douta, ex, copied, memory, value>>

Lane == 0..3
Word == [Lane -> 0..1]
Zero == [i \in Lane |-> 0]

\* The two bits of a size; both are set behind mulhu.
ByteSize == {"byte"}
HalfSize == {"half"}
WordSize == {}

Sizes == {ByteSize, HalfSize, WordSize}
Aligned(size) ==
  CASE size = ByteSize -> Lane [] size = HalfSize -> {0, 2} [] size = WordSize -> {0}

\* The bits of a function that loads and stores look at.
Func(op, size, unsigned, at, data) ==
  [op |-> op, size |-> size, unsigned |-> unsigned, at |-> at, data |-> data]

Bubble == Func("other", WordSize, FALSE, 0, Zero)

HighMuls == {Func("mul", size, TRUE, 0, Zero) : size \in {ByteSize \union HalfSize, HalfSize}}

LoadFuncs ==
  {Func("load", size, unsigned, at, Zero) : size \in Sizes, unsigned \in BOOLEAN, at \in Lane}

StoreFuncs ==
  {Func("store", size, FALSE, at, data) : size \in Sizes, at \in Lane, data \in Word}

Instructions ==
  {Bubble} \union HighMuls \union {f \in LoadFuncs \union StoreFuncs : f.at \in Aligned(f.size)}

Init ==
  /\ ram \in Word /\ douta = Zero /\ memory = ram /\ value = Zero
  /\ ex = Bubble /\ copied = Bubble

-----------------------------------------------------------------------------
(* pa_core_top.v *)

MemEn(f) == f.op \in {"load", "store"}

SubopSize == ex.size \union copied.size
SubopUnsigned == ex.unsigned \/ copied.unsigned

MemAddr == IF MemEn(ex) THEN ex.at ELSE copied.at

(* pa_core_mau.v *)

\* The data of a store, in the lanes of its address.
StoreData ==
  LET Shifted(n) == [i \in Lane |-> IF i < n THEN 0 ELSE ex.data[i - n]]
  IN CASE SubopSize = ByteSize -> Shifted(MemAddr)
       [] SubopSize = HalfSize -> Shifted(2 * (MemAddr \div 2))
       [] SubopSize = WordSize -> ex.data
       [] OTHER -> Zero

\* The byte or the half that is loaded, with its sign or with zeros.
LoadData ==
  LET Extended(first, last) ==
        [i \in Lane |-> CASE first + i <= last -> douta[first + i]
                          [] first + i > last /\ SubopUnsigned -> 0
                          [] first + i > last /\ ~SubopUnsigned -> douta[last]]
      half == 2 * (MemAddr \div 2)
  IN CASE SubopSize = ByteSize -> Extended(MemAddr, MemAddr)
       [] SubopSize = HalfSize -> Extended(half, half + 1)
       [] SubopSize = WordSize -> douta
       [] OTHER -> Zero

(* pa_perips_tcm.v *)

AddrMask ==
  CASE MemAddr = 0 -> {0} \union (IF SubopSize = HalfSize THEN {1} ELSE {})
                          \union (IF SubopSize = WordSize THEN Lane ELSE {})
    [] MemAddr = 2 -> {2} \union (IF SubopSize = HalfSize THEN {3} ELSE {})
    [] OTHER -> {MemAddr}

Written ==
  [i \in Lane |-> IF ex.op = "store" /\ i \in AddrMask THEN StoreData[i] ELSE ram[i]]

\* The load that has left EX returns now.
Returns == copied.op = "load" /\ ~MemEn(ex)

-----------------------------------------------------------------------------
(* The machine without a pipeline *)

\* The lanes of an access.
Extent(f) ==
  f.at .. f.at + (CASE f.size = ByteSize -> 0
                    [] f.size = HalfSize -> 1
                    [] f.size = WordSize -> 3)

StoredTo(m, f) == [i \in Lane |-> IF i \in Extent(f) THEN f.data[i - f.at] ELSE m[i]]

LoadedFrom(m, f) ==
  LET top == CHOOSE i \in Extent(f) : \A j \in Extent(f) : j <= i
  IN [i \in Lane |-> CASE f.at + i \in Extent(f) -> m[f.at + i]
                       [] f.at + i \notin Extent(f) /\ f.unsigned -> 0
                       [] f.at + i \notin Extent(f) /\ ~f.unsigned -> m[top]]

-----------------------------------------------------------------------------
\* A load or a store holds the pipeline, and a bubble follows.
Clock ==
  /\ ram' = Written /\ douta' = Written
  /\ copied' = ex
  /\ ex' \in IF MemEn(ex) THEN {Bubble} ELSE Instructions
  /\ ~HighMul => ex.op # "mul" \/ ex'.op # "store"
  /\ memory' = IF ex.op = "store" THEN StoredTo(memory, ex) ELSE memory
  /\ value' = IF ex.op = "load" THEN LoadedFrom(memory, ex) ELSE Zero

Spec == Init /\ [][Clock]_vars

-----------------------------------------------------------------------------
\* Whatever loads and stores of any sizes follow each other, and whatever instruction is in
\* EX while a load returns, the memory and the loaded value are those of RISC-V; but for a
\* store behind mulhu or mulhsu, which share the bits of the size.
MemoryExact ==
  /\ ram = memory
  /\ Returns => LoadData = value
=============================================================================
