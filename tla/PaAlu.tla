-------------------------------- MODULE PaAlu --------------------------------
(***************************************************************************)
(* What the core computes in EX (rtl/core/pa_core_exu.v, pa_core_exu_mul.v) *)
(* on words of Width bits: sums, shifts, comparisons, products, immediates  *)
(* and the targets of jumps, made of the bits that the circuits have.       *)
(* Bitwise operations, which are those of the language, are left out.       *)
(***************************************************************************)
EXTENDS Integers

CONSTANTS
  Width,     \* 32 in the source; a power of two
  Short,     \* the bits of an immediate of the I, S and B types: 12
  Long,      \* of the J type: 20
  Operands,  \* the words that are tried
  Far        \* TRUE: jumps of any distance

Base == 2 ^ Width
Word == 0..(Base - 1)

\* What the constants must be; the module that instantiates this one assumes it.
AluConstants ==
  /\ \E n \in 2..5 : Width = 2 ^ n
  /\ 1 < Short /\ Short < Long /\ Long < Width
  /\ Operands \subseteq Word /\ Far \in BOOLEAN

VARIABLE ex  \* the instruction in EX: its operation, its operands, its immediate and its
             \* address

vars == <<ex>>

RegisterOps == {"sub", "sll", "srl", "sra", "slt", "sltu"}
Branches == {"beq", "bne", "blt", "bge", "bltu", "bgeu"}
Products == {"mul", "mulh", "mulhsu", "mulhu"}
WithShort == {"addi", "slti", "sltiu", "jalr"} \union Branches

Bubble == [op |-> "none", a |-> 0, b |-> 0, imm |-> 0, pc |-> 0]

Init == ex = Bubble

-----------------------------------------------------------------------------
(* The circuits *)

Bit(w, n) == (w \div 2 ^ n) % 2

\* {{width-n{w[bit]}}, w[n-1:0]}
SignFrom(w, n, bit, width) == w + Bit(w, bit) * (2 ^ width - 2 ^ n)

\* Minus, as the complement and one more.
Minus(w, width) == (2 ^ width - w) % 2 ^ width

Sum(x, y, width) == (x + y) % 2 ^ width

ImmSign == SignFrom(ex.imm, Short, Short - 1, Width)

Op2 == IF ex.op \in WithShort THEN ImmSign ELSE ex.b

\* The five bits of a shift amount.
Amount == Op2 % Width

Srl == ex.a \div 2 ^ Amount

\* The bits that the shift has freed, if the top bit is set.
Sra == Srl + Bit(ex.a, Width - 1) * (Base - 1 - (Base - 1) \div 2 ^ Amount)

\* iresult_subs and iresult_subu have one more bit.  Branches compare registers.
Compared == IF ex.op \in Branches THEN ex.b ELSE Op2
Subs ==
  LET Wider(w) == SignFrom(w, Width, Width - 1, Width + 1)
  IN Sum(Wider(ex.a), Minus(Wider(Compared), Width + 1), Width + 1)
Subu == Sum(ex.a, Minus(Compared, Width + 1), Width + 1)

\* Mutant: a signed comparison without the additional bit.
LessNarrow(signed) == IF signed THEN Bit(Subs, Width - 1) = 1 ELSE Bit(Subu, Width) = 1

Less(signed) == IF signed THEN Bit(Subs, Width) = 1 ELSE Bit(Subu, Width) = 1

BranchTaken ==
  CASE ex.op = "beq" -> Subs = 0
    [] ex.op = "bne" -> Subs # 0
    [] ex.op \in {"blt", "bltu"} -> Less(ex.op = "blt")
    [] ex.op = "bge" -> ~Less(TRUE) \/ Subs = 0
    [] ex.op = "bgeu" -> ~Less(FALSE)

\* The product of the magnitudes from two halves, with its sign.
Product ==
  LET u1 == ex.op = "mulhu"
      u2 == ex.op \in {"mulhu", "mulhsu"}
      negative1 == ~u1 /\ Bit(ex.a, Width - 1) = 1
      negative2 == ~u2 /\ Bit(ex.b, Width - 1) = 1
      x == IF negative1 THEN Minus(ex.a, Width) ELSE ex.a
      y == IF negative2 THEN Minus(ex.b, Width) ELSE ex.b
      half == 2 ^ (Width \div 2)
      final == Sum(x * (y \div half) * half, x * (y % half), 2 * Width)
  IN IF negative1 # negative2 THEN Minus(final, 2 * Width) ELSE final

Result ==
  CASE ex.op = "addi" -> Sum(ex.a, Op2, Width)
    [] ex.op = "sub" -> Sum(ex.a, Minus(Op2, Width), Width)
    [] ex.op = "sll" -> (ex.a * 2 ^ Amount) % Base
    [] ex.op = "srl" -> Srl
    [] ex.op = "sra" -> Sra
    [] ex.op \in {"slt", "slti"} -> IF Less(TRUE) /\ Subs # 0 THEN 1 ELSE 0
    [] ex.op \in {"sltu", "sltiu"} -> IF Less(FALSE) /\ Subu # 0 THEN 1 ELSE 0
    [] ex.op = "mul" -> Product % Base
    [] ex.op \in Products \ {"mul"} -> Product \div Base

\* The fetch is two instructions ahead: pc_i counts the address and eight.
InstAddr == Sum(ex.pc, Base - 8, Width)

\* The sign of a jal is taken from the bit of a short immediate.
JumpTarget ==
  CASE ex.op = "jal" ->
         Sum(InstAddr, (2 * SignFrom(ex.imm, Long, Short - 1, Width)) % Base, Width)
    [] ex.op = "jalr" -> 2 * (Sum(ex.a, ImmSign, Width) \div 2)
    [] ex.op \in Branches -> Sum(InstAddr, (2 * ImmSign) % Base, Width)

-----------------------------------------------------------------------------
(* RISC-V, with numbers *)

Value(w) == IF w >= Base \div 2 THEN w - Base ELSE w

Offset(n) == IF ex.imm >= 2 ^ (n - 1) THEN ex.imm - 2 ^ n ELSE ex.imm

RiscvResult ==
  CASE ex.op = "addi" -> (ex.a + Offset(Short)) % Base
    [] ex.op = "sub" -> (ex.a - ex.b) % Base
    [] ex.op = "sll" -> (ex.a * 2 ^ (ex.b % Width)) % Base
    [] ex.op = "srl" -> ex.a \div 2 ^ (ex.b % Width)
    [] ex.op = "sra" -> (Value(ex.a) \div 2 ^ (ex.b % Width)) % Base
    [] ex.op = "slt" -> IF Value(ex.a) < Value(ex.b) THEN 1 ELSE 0
    [] ex.op = "sltu" -> IF ex.a < ex.b THEN 1 ELSE 0
    [] ex.op = "slti" -> IF Value(ex.a) < Offset(Short) THEN 1 ELSE 0
    [] ex.op = "sltiu" -> IF ex.a < Offset(Short) % Base THEN 1 ELSE 0
    [] ex.op = "mul" -> (ex.a * ex.b) % Base
    [] ex.op = "mulh" -> ((Value(ex.a) * Value(ex.b)) \div Base) % Base
    [] ex.op = "mulhsu" -> ((Value(ex.a) * ex.b) \div Base) % Base
    [] ex.op = "mulhu" -> (ex.a * ex.b) \div Base

RiscvTaken ==
  CASE ex.op = "beq" -> ex.a = ex.b
    [] ex.op = "bne" -> ex.a # ex.b
    [] ex.op = "blt" -> Value(ex.a) < Value(ex.b)
    [] ex.op = "bge" -> Value(ex.a) >= Value(ex.b)
    [] ex.op = "bltu" -> ex.a < ex.b
    [] ex.op = "bgeu" -> ex.a >= ex.b

\* The address of the instruction is that of the fetch without eight.
RiscvTarget ==
  CASE ex.op = "jal" -> (ex.pc - 8 + 2 * Offset(Long)) % Base
    [] ex.op = "jalr" -> LET sum == (ex.a + Offset(Short)) % Base IN sum - (sum % 2)
    [] ex.op \in Branches -> (ex.pc - 8 + 2 * Offset(Short)) % Base

-----------------------------------------------------------------------------
Enters(ops, A, B, Imms, Pcs) ==
  /\ ex = Bubble
  /\ \E op \in ops, a \in A, b \in B, imm \in Imms, pc \in Pcs :
       ex' = [op |-> op, a |-> a, b |-> b, imm |-> imm, pc |-> pc]

Shorts == 0 .. 2 ^ Short - 1

\* jal reaches as far as its sign bit goes with that of a short immediate.
Longs == {imm \in 0 .. 2 ^ Long - 1 : Far \/ Bit(imm, Long - 1) = Bit(imm, Short - 1)}

\* An instruction enters EX, and leaves it.
Enter ==
  \/ Enters(RegisterOps \union Products, Operands, Operands, {0}, {0})
  \/ Enters({"addi", "slti", "sltiu"}, Operands, {0}, Shorts, {0})
  \/ Enters(Branches, Operands, Operands, {2 ^ Short - 1}, {0})
  \/ Enters({"jalr"}, Operands, {0}, Shorts, {0})
  \/ Enters({"beq"}, {0}, {0}, Shorts, Operands)
  \/ Enters({"jal"}, {0}, {0}, Longs, Operands)

Leave == ex # Bubble /\ ex' = Bubble

Next == Enter \/ Leave

Spec == Init /\ [][Next]_vars

-----------------------------------------------------------------------------
\* Every result, comparison and target is that of RISC-V: at the ends of the words, with all
\* signs, across the halves of a product; but for the jumps of jal beyond the reach of Longs.
ComputesRight ==
  /\ ex.op \in Branches => (BranchTaken <=> RiscvTaken)
  /\ ex.op \in Branches \union {"jal", "jalr"} => JumpTarget = RiscvTarget
  /\ ex.op \notin Branches \union {"jal", "jalr", "none"} => Result = RiscvResult
=============================================================================
