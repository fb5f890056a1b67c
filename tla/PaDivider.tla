----------------------------- MODULE PaDivider -----------------------------
(***************************************************************************)
(* The divider of the core clock by clock (rtl/core/pa_core_exu_div.v):     *)
(* non-restoring division, a bit of the quotient per clock, on the          *)
(* magnitudes that pa_core_exu.v makes of the operands.  Words are numbers  *)
(* below 2^Width, read in two's complement where they are signed.          *)
(***************************************************************************)
EXTENDS Integers

CONSTANT Width  \* 32 in the source

\* What the constant must be; the module that instantiates this one assumes it.
DividerConstants == Width \in Nat /\ Width >= 2

VARIABLES
  count,             \* div_cnt; Width + 1 at rest
  dividend, divisor, \* data_dividend, data_divisor
  qSign, rSign,      \* q_sign, r_sign
  rem,               \* op = 0: rem, remu
  remainder,         \* next_remainder, a bit wider than two words
  asked              \* history: the operands, and whether they are unsigned

vars == <<count, dividend, divisor, qSign, rSign, rem, remainder, asked>>

Base == 2 ^ Width
Word == 0..(Base - 1)
Wide == 2 * Base * Base     \* 2^(2 * Width + 1)

Idle == [x |-> 0, y |-> 0, unsigned |-> TRUE]

Init ==
  /\ count = Width + 1
  /\ dividend = 0 /\ divisor = 0
  /\ qSign = FALSE /\ rSign = FALSE /\ rem = TRUE
  /\ remainder = 0
  /\ asked = Idle

Negated(w) == (Base - w) % Base
TopBit(w) == w >= Base \div 2
WideTopBit(w) == w >= Wide \div 2

-----------------------------------------------------------------------------
\* rst_remainder: the divisor is taken from the remainder, or put back; the new bit of
\* the quotient enters at the right.
Stepped ==
  LET current == (2 * remainder) % Wide
      minus == Wide \div 2 + Negated(divisor) * Base
      next == (current + (IF WideTopBit(current) THEN divisor * Base ELSE minus)) % Wide
  IN 2 * (next \div 2) + (IF WideTopBit(next) THEN 0 ELSE 1)

\* next_remainder
Remainder ==
  remainder' = CASE count = 0 -> dividend
                 [] count = Width -> remainder
                 [] 0 < count /\ count < Width -> Stepped
                 [] OTHER -> 0

\* hold_o; the instruction that divides has gone on, and no other one comes.
Hold == count < Width

\* div, divu, rem or remu: the magnitudes and the signs are kept.  A divisor that is zero
\* or larger than the dividend ends it at once.
Start(x, y, unsigned, wantsRem) ==
  LET negX == ~unsigned /\ TopBit(x)
      negY == ~unsigned /\ TopBit(y)
      magX == IF negX THEN Negated(x) ELSE x
      magY == IF negY THEN Negated(y) ELSE y
  IN /\ ~Hold
     /\ dividend' = magX /\ divisor' = magY
     /\ qSign' = (negX # negY) /\ rSign' = negX
     /\ rem' = wantsRem
     /\ count' = IF magY = 0 \/ magY > magX THEN Width ELSE 0
     /\ Remainder
     /\ asked' = [x |-> x, y |-> y, unsigned |-> unsigned]

\* A clock without a new division.
Clock ==
  /\ count' = IF count > Width THEN count ELSE count + 1
  /\ Remainder
  /\ UNCHANGED <<dividend, divisor, qSign, rSign, rem, asked>>

Next ==
  \/ Clock
  \/ \E x, y \in Word, unsigned, wantsRem \in BOOLEAN : Start(x, y, unsigned, wantsRem)

Spec == Init /\ [][Next]_vars

-----------------------------------------------------------------------------
(* The results: rst_qt_final, rst_rem_final and data_o *)

Signed(sign, w) == IF sign THEN Negated(w) ELSE w

QuotientFinal ==
  Signed(qSign, CASE divisor = 0 -> Base - 1
                  [] divisor > dividend -> 0
                  [] OTHER -> Stepped % Base)

RemainderFinal ==
  LET restored == IF WideTopBit(Stepped) THEN Stepped + divisor * Base ELSE Stepped IN
  Signed(rSign, IF divisor = 0 \/ divisor > dividend
                  THEN dividend
                  ELSE (restored \div Base) % Base)

\* data_o and data_vld_o, in the clock in which the count ends.
Done == count = Width
Data == IF rem THEN RemainderFinal ELSE QuotientFinal

-----------------------------------------------------------------------------
\* The number a word stands for.
Value(w) == IF ~asked.unsigned /\ TopBit(w) THEN w - Base ELSE w

Magnitude(n) == IF n < 0 THEN -n ELSE n

\* Division rounds towards zero, and the remainder has the sign of the dividend.
Truncated(x, y) ==
  LET q == Magnitude(x) \div Magnitude(y) IN IF (x < 0) = (y < 0) THEN q ELSE -q

\* What RISC-V asks of div, divu, rem and remu.  Only the overflow of the smallest number
\* by -1 wraps around.
Exact ==
  LET x == Value(asked.x)
      y == Value(asked.y)
      q == IF y = 0 THEN -1 ELSE Truncated(x, y)
      r == IF y = 0 THEN x ELSE x - y * q
  IN (IF rem THEN r ELSE q) % Base

\* A negative number by zero gives 1 instead of -1: the sign is put on the -1 too.
NegativeByZero == ~rem /\ divisor = 0 /\ qSign

\* A remainder below minus half the range loses its sign when it is shifted.
LargeDivisor == divisor > Base \div 2 /\ dividend >= divisor

\* "rst_qt_final", "rst_rem_final" (pa_core_exu_div.v): whatever the signs, the overflow
\* and the division before, the result is that of the instruction, but for the two cases
\* above.
DividesRight == Done /\ ~NegativeByZero /\ ~LargeDivisor => Data = Exact

\* NEMU divides as C does ("Reg(rd)=(unsigned)src1/src2", inst.c), and "make trace_run"
\* compares its results with those of the RTL: they agree for every divisor but zero.
DividesAsNemu == Done /\ asked.y # 0 => Data = Exact
=============================================================================
