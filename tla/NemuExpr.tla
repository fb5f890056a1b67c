------------------------------ MODULE NemuExpr ------------------------------
(***************************************************************************)
(* The expressions of the debugger (sdb/expr.c), as tokens: an expression   *)
(* is typed token by token, and every one that is complete is evaluated.    *)
(* The reference is C, as in the test of sdb.c:194-222, whose expressions   *)
(* come from tools/gen-expr and whose results come from a C compiler.       *)
(* Registers, dereferences and exclusive or are left out.                   *)
(***************************************************************************)
EXTENDS Integers, Sequences, FiniteSets

CONSTANTS
  Digits,   \* the numbers that are typed, as sequences of digits
  Earlier,  \* what an earlier expression may have left in the text of a token
  Longest,  \* of the expressions
  Deepest   \* of the parentheses

\* What the constants must be; the module that instantiates this one assumes it.
ExprConstants ==
  /\ \A d \in Digits \union Earlier : d \in Seq(0..9)
  /\ Digits # {} /\ <<>> \notin Digits /\ Longest \in Nat /\ Deepest \in Nat

VARIABLE tokens  \* type, str and what was meant

vars == <<tokens>>

Init == tokens = <<>>

-----------------------------------------------------------------------------
(* The tokens *)

Arithmetic == {"+", "-", "*", "/"}
Factors == {"*", "/"}
Operators == Arithmetic \union {"==", "&&"}

\* atoi.
Number(s) ==
  LET upto[i \in 0..Len(s)] == IF i = 0 THEN 0 ELSE 10 * upto[i - 1] + s[i] IN upto[Len(s)]

\* match_success copies the characters and leaves those behind them as they were.
Copied(s, old) == s \o SubSeq(old, Len(s) + 1, Len(old))

Type(i) == tokens[i].type

\* The parentheses open in front of token i, from p on.
Open(p, i) ==
  Cardinality({j \in p..(i - 1) : Type(j) = "("})
    - Cardinality({j \in p..(i - 1) : Type(j) = ")"})

\* A binary operator may come, and not an operand.
AfterOperand == tokens # <<>> /\ Type(Len(tokens)) \in {"number", ")"}

-----------------------------------------------------------------------------
(* eval *)

\* The signs that expr marks: at the beginning, or behind a binary operator.
IsMinus[i \in Nat] ==
  /\ i \in 1..(Len(tokens) - 1) /\ Type(i) = "-"
  /\ i = 1 \/ (Type(i - 1) \in Operators /\ ~IsMinus[i - 1])

IsBinary(i) == Type(i) \in Operators /\ ~IsMinus[i]

\* check_parentheses
Surrounded(p, q) ==
  /\ q > p + 1 /\ Type(p) = "(" /\ Type(q) = ")"
  /\ \A i \in (p + 2)..q : Open(p + 1, i) >= 0
  /\ Open(p + 1, q) = 0

Priority(i) ==
  CASE Type(i) \in {"+", "-"} -> 3
    [] Type(i) \in Factors -> 2
    [] Type(i) = "&&" -> 1
    [] OTHER -> 0

\* find_main_operator: the last one of the highest priority, but the first factor; 0 for none.
MainOperator(p, q) ==
  LET outside == {i \in p..q : IsBinary(i) /\ Open(p, i) = 0}
      highest == {i \in outside : \A j \in outside : Priority(i) >= Priority(j)}
  IN IF outside = {} THEN 0
     ELSE CHOOSE i \in highest :
            \A j \in highest : IF Type(i) \in Factors THEN i <= j ELSE i >= j

Truth(b) == IF b THEN 1 ELSE 0

Sign(a) == IF a < 0 THEN -1 ELSE 1

\* The division of C rounds towards zero.
Apply(operator, a, b) ==
  CASE operator = "+" -> a + b
    [] operator = "-" -> a - b
    [] operator = "*" -> a * b
    [] operator = "/" -> Sign(a) * Sign(b) * ((Sign(a) * a) \div (Sign(b) * b))
    [] operator = "==" -> Truth(a = b)
    [] operator = "&&" -> Truth(a # 0 /\ b # 0)

Eval[p, q \in Nat] ==
  LET op == MainOperator(p, q) IN
  CASE p = q -> IF Type(p) = "number" THEN Number(tokens[p].str) ELSE -1
    [] p < q /\ Surrounded(p, q) -> Eval[p + 1, q - 1]
    [] p < q /\ ~Surrounded(p, q) /\ op = 0 -> -Eval[p + 1, q]
    [] p < q /\ ~Surrounded(p, q) /\ op # 0 -> Apply(Type(op), Eval[p, op - 1], Eval[op + 1, q])

-----------------------------------------------------------------------------
(* C *)

Infix(i) == Type(i) \in Operators /\ i > 1 /\ Type(i - 1) \in {"number", ")"}

Binding(i) ==
  CASE Type(i) = "&&" -> 1
    [] Type(i) = "==" -> 2
    [] Type(i) \in {"+", "-"} -> 3
    [] Type(i) \in Factors -> 4

InC[p, q \in Nat] ==
  LET outside == {i \in p..q : Infix(i) /\ Open(p, i) = 0}
      loosest == {i \in outside : \A j \in outside : Binding(i) <= Binding(j)}
      op == CHOOSE i \in loosest : \A j \in loosest : i >= j
  IN CASE outside # {} -> Apply(Type(op), InC[p, op - 1], InC[op + 1, q])
       [] outside = {} /\ Type(p) = "-" -> -InC[p + 1, q]
       [] outside = {} /\ Type(p) = "(" -> InC[p + 1, q - 1]
       [] outside = {} /\ Type(p) = "number" -> tokens[p].meant

\* The operators between the parentheses around i.
Beside(i) ==
  {j \in 1..Len(tokens) :
     /\ Infix(j)
     /\ \A k \in (j + 1)..i : Open(j, k) >= 0
     /\ \A k \in (i + 1)..j : Open(i, k) >= 0
     /\ Open(1, i) = Open(1, j)}

\* The expressions of tools/gen-expr, which never has a product inside a product without
\* parentheses; signs that are not doubled or behind a parenthesis; and operators of one
\* kind between two parentheses, or comparisons with "&&" between them.
Generated ==
  \A i \in 1..Len(tokens) :
    /\ Infix(i) =>
         \/ {Type(j) : j \in Beside(i)} \subseteq {"==", "&&"}
         \/ /\ {Type(j) : j \in Beside(i)} \subseteq Arithmetic
            /\ \A j \in Beside(i) :
                 i < j /\ Type(i) \in Factors /\ Type(j) \in Factors =>
                   \E k \in Beside(i) : i < k /\ k < j /\ Type(k) \notin Factors
    /\ Type(i) = "-" /\ ~Infix(i) =>
         i = 1 \/ Infix(i - 1)

-----------------------------------------------------------------------------
TypeToken(type, str, meant) ==
  /\ Len(tokens) < Longest
  /\ tokens' = Append(tokens, [type |-> type, str |-> str, meant |-> meant])
  /\ Generated'

TypeNumber ==
  /\ ~AfterOperand
  /\ \E d \in Digits, old \in Earlier : TypeToken("number", Copied(d, old), Number(d))

\* No parenthesis behind a division: it might be by zero.
TypeOther ==
  \/ AfterOperand /\ \E o \in Operators : TypeToken(o, <<>>, 0)
  \/ AfterOperand /\ Open(1, Len(tokens) + 1) > 0 /\ TypeToken(")", <<>>, 0)
  \/ /\ ~AfterOperand /\ Open(1, Len(tokens) + 1) < Deepest
     /\ tokens # <<>> => Type(Len(tokens)) # "/"
     /\ TypeToken("(", <<>>, 0)
  \/ ~AfterOperand /\ TypeToken("-", <<>>, 0)

Next == TypeNumber \/ TypeOther

Spec == Init /\ [][Next]_vars

-----------------------------------------------------------------------------
\* The debugger evaluates what the generator of its test produces as C does.
EvaluatesAsC ==
  AfterOperand /\ Open(1, Len(tokens) + 1) = 0 => Eval[1, Len(tokens)] = InC[1, Len(tokens)]
=============================================================================
