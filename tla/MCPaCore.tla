------------------------------ MODULE MCPaCore ------------------------------
EXTENDS PaCore

MCTarget == {1, 3}

\* The reset word is start.S's la; the trap vector is the csrrw of trap_entry.
\* No division stands where jumps lead, and neither a division nor a load
\* behind mret.
MCCode == [a \in Addr |->
  CASE a = 0 -> {"alu"}
    [] a = 1 -> {"branch", "load", "status", "ecall"}
    [] a = 2 -> {"jump", "load", "div"}
    [] a = 3 -> {"alu", "store", "epc"}
    [] OTHER -> {"mret", "branch", "jump"}]

\* A division where jumps lead, as at the head of a function or a loop.
MCDivCode == [a \in Addr |-> MCCode[a] \cup IF a = 1 THEN {"div"} ELSE {}]
=============================================================================
