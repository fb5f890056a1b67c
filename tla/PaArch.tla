------------------------------- MODULE PaArch -------------------------------
(***************************************************************************)
(* What a program may assume of the core and of NEMU: one instruction      *)
(* after the other, an interrupt between two of them as one step, and mret *)
(* as its inverse.  Only control is visible: the address of the next       *)
(* instruction, mepc and the two interrupt bits of mstatus.                *)
(***************************************************************************)
EXTENDS Naturals

CONSTANTS Size, Mtvec, Target

VARIABLES pc, mepc, mie, mpie

vars == <<pc, mepc, mie, mpie>>

Addr == 0 .. Size - 1

Next1(a) == (a + 1) % Size

Init == pc = 0 /\ mepc = 0 /\ mie = FALSE /\ mpie = FALSE

\* An instruction that leaves the CSRs alone, a jump or another one.
Execute == /\ pc' \in {Next1(pc)} \cup Target
           /\ UNCHANGED <<mepc, mie, mpie>>

WriteStatus == /\ pc' = Next1(pc)
               /\ mie' \in BOOLEAN /\ mpie' \in BOOLEAN /\ mepc' = mepc

WriteEpc == /\ pc' = Next1(pc)
            /\ mepc' \in Addr /\ UNCHANGED <<mie, mpie>>

\* An interrupt in front of the instruction at pc.
Interrupt == /\ pc' = Mtvec /\ mepc' = pc
             /\ mpie' = mie /\ mie' = FALSE

\* What mret leaves in MPIE differs: the core clears it, NEMU sets it.
Return == /\ pc' = mepc /\ mepc' = mepc
          /\ mie' = mpie /\ mpie' \in BOOLEAN

Next == Execute \/ WriteStatus \/ WriteEpc \/ Interrupt \/ Return

Spec == Init /\ [][Next]_vars
=============================================================================
