------------------------------ MODULE RtMemory ------------------------------
(***************************************************************************)
(* rt_memset, rt_memcpy, rt_memmove and rt_strncpy (kservice.c), a turn of a *)
(* loop at a time, on a memory whose bytes all differ: whole words where    *)
(* the addresses allow it, four at a time while there are enough, and bytes *)
(* in the end, or from the end.                                             *)
(***************************************************************************)
EXTENDS Integers

CONSTANTS
  Cells,  \* the bytes of the memory
  Most,   \* the bytes of a call
  From,   \* the addresses of its source
  Long,   \* sizeof(long): 4 in the source
  Filler  \* the byte that rt_memset is given

\* What the constants must be; the module that instantiates this one assumes it.
MemoryConstants ==
  /\ Cells \in Nat /\ Most \in Nat /\ From \subseteq 0..Cells
  /\ Long \in Nat \ {0} /\ Filler \notin 0..Cells

VARIABLES
  ram,
  call,  \* the function, and its arguments: dst, src, n and where
         \* the string at src ends
  done   \* bytes dealt with

vars == <<ram, call, done>>

Nul == 0
Cell == 0..(Cells - 1)

\* The memory before a call, with a string that ends at nul.
Before(nul) == [i \in Cell |-> IF i = nul THEN Nul ELSE i + 1]

NoCall == [op |-> "none", dst |-> 0, src |-> 0, n |-> 0, nul |-> Cells]

Init == ram = Before(Cells) /\ call = NoCall /\ done = 0

-----------------------------------------------------------------------------
Overlap(dst, src, n) == src < dst + n /\ dst < src + n

\* The calls that C allows.
Call(op, dst, src, n, nul) ==
  /\ dst + n <= Cells /\ src + n <= Cells
  /\ op \in {"memcpy", "strncpy"} => ~Overlap(dst, src, n)
  /\ call' = [op |-> op, dst |-> dst, src |-> src, n |-> n, nul |-> nul]
  /\ ram' = Before(nul) /\ done' = 0

AnyCall ==
  /\ call = NoCall
  /\ \E dst \in Cell, src \in From, n \in 0..Most :
       \/ \E op \in {"memcpy", "memmove"} : Call(op, dst, src, n, Cells)
       \/ Call("memset", dst, dst, n, Cells)
       \/ \E nul \in src .. src + n : Call("strncpy", dst, src, n, nul)

\* UNALIGNED
Unaligned(a) == a % Long # 0

\* memcpy looks at both addresses and wants four words, memset wants one.
ByWords ==
  \/ call.op = "memset" /\ call.n >= Long /\ ~Unaligned(call.dst)
  \/ call.op = "memcpy" /\ call.n >= 4 * Long /\ ~Unaligned(call.dst) /\ ~Unaligned(call.src)

Left == call.n - done

\* The bytes of the next turn of the loop.
Chunk ==
  CASE ByWords /\ Left >= 4 * Long -> 4 * Long
    [] ByWords /\ Long <= Left /\ Left < 4 * Long -> Long
    [] OTHER -> 1

\* memmove goes down when the destination begins inside the source.
Down == call.op = "memmove" /\ call.src < call.dst /\ call.dst < call.src + call.n

\* The offset of the next chunk.
Offset == IF Down THEN Left - 1 ELSE done

\* strncpy has seen the end of the string, and pads.
Pads == call.op = "strncpy" /\ \E i \in 0..(done - 1) : ram[call.dst + i] = Nul

Turn ==
  /\ call # NoCall /\ Left > 0
  /\ LET chunk == call.dst + Offset .. call.dst + Offset + Chunk - 1
         pads == Pads
     IN
     ram' = [i \in Cell |->
               CASE i \in chunk /\ call.op = "memset" -> Filler
                 [] i \in chunk /\ call.op # "memset" ->
                      IF pads THEN Nul ELSE ram[call.src + (i - call.dst)]
                 [] OTHER -> ram[i]]
  /\ done' = done + Chunk
  /\ UNCHANGED call

Return ==
  /\ call # NoCall /\ Left <= 0
  /\ call' = NoCall /\ done' = 0 /\ ram' = Before(Cells)

Next == AnyCall \/ Turn \/ Return

Spec == Init /\ [][Next]_vars

-----------------------------------------------------------------------------
\* What the function is for: the n bytes at dst, whatever the alignment and the overlap.
Wanted(i) ==
  LET from == call.src + (i - call.dst) IN
  CASE i \notin call.dst .. call.dst + call.n - 1 -> Before(call.nul)[i]
    [] i \in call.dst .. call.dst + call.n - 1 /\ call.op = "memset" -> Filler
    [] i \in call.dst .. call.dst + call.n - 1 /\ call.op # "memset" ->
         IF call.op = "strncpy" /\ from >= call.nul THEN Nul ELSE Before(call.nul)[from]

\* The function never deals with more bytes than it was told, and when it returns these, and
\* no others, are what they should be.
MemoryExact ==
  /\ done <= call.n
  /\ call # NoCall /\ done = call.n => \A i \in Cell : ram[i] = Wanted(i)
=============================================================================
