----------------------------- MODULE NemuWatch -----------------------------
(***************************************************************************)
(* The watchpoints of NEMU's debugger (monitor/sdb/watchpoint.c), set and   *)
(* deleted at the prompt of sdb.c and compared after each instruction that *)
(* cpu-exec.c executes.  CONFIG_PARALLEL_WP is off.                        *)
(***************************************************************************)
EXTENDS RtList

CONSTANTS
  Places,  \* NR_WP
  Expr,    \* the expressions watched
  Values   \* what they evaluate to

\* What the constants must be; the module that instantiates this one assumes it.
WatchConstants == Places \in Nat \ {0} /\ Expr # {} /\ Values # {}

VARIABLES
  mode,    \* prompt; go: the next instruction; run: the last one stopped nobody
  val,     \* the values of the expressions
  head,    \* the watchpoints in use, the newest first
  free,    \* free_
  used,    \* the watchpoints that are marked used
  exprs, num  \* of each watchpoint: its expression, the value it had

pool == <<head, free, used, exprs>>
vars == <<mode, val, pool, num>>

WP == 0..(Places - 1)

Init ==
  /\ mode = "prompt"
  /\ val \in [Expr -> Values]
  /\ head = <<>> /\ free = [i \in 1..Places |-> i - 1] /\ used = {}
  /\ exprs = [p \in WP |-> CHOOSE e \in Expr : TRUE]
  /\ num = [p \in WP |-> CHOOSE v \in Values : TRUE]

\* w: add_wp and new_wp; with no place left nothing changes.
Add(e) ==
  /\ mode = "prompt" /\ free # <<>>
  /\ LET p == Head(free) IN
       /\ head' = LinkFirst(head, p) /\ free' = Tail(free)
       /\ used' = used \union {p}
       /\ exprs' = [exprs EXCEPT ![p] = e]
       /\ num' = [num EXCEPT ![p] = val[e]]
  /\ UNCHANGED <<mode, val>>

\* Mutant: the watchpoint can be deleted again.
DeleteMarked(p) ==
  /\ mode = "prompt" /\ p \in used
  /\ head' = Unlink(head, p) /\ free' = LinkFirst(free, p)
  /\ UNCHANGED <<mode, val, used, exprs, num>>

\* d: delete_wp and free_wp.
Delete(p) ==
  /\ mode = "prompt" /\ p \in used
  /\ head' = Unlink(head, p) /\ free' = LinkFirst(free, p)
  /\ used' = used \ {p}
  /\ UNCHANGED <<mode, val, exprs, num>>

\* c and si: cpu_exec.
Go ==
  /\ mode = "prompt" /\ mode' = "go"
  /\ UNCHANGED <<val, pool, num>>

\* execute takes an interrupt instead of an instruction and compares nothing.
Interrupt ==
  /\ mode # "prompt" /\ mode' = "go"
  /\ val' \in [Expr -> Values]
  /\ UNCHANGED <<pool, num>>

\* An instruction, and check_watch_points after it: the first watchpoint on the list whose
\* value is another one notes it and stops, and those behind it are not looked at.
Instruction ==
  /\ mode # "prompt"
  /\ val' \in [Expr -> Values]
  /\ LET changed == {i \in DOMAIN head : num[head[i]] # val'[exprs[head[i]]]}
         first == head[CHOOSE i \in changed : \A j \in changed : i <= j]
     IN IF changed = {}
          THEN mode' = "run" /\ UNCHANGED num
          ELSE /\ num' = [num EXCEPT ![first] = val'[exprs[first]]]
               /\ mode' = "prompt"
  /\ UNCHANGED pool

\* The instructions of si are done.
Pause ==
  /\ mode # "prompt" /\ mode' = "prompt"
  /\ UNCHANGED <<val, pool, num>>

Next ==
  \/ Go \/ Interrupt \/ Instruction \/ Pause
  \/ \E e \in Expr : Add(e)
  \/ \E p \in WP : Delete(p)

Spec == Init /\ [][Next]_vars

-----------------------------------------------------------------------------
\* Whatever the order of w and d, each watchpoint is on exactly one of the lists, once,
\* and used says on which.  A program that goes on after an instruction has changed
\* nothing that is watched since the last stop.
WatchExact ==
  /\ Once(head) /\ Once(free)
  /\ \A p \in WP : (p \in used <=> Linked(head, p)) /\ (Linked(head, p) # Linked(free, p))
  /\ mode = "run" => \A p \in used : num[p] = val[exprs[p]]
=============================================================================
