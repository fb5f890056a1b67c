------------------------------ MODULE RtShell ------------------------------
(***************************************************************************)
(* The command line of finsh (finsh_thread_entry of shell.c), key by key:  *)
(* the escape sequences of the cursor keys, insertion and deletion at the  *)
(* cursor, the history, and the completion of command names (msh.c).  What *)
(* a command does and what is echoed are left out.                         *)
(***************************************************************************)
EXTENDS Naturals, Sequences

CONSTANTS
  CmdSize,   \* FINSH_CMD_SIZE
  Lines,     \* FINSH_HISTORY_LINES
  Typed,     \* the characters typed
  Nul,       \* '\0'
  Commands,  \* the names of the commands
  Overlong   \* TRUE: a line may fill the buffer

\* What the constants must be; the module that instantiates this one assumes it.
ShellConstants ==
  /\ CmdSize \in Nat /\ CmdSize > 1 /\ Lines \in Nat \ {0}
  /\ Nul \notin Typed
  /\ \A c \in Commands : c \in Seq(Typed) /\ Len(c) < CmdSize

VARIABLES
  stat,            \* shell->stat
  line,            \* shell->line, by index
  linePosition,    \* shell->line_position
  lineCurpos,      \* shell->line_curpos
  cmdHistory,      \* shell->cmd_history, by index
  historyCount,    \* shell->history_count
  currentHistory   \* shell->current_history

lineVars == <<line, linePosition, lineCurpos>>
historyVars == <<cmdHistory, historyCount, currentHistory>>
vars == <<stat, lineVars, historyVars>>

Index == 0..(CmdSize - 1)
Empty == [i \in Index |-> Nul]

Init ==
  /\ stat = "WAIT_NORMAL"
  /\ line = Empty /\ linePosition = 0 /\ lineCurpos = 0
  /\ cmdHistory = [i \in 0..(Lines - 1) |-> Empty]
  /\ historyCount = 0 /\ currentHistory = 0

\* strlen; without a NUL it would run on behind the line.
Length(l) ==
  CHOOSE n \in 0..CmdSize : (n = CmdSize \/ l[n] = Nul) /\ \A i \in 0..(n - 1) : l[i] # Nul

Filled(s) == [i \in Index |-> IF i < Len(s) THEN s[i + 1] ELSE Nul]

\* The first n characters, and NULs.
Cut(l, n) == [i \in Index |-> IF i < n THEN l[i] ELSE Nul]

\* Another line takes the place of the one being typed, the cursor behind it.
Show(l) ==
  /\ line' = l
  /\ linePosition' = Length(l)
  /\ lineCurpos' = Length(l)

-----------------------------------------------------------------------------
(* The escape sequences: esc [ and a letter *)

Escape ==
  /\ stat' = "WAIT_SPEC_KEY"
  /\ UNCHANGED <<lineVars, historyVars>>

Bracket ==
  /\ stat = "WAIT_SPEC_KEY"
  /\ stat' = "WAIT_FUNC_KEY"
  /\ UNCHANGED <<lineVars, historyVars>>

Function ==
  /\ stat = "WAIT_FUNC_KEY"
  /\ stat' = "WAIT_NORMAL"

\* A: the command before; nothing at the first.
Up ==
  /\ Function
  /\ IF currentHistory > 0
       THEN currentHistory' = currentHistory - 1 /\ Show(cmdHistory[currentHistory - 1])
       ELSE UNCHANGED <<currentHistory, lineVars>>
  /\ UNCHANGED <<cmdHistory, historyCount>>

\* B: the command after, or the last one.
Down ==
  /\ Function
  /\ IF historyCount = 0
       THEN UNCHANGED <<currentHistory, lineVars>>
       ELSE LET next == IF currentHistory + 1 < historyCount
                          THEN currentHistory + 1
                          ELSE historyCount - 1
            IN currentHistory' = next /\ Show(cmdHistory[next])
  /\ UNCHANGED <<cmdHistory, historyCount>>

\* D
Left ==
  /\ Function
  /\ lineCurpos' = IF lineCurpos > 0 THEN lineCurpos - 1 ELSE 0
  /\ UNCHANGED <<line, linePosition, historyVars>>

\* C
Right ==
  /\ Function
  /\ lineCurpos' = IF lineCurpos < linePosition THEN lineCurpos + 1 ELSE lineCurpos
  /\ UNCHANGED <<line, linePosition, historyVars>>

-----------------------------------------------------------------------------
(* Other keys, also when they break off an escape sequence *)

\* '\0' and 0xFF.
Ignored ==
  /\ stat' = "WAIT_NORMAL"
  /\ UNCHANGED <<lineVars, historyVars>>

\* How far the names of S go together (str_common).
Shared(S) ==
  {n \in 0..CmdSize : \A c, d \in S : n <= Len(c) /\ n <= Len(d) /\ SubSeq(c, 1, n) = SubSeq(d, 1, n)}

Common(S) ==
  LET name == CHOOSE c \in S : TRUE
      minLength == CHOOSE n \in Shared(S) : \A m \in Shared(S) : m <= n
  IN SubSeq(name, 1, minLength)

\* msh_auto_complete: what the commands that begin with the line have in common.
Completed(l) ==
  LET fits == {c \in Commands :
                 Length(l) <= Len(c) /\ \A i \in 1..Length(l) : c[i] = l[i - 1]}
  IN IF Length(l) = 0 \/ fits = {} THEN l ELSE Filled(Common(fits))

Tab ==
  /\ stat' = "WAIT_NORMAL"
  /\ Show(Completed(line))
  /\ UNCHANGED historyVars

\* Mutant: the end of the line is not cleared.
DeletedStale ==
  [i \in Index |-> IF lineCurpos - 1 <= i /\ i < linePosition - 1 THEN line[i + 1] ELSE line[i]]

\* The line without the character before the cursor.
Deleted ==
  [i \in Index |-> CASE lineCurpos - 1 <= i /\ i < linePosition - 1 -> line[i + 1]
                     [] i = linePosition - 1 -> Nul
                     [] OTHER -> line[i]]

Backspace ==
  /\ stat' = "WAIT_NORMAL"
  /\ IF lineCurpos = 0
       THEN UNCHANGED lineVars
       ELSE /\ line' = Deleted
            /\ linePosition' = linePosition - 1
            /\ lineCurpos' = lineCurpos - 1
  /\ UNCHANGED historyVars

\* shell_push_history: not when it is the last command again; when the history is full
\* the oldest one goes.
PushHistory ==
  LET entry == Cut(line, linePosition)
      again == historyCount > 0 /\ cmdHistory[historyCount - 1] = line
      full == historyCount = Lines
      skip == linePosition = 0 \/ again
  IN /\ historyCount' = IF skip \/ full THEN historyCount ELSE historyCount + 1
     /\ cmdHistory' =
          CASE skip -> cmdHistory
            [] ~skip /\ ~full -> [cmdHistory EXCEPT ![historyCount] = entry]
            [] OTHER -> [i \in 0..(Lines - 1) |->
                           IF i = Lines - 1 THEN entry ELSE cmdHistory[i + 1]]
     /\ currentHistory' = historyCount'

Enter ==
  /\ stat' = "WAIT_NORMAL"
  /\ PushHistory
  /\ line' = Empty /\ linePosition' = 0 /\ lineCurpos' = 0

\* A character goes in at the cursor.  When the line is full it is given up.
Type(ch) ==
  LET start == IF linePosition >= CmdSize THEN 0 ELSE linePosition
      behind == lineCurpos < start
      end == start + 1
  IN /\ stat' = "WAIT_NORMAL"
     /\ Overlong \/ end < CmdSize
     /\ line' = [i \in Index |-> CASE i = (IF behind THEN lineCurpos ELSE start) -> ch
                                   [] behind /\ lineCurpos < i /\ i <= start -> line[i - 1]
                                   [] OTHER -> line[i]]
     /\ linePosition' = IF end >= CmdSize THEN 0 ELSE end
     /\ lineCurpos' = IF end >= CmdSize THEN 0 ELSE lineCurpos + 1
     /\ UNCHANGED historyVars

Next ==
  \/ Escape \/ Bracket \/ Up \/ Down \/ Left \/ Right
  \/ Ignored \/ Tab \/ Backspace \/ Enter
  \/ \E ch \in Typed :
       /\ ~(stat = "WAIT_SPEC_KEY" /\ ch = "[")
       /\ ~(stat = "WAIT_FUNC_KEY" /\ ch \in {"A", "B", "C", "D"})
       /\ Type(ch)

Spec == Init /\ [][Next]_vars

-----------------------------------------------------------------------------
\* The cursor is in the line or behind it, and only NULs follow the line, which strlen
\* and the comparison with the history count on.
LineExact ==
  /\ lineCurpos <= linePosition /\ linePosition < CmdSize
  /\ line = Cut(line, linePosition)
  /\ \A i \in 0..(linePosition - 1) : line[i] # Nul

\* The history never holds an empty command or the same one twice in a row.
HistoryExact ==
  /\ currentHistory <= historyCount /\ historyCount <= Lines
  /\ \A i \in 0..(historyCount - 1) :
       /\ cmdHistory[i] # Empty
       /\ cmdHistory[i] = Cut(cmdHistory[i], Length(cmdHistory[i]))
  /\ \A i \in 1..(historyCount - 1) : cmdHistory[i] # cmdHistory[i - 1]
=============================================================================
