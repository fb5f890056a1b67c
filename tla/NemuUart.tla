------------------------------ MODULE NemuUart ------------------------------
(***************************************************************************)
(* The UART of NEMU (device/hwdev_uart.c) under the driver of the core      *)
(* (libs/_sdk/uart/uart.c), which runs on both.  A step is an access of the *)
(* driver, or an update of the devices, which comes between any two of     *)
(* them.  The control register keeps its initial value, both parts enabled. *)
(***************************************************************************)
EXTENDS Naturals, Sequences

CONSTANTS
  Keys,    \* what may be typed
  Ahead,   \* the keys that the history keeps at most
  Prompt   \* FALSE: a key may come between the load of rxd and the store of sr

\* What the constants must be; the module that instantiates this one assumes it.
UartConstants == Keys # {} /\ 0 \notin Keys /\ Ahead \in Nat \ {0} /\ Prompt \in BOOLEAN

VARIABLES
  txFlag, rxFlag,  \* the two bits of sr
  rxd, hasData,
  op, data,        \* the driver: where, and what it has loaded
  unread           \* history: the keys that the device has taken and nobody has read

receiver == <<rxd, hasData, unread>>
vars == <<txFlag, rxFlag, receiver, op, data>>

Init ==
  /\ txFlag = FALSE /\ rxFlag = FALSE
  /\ rxd = 0 /\ hasData = FALSE
  /\ op = "run" /\ data = 0
  /\ unread = <<>>

-----------------------------------------------------------------------------
\* hwdev_uart_update, when a key has been pressed.
Update(key) ==
  /\ Prompt => op # "clear"
  /\ ~hasData /\ Len(unread) < Ahead
  /\ rxd' = key /\ hasData' = TRUE /\ rxFlag' = TRUE
  /\ unread' = Append(unread, key)
  /\ UNCHANGED <<txFlag, op, data>>

\* The driver goes on.
Goes(now, then) == op = now /\ op' = then

\* uart_send_wait: a store of txd prints the byte at once and sets the flag, which ends the
\* loop.
SendWrite == Goes("run", "poll") /\ txFlag' = TRUE /\ UNCHANGED <<rxFlag, data, receiver>>
SendPoll == txFlag /\ Goes("poll", "sent") /\ UNCHANGED <<txFlag, rxFlag, data, receiver>>
SendClear == Goes("sent", "run") /\ txFlag' = FALSE /\ UNCHANGED <<rxFlag, data, receiver>>

\* uart_read and uart_read_wait: the flag, a load of rxd, which clears it, and a store of
\* sr, which clears it again.
ReadFlag == rxFlag /\ Goes("run", "look") /\ UNCHANGED <<txFlag, rxFlag, data, receiver>>

ReadData ==
  /\ Goes("look", "clear")
  /\ data' = IF hasData THEN rxd ELSE 0
  /\ rxFlag' = (rxFlag /\ ~hasData) /\ hasData' = FALSE
  /\ UNCHANGED <<txFlag, rxd, unread>>

ReadClear ==
  /\ Goes("clear", "run")
  /\ rxFlag' = FALSE
  /\ unread' = Tail(unread)
  /\ UNCHANGED <<txFlag, rxd, hasData, data>>

Next ==
  \/ \E key \in Keys : Update(key)
  \/ SendWrite \/ SendPoll \/ SendClear \/ ReadFlag \/ ReadData \/ ReadClear

Spec == Init /\ [][Next]_vars

-----------------------------------------------------------------------------
\* There is a byte that has not been read (has_data) exactly when the driver sees the flag,
\* and each key is read, once and in its turn.
KeysRead ==
  /\ hasData <=> rxFlag
  /\ op = "clear" => data = Head(unread)
  /\ op # "clear" => (hasData <=> unread # <<>>)
=============================================================================
