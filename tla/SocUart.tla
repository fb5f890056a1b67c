------------------------------ MODULE SocUart ------------------------------
(***************************************************************************)
(* The UART of rtl/perips/pa_perips_uart.v clock by clock, the polling      *)
(* driver libs/_sdk/uart/uart.c on the core, and the device at the other    *)
(* end of the line.                                                        *)
(*                                                                         *)
(* The wires addr_i and data_i are those of the whole bus                   *)
(* (rtl/pa_chip_top.v): only rd and we say whether the UART is meant.  On a *)
(* load the core drives data_i with what it reads (pa_core_mau.v), which is *)
(* the data register of the device.                                        *)
(*                                                                         *)
(* The driver leaves the control register at its reset value, both parts   *)
(* enabled, so it is a constant here.  Words are sequences of their lowest *)
(* bits, bit 0 first.                                                      *)
(***************************************************************************)
EXTENDS Naturals, Sequences

CONSTANTS
  Bits,   \* data bits of a frame, 8 in the source
  Byte,   \* the bytes sent and received
  Cycle,  \* uart_tx_clk_cycle = uart_rx_clk_cycle
  Duplex, \* TRUE: the device may send while the core does
  None    \* no byte

\* What the constants must be; the module that instantiates this one assumes it.
UartConstants ==
  /\ Bits \in Nat /\ Bits >= 2
  /\ Byte \subseteq [1..Bits -> 0..1] /\ Byte # {} /\ None \notin Byte
  /\ Cycle \in Nat \ {0}
  /\ Duplex \in BOOLEAN

VARIABLES
  txCnt, txState, txPipe, txStart,  \* the transmitter
  rxCnt, rxState, rxPipe,           \* the receiver
  sr, txd, rxd, data,               \* _uart_sr [tx, rx], _uart_txd, _uart_rxd, _data
  op, byte,                         \* the driver: where, and what it sends
  wire, wireCnt,                    \* the rest of a frame on pad_rxd, clocks into its bit
  sent,                             \* history: pad_txd, bit by bit, since the start
  unread                            \* history: the byte the device sent last, until read

txVars == <<txCnt, txState, txPipe, txStart>>
rxVars == <<rxCnt, rxState, rxPipe>>
vars == <<txVars, rxVars, sr, txd, rxd, data, op, byte, wire, wireCnt, sent, unread>>

Ones(n) == [i \in 1..n |-> 1]

Init ==
  /\ txCnt = 0 /\ txState = "IDLE" /\ txPipe = Ones(2 * Bits + 4) /\ txStart = FALSE
  /\ rxCnt = 0 /\ rxState = "IDLE" /\ rxPipe = Ones(Bits)
  /\ sr = [tx |-> 0, rx |-> 0]
  /\ txd = Ones(Bits) /\ rxd = Ones(Bits) /\ data = Ones(Bits)
  /\ op = "run" /\ byte = None
  /\ wire = <<>> /\ wireCnt = 0
  /\ sent = <<>> /\ unread = None

-----------------------------------------------------------------------------
(* The wires.  An access is a record of the register addr_i selects, of     *)
(* data_rd_i, data_we_i and data_i.                                        *)

Read(r) == [addr |-> r, rd |-> TRUE, we |-> FALSE, data |-> data]
Write(r, w) == [addr |-> r, rd |-> FALSE, we |-> TRUE, data |-> w]

\* Another device is accessed at an address that ends like that of a register.
Other(r, w) == [addr |-> r, rd |-> FALSE, we |-> FALSE, data |-> w]

NoAccess == Other("CR", Ones(Bits))

txTimeup == txCnt = Cycle
rxTimeup == rxCnt = IF rxState = "START" THEN Cycle \div 2 ELSE Cycle

padTxd == txPipe[Bits + 3]
padRxd == IF wire = <<>> THEN 1 ELSE Head(wire)

ShiftIn(pipe, bit) == Append(Tail(pipe), bit)

-----------------------------------------------------------------------------
(* The registers *)

\* uart_tx_start: a write of TXD while the transmitter is idle.
TxStart(a) ==
  txStart' = CASE txState = "IDLE" -> txStart \/ (a.we /\ a.addr = "TXD")
               [] txState = "RUN" -> FALSE
               [] OTHER -> txStart

\* uart_tx_state, once per bit.
TxState ==
  txState' = CASE ~txTimeup -> txState
               [] txTimeup /\ txState = "START" -> "RUN"
               [] txTimeup /\ txState # "START" /\ txStart -> "START"
               [] txTimeup /\ ~txStart /\ txState = "RUN" /\ txPipe[1] = 0 -> "END"
               [] txTimeup /\ ~txStart /\ txState = "END" -> "IDLE"
               [] OTHER -> txState

\* uart_tx_clk_cnt and uart_tx_pipe: the start bit enters in front of the line, the
\* byte and the stop bit behind it.
Transmitter(a) ==
  /\ txCnt' = IF txTimeup THEN 0 ELSE txCnt + 1
  /\ TxStart(a) /\ TxState
  /\ txPipe' = CASE ~txTimeup -> txPipe
                 [] txTimeup /\ txState = "START" -> Ones(Bits + 2) \o <<0>> \o txd \o <<1>>
                 [] txTimeup /\ txState = "RUN" -> ShiftIn(txPipe, 1)
                 [] OTHER -> Ones(2 * Bits + 4)

\* uart_rx_state: a low line starts it, half a bit later it is looked at again.
RxState ==
  rxState' = CASE rxState = "IDLE" /\ padRxd = 0 -> "START"
               [] rxState = "START" /\ padRxd = 0 /\ rxTimeup -> "RUN"
               [] rxState = "RUN" /\ rxTimeup /\ rxPipe[1] = 0 -> "END"
               [] rxState = "END" /\ rxTimeup -> "IDLE"
               [] OTHER -> rxState

\* uart_rx_clk_cnt and uart_rx_pipe: sampled in the middle of each bit.
Receiver ==
  /\ rxCnt' = IF rxState = "IDLE" \/ rxTimeup THEN 0 ELSE rxCnt + 1
  /\ RxState
  /\ rxPipe' = CASE rxTimeup /\ rxState \in {"START", "RUN"} -> ShiftIn(rxPipe, padRxd)
                 [] rxTimeup /\ rxState \in {"IDLE", "END"} -> Ones(Bits)
                 [] OTHER -> rxPipe

\* A one in d clears a flag of the status register.
Cleared(flag, d) == IF d = 1 THEN 0 ELSE flag

\* The registers of the bus.  The end of a frame comes first, and in that case the
\* address alone makes an access of SR.
Registers(a) ==
  LET hit == a.addr = "SR" IN
  CASE txState = "END" ->
         /\ sr' = [tx |-> 1, rx |-> IF hit THEN Cleared(sr.rx, a.data[2]) ELSE sr.rx]
         /\ UNCHANGED <<txd, rxd>>
    [] txState # "END" /\ rxState = "END" ->
         /\ sr' = [tx |-> IF hit THEN Cleared(sr.tx, a.data[1]) ELSE sr.tx, rx |-> 1]
         /\ rxd' = rxPipe
         /\ UNCHANGED txd
    [] OTHER ->
         /\ sr' = IF a.we /\ hit
                    THEN [tx |-> Cleared(sr.tx, a.data[1]), rx |-> Cleared(sr.rx, a.data[2])]
                    ELSE sr
         /\ txd' = IF a.we /\ a.addr = "TXD" THEN a.data ELSE txd
         /\ UNCHANGED rxd

Flag(idle, f) == IF idle THEN f ELSE 0

\* Mutant: the flags are shown as they are.
DataUngated(a) ==
  data' = CASE a.rd /\ a.addr = "SR" -> <<sr.tx, sr.rx>>
            [] a.rd /\ a.addr = "RXD" -> rxd
            [] OTHER -> data

\* _data: a flag is shown only when its part of the UART is idle again.
Data(a) ==
  data' = CASE a.rd /\ a.addr = "SR" ->
                 <<Flag(txState = "IDLE", sr.tx), Flag(rxState = "IDLE", sr.rx)>>
            [] a.rd /\ a.addr = "RXD" -> rxd
            [] OTHER -> data

-----------------------------------------------------------------------------
(* The device at the other end, which sends a byte when the last one was read. *)

FarWaits ==
  /\ wire = <<>>
  /\ UNCHANGED <<wire, wireCnt>>

FarStarts(b) ==
  /\ wire = <<>> /\ unread = None
  /\ ~Duplex => byte' = None
  /\ wire' = <<0>> \o b \o <<1>> /\ wireCnt' = 0

FarSends ==
  /\ wire # <<>>
  /\ wireCnt' = (wireCnt + 1) % (Cycle + 1)
  /\ wire' = IF wireCnt = Cycle THEN Tail(wire) ELSE wire

-----------------------------------------------------------------------------
(* A clock: the registers of the UART, with what the core does and the far  *)
(* device.                                                                 *)

Uart(a) == Transmitter(a) /\ Receiver /\ Registers(a) /\ Data(a)

\* What the transmitter has put on the line since the core wrote TXD.
Sent == sent' = IF txTimeup /\ byte # None /\ txState = "RUN" THEN Append(sent, padTxd) ELSE sent

Core(now, then, a) == op = now /\ op' = then /\ Uart(a)

\* The core does something else, perhaps at an address that ends like SR.
Elsewhere ==
  /\ \E a \in {NoAccess} \union {Other("SR", <<i, j>> \o Ones(Bits - 2)) : i, j \in 0..1} : Uart(a)
  /\ Sent
  /\ UNCHANGED <<op, byte>>

\* uart_send_wait: the byte goes to TXD.
SendWrite(b) ==
  /\ ~Duplex => wire = <<>> /\ unread = None
  /\ Core("run", "poll", Write("TXD", b))
  /\ byte' = b
  /\ sent' = <<>>

SendPoll ==
  /\ Core("poll", "polled", Read("SR"))
  /\ Sent
  /\ UNCHANGED byte

SendClear ==
  /\ data[1] = 1
  /\ Core("polled", "run", Write("SR", <<1, 0>> \o Ones(Bits - 2)))
  /\ byte' = None /\ sent' = <<>>

SendPollAgain ==
  /\ data[1] = 0
  /\ Core("polled", "polled", Read("SR"))
  /\ Sent
  /\ UNCHANGED byte

\* uart_read; uart_read_wait calls the status register until the flag is there.
ReadPoll ==
  /\ Core("run", "look", Read("SR"))
  /\ Sent
  /\ UNCHANGED byte

ReadNothing ==
  /\ data[2] = 0
  /\ Core("look", "run", NoAccess)
  /\ Sent
  /\ UNCHANGED byte

ReadData ==
  /\ data[2] = 1
  /\ Core("look", "clear", Read("RXD"))
  /\ Sent
  /\ UNCHANGED byte

ReadClear ==
  /\ Core("clear", "run", Write("SR", <<0, 1>> \o Ones(Bits - 2)))
  /\ Sent
  /\ UNCHANGED byte

\* The driver has read a byte and clears the flag.
Reads == op = "clear" /\ op' = "run"

Clock ==
  /\ \/ Elsewhere
     \/ \E b \in Byte : SendWrite(b)
     \/ SendPoll \/ SendPollAgain \/ SendClear
     \/ ReadPoll \/ ReadNothing \/ ReadData \/ ReadClear
  /\ \/ (FarWaits \/ FarSends) /\ unread' = (IF Reads THEN None ELSE unread)
     \/ \E b \in Byte : FarStarts(b) /\ unread' = b

Spec == Init /\ [][Clock]_vars

-----------------------------------------------------------------------------
\* "[1]: rx flag" (pa_perips_uart.v), which software clears by a one
\* (UART_SR_CLR_RXNE, uart.h): once a byte has come in, and until it is read, its
\* flag is set and the register holds it.
ReceivedFlagged ==
  unread # None /\ wire = <<>> /\ rxState = "IDLE" /\ op # "clear" => sr.rx = 1

\* What uart_read returns is what the device sent.
ReadsWhatCame == op = "clear" => data = unread

\* When uart_send_wait is about to return, the line has had a start bit, the byte and
\* a stop bit, and nothing else.
SentWhole ==
  op = "polled" /\ data[1] = 1 =>
    Len(sent) >= Bits + 2 /\ SubSeq(sent, 1, Bits + 2) = <<0>> \o byte \o <<1>>
=============================================================================
