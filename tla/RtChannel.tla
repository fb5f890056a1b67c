----------------------------- MODULE RtChannel -----------------------------
(***************************************************************************)
(* What a mailbox or a message queue promises: a bounded first-in          *)
(* first-out channel.  A send puts one mail at the end, an urgent one in   *)
(* front; a receive gives its caller the first one, a reset empties the    *)
(* channel; waiting and timeouts change nothing.                           *)
(***************************************************************************)
EXTENDS Naturals, Sequences

CONSTANTS Thread, Msg, Size

VARIABLES
  mails,   \* the mails sent and not received
  got,     \* the mail each thread received last
  urgent   \* TRUE in a channel with urgent sends

chan == <<mails, got, urgent>>

ChannelInit ==
  /\ mails = <<>>
  /\ got \in [Thread -> Msg]
  /\ urgent \in BOOLEAN

Send(m) ==
  /\ Len(mails) < Size
  /\ mails' = Append(mails, m)
  /\ UNCHANGED got

SendUrgent(m) ==
  /\ urgent /\ Len(mails) < Size
  /\ mails' = <<m>> \o mails
  /\ UNCHANGED got

Receive(t) ==
  /\ mails # <<>>
  /\ got' = [got EXCEPT ![t] = Head(mails)]
  /\ mails' = Tail(mails)

Empty == mails' = <<>> /\ UNCHANGED got

ChannelNext ==
  /\ UNCHANGED urgent
  /\ \/ Empty
     \/ \E m \in Msg : Send(m) \/ SendUrgent(m)
     \/ \E t \in Thread : Receive(t)

ChannelSpec == ChannelInit /\ [][ChannelNext]_chan
=============================================================================
