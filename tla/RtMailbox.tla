----------------------------- MODULE RtMailbox -----------------------------
(***************************************************************************)
(* A mailbox (rt_mb_send_wait, rt_mb_recv of ipc.c) on the suspend lists   *)
(* of RtWait: a ring of Size mails, a list of waiting receivers and a list *)
(* of waiting senders.                                                     *)
(***************************************************************************)
EXTENDS RtRetry

CONSTANTS
  Rx,   \* parent.suspend_thread, the waiting receivers
  Tx,   \* suspend_sender_thread
  Msg,  \* the mails
  Size  \* mb->size, at most RT_MB_ENTRY_MAX

\* What the constants must be; the module that instantiates this one assumes it.
MailboxConstants ==
  /\ List = {Rx, Tx} /\ Rx # Tx
  /\ Size \in Nat \ {0}
  /\ Msg # {}

Place == 0..(Size - 1)

VARIABLES
  pool,   \* mb->msg_pool
  entry,  \* mb->entry
  in,     \* mb->in_offset
  out,    \* mb->out_offset
  mail,   \* the mail a waiting sender wants to send
  got     \* *value of the last rt_mb_recv of each thread

ring == <<pool, entry, in, out>>
vars == <<loopVars, ring, mail, got>>

SomeMsg == CHOOSE m \in Msg : TRUE

Init ==
  /\ RetryInit
  /\ pool = [i \in Place |-> SomeMsg]
  /\ entry = 0 /\ in = 0 /\ out = 0
  /\ mail = [t \in Thread |-> SomeMsg]
  /\ got = [t \in Thread |-> SomeMsg]

\* The call of t is over, and its mail is not needed any more.
Done(t) == Over(t) /\ mail' = [mail EXCEPT ![t] = SomeMsg]

\* ++offset, back to 0 at the end of the pool.
NextPlace(i) == IF i + 1 >= Size THEN 0 ELSE i + 1

\* The end of rt_mb_send_wait: room for mail m.
Put(m) ==
  /\ entry < Size
  /\ pool' = [pool EXCEPT ![in] = m]
  /\ in' = NextPlace(in)
  /\ entry' = entry + 1
  /\ ResumeOne(Rx)
  /\ UNCHANGED out

\* Mutant: a sender is woken only when the box was full.
TakeIfFull(t) ==
  /\ entry > 0
  /\ got' = [got EXCEPT ![t] = pool[out]]
  /\ out' = NextPlace(out)
  /\ entry' = entry - 1
  /\ IF entry = Size THEN ResumeOne(Tx) ELSE UNCHANGED waitVars
  /\ UNCHANGED <<pool, in>>

\* The end of rt_mb_recv: a mail for t.
Take(t) ==
  /\ entry > 0
  /\ got' = [got EXCEPT ![t] = pool[out]]
  /\ out' = NextPlace(out)
  /\ entry' = entry - 1
  /\ ResumeOne(Tx)
  /\ UNCHANGED <<pool, in>>

-----------------------------------------------------------------------------
(* Sending *)

SendNow(t, m) ==
  /\ Calls(t, Rx)
  /\ Put(m)
  /\ UNCHANGED <<callVars, left, mail, got>>

\* rt_mb_send from an interrupt.
SendIsr(m) ==
  /\ Rx \notin gone
  /\ Put(m)
  /\ UNCHANGED <<callVars, left, mail, got>>

\* The full box: with time left the sender waits.
SendWait(t, m, limit) ==
  /\ Calls(t, Rx)
  /\ entry = Size
  /\ WaitOn(t, "send", Tx, Enqueue(Tx, t), limit)
  /\ mail' = [mail EXCEPT ![t] = m]
  /\ UNCHANGED <<ring, got>>

SendFail(t) ==
  /\ Failed(t, "send")
  /\ Done(t)
  /\ UNCHANGED <<waitVars, ring, got>>

\* Mutant: a woken sender does not look again.
SendAgainBlind(t, limit) ==
  /\ Looks(t, "send", limit)
  /\ pool' = [pool EXCEPT ![in] = mail[t]]
  /\ in' = NextPlace(in)
  /\ entry' = entry + 1
  /\ ResumeOne(Rx)
  /\ Done(t)
  /\ UNCHANGED <<out, got>>

SendAgain(t, limit) ==
  /\ Looks(t, "send", limit)
  /\ \/ Put(mail[t]) /\ Done(t)
     \/ /\ entry = Size
        /\ WaitOn(t, "send", Tx, Enqueue(Tx, t), limit)
        /\ UNCHANGED <<ring, mail>>
     \/ /\ entry = Size /\ limit = "none"
        /\ Done(t)
        /\ UNCHANGED <<waitVars, ring>>
  /\ UNCHANGED got

-----------------------------------------------------------------------------
(* Receiving *)

RecvNow(t) ==
  /\ Calls(t, Rx)
  /\ Take(t)
  /\ UNCHANGED <<callVars, left, mail>>

RecvWait(t, limit) ==
  /\ Calls(t, Rx)
  /\ entry = 0
  /\ WaitOn(t, "wait", Rx, Enqueue(Rx, t), limit)
  /\ UNCHANGED <<ring, mail, got>>

RecvFail(t) ==
  /\ Failed(t, "wait")
  /\ Done(t)
  /\ UNCHANGED <<waitVars, ring, got>>

RecvAgain(t, limit) ==
  /\ Looks(t, "wait", limit)
  /\ \/ Take(t) /\ Done(t)
     \/ /\ entry = 0
        /\ WaitOn(t, "wait", Rx, Enqueue(Rx, t), limit)
        /\ UNCHANGED <<ring, mail, got>>
     \/ /\ entry = 0 /\ limit = "none"
        /\ err' = [err EXCEPT ![t] = "ETIMEOUT"]
        /\ Done(t)
        /\ UNCHANGED <<wait, armed, ring, got>>

-----------------------------------------------------------------------------
\* rt_mb_control(mb, RT_IPC_CMD_RESET): one locked section.
Reset(t) ==
  /\ Calls(t, Rx)
  /\ ResumeAllFailed({Rx, Tx})
  /\ entry' = 0 /\ in' = 0 /\ out' = 0
  /\ UNCHANGED <<callVars, left, pool, mail, got>>

\* What does not touch the mailbox itself.  rt_mb_detach wakes the receivers
\* first.
Outside ==
  /\ \/ TimerExpires
     \/ \E t \in Thread :
          RetryDetach(t, Rx, {Rx, Tx}) \/ DetachTest(t, {Tx}) \/ DetachResume(t)
  /\ UNCHANGED <<left, ring, mail, got>>

Next ==
  \/ Outside
  \/ \E m \in Msg : SendIsr(m)
  \/ \E t \in Thread :
       \/ RecvNow(t) \/ RecvFail(t) \/ SendFail(t) \/ Reset(t)
       \/ \E m \in Msg : SendNow(t, m)
       \/ \E m \in Msg, limit \in Limits : SendWait(t, m, limit)
       \/ \E limit \in Limits : RecvWait(t, limit)
       \/ \E limit \in Remaining(t) : SendAgain(t, limit) \/ RecvAgain(t, limit)

Spec == Init /\ [][Next]_vars

-----------------------------------------------------------------------------
TypeOK ==
  /\ RetryTypeOK
  /\ pool \in [Place -> Msg]
  /\ entry \in 0..Size
  /\ in \in Place /\ out \in Place
  /\ mail \in [Thread -> Msg]
  /\ got \in [Thread -> Msg]

\* The two offsets and the count agree about which places hold mail.
RingConsistent == (out + entry) % Size = in

\* No wake-up is lost: while threads wait, every mail in the box has a woken
\* receiver on its way to it, and every free place a woken sender, however
\* often another thread is faster and the woken one waits again.
NoLostWakeup ==
  /\ wait[Rx] # <<>> => entry <= Cardinality(Woken("wait", Rx))
  /\ wait[Tx] # <<>> => Size - entry <= Cardinality(Woken("send", Tx))

\* The mails in the box, oldest first.
Mails == [i \in 1..entry |-> pool[(out + i - 1) % Size]]
=============================================================================
