--------------------------- MODULE RtMessageQueue ---------------------------
(***************************************************************************)
(* A message queue (ipc.c): messages lie in the elements of a pool, which  *)
(* hang on the queue or on the free list, or belong to a thread that       *)
(* copies a message into or out of one with interrupts enabled.  A call    *)
(* has several locked sections; others run in between.                     *)
(***************************************************************************)
EXTENDS RtRetry

CONSTANTS
  Rx,       \* parent.suspend_thread, the waiting receivers
  Tx,       \* suspend_sender_thread
  Msg,      \* the messages
  Element,  \* the elements of the pool
  None      \* RT_NULL

\* What the constants must be; the module that instantiates this one assumes it.
MessageQueueConstants ==
  /\ List = {Rx, Tx} /\ Rx # Tx
  /\ Msg # {} /\ IsFiniteSet(Element) /\ None \notin Element

VARIABLES
  queue,  \* the elements from msg_queue_head to msg_queue_tail
  free,   \* those from msg_queue_free
  body,   \* what each element carries
  entry,  \* mq->entry
  mine,   \* the element a thread copies into or out of
  mail,   \* the message a sender wants to send
  got     \* the buffer of the last rt_mq_recv of each thread

mqVars == <<queue, free, body, entry, mine, mail, got>>
vars == <<loopVars, mqVars>>

SomeMsg == CHOOSE m \in Msg : TRUE

Init ==
  /\ RetryInit
  /\ queue = <<>> /\ free = ListOf(Element) /\ entry = 0
  /\ body = [e \in Element |-> SomeMsg]
  /\ mine = [t \in Thread |-> None]
  /\ mail = [t \in Thread |-> SomeMsg]
  /\ got = [t \in Thread |-> SomeMsg]

\* The call of t goes on at c with interrupts enabled and element e to itself.
Copies(t, c, e) ==
  /\ Goto(t, c, Rx) /\ Remains(t, "none")
  /\ mine' = [mine EXCEPT ![t] = e]

Done(t) ==
  /\ Over(t)
  /\ mine' = [mine EXCEPT ![t] = None]
  /\ mail' = [mail EXCEPT ![t] = SomeMsg]

-----------------------------------------------------------------------------
(* Sending: c is "fill" for rt_mq_send_wait and "urge" for rt_mq_urgent.    *)

\* The first section: an element off the free list.
GetElement(t, c) ==
  /\ free # <<>>
  /\ free' = Tail(free)
  /\ Copies(t, c, Head(free))
  /\ UNCHANGED <<waitVars, gone, queue, body, entry, got>>

SendNow(t, m, c) ==
  /\ Calls(t, Rx)
  /\ GetElement(t, c)
  /\ mail' = [mail EXCEPT ![t] = m]

SendWait(t, m, limit) ==
  /\ Calls(t, Rx)
  /\ free = <<>>
  /\ WaitOn(t, "send", Tx, Enqueue(Tx, t), limit)
  /\ mail' = [mail EXCEPT ![t] = m]
  /\ UNCHANGED <<queue, free, body, entry, mine, got>>

SendFail(t) ==
  /\ Failed(t, "send")
  /\ Done(t)
  /\ UNCHANGED <<waitVars, queue, free, body, entry, got>>

SendAgain(t, limit) ==
  /\ Looks(t, "send", limit)
  /\ \/ GetElement(t, "fill") /\ UNCHANGED mail
     \/ /\ free = <<>>
        /\ WaitOn(t, "send", Tx, Enqueue(Tx, t), limit)
        /\ UNCHANGED mqVars
     \/ /\ free = <<>> /\ limit = "none"
        /\ Done(t)
        /\ UNCHANGED <<waitVars, queue, free, body, entry, got>>

\* The last section: the element joins the queue, at its end or its head.
Link(c, e, m) ==
  /\ body' = [body EXCEPT ![e] = m]
  /\ queue' = IF c = "fill" THEN LinkLast(queue, e) ELSE LinkFirst(queue, e)
  /\ entry' = entry + 1
  /\ ResumeOne(Rx)

SendLink(t) ==
  /\ pc[t] \in {"fill", "urge"}
  /\ Link(pc[t], mine[t], mail[t])
  /\ Done(t)
  /\ UNCHANGED <<free, got>>

\* rt_mq_send or rt_mq_urgent from an interrupt: nothing comes between.
SendIsr(m, c) ==
  /\ Rx \notin gone
  /\ free # <<>>
  /\ Link(c, Head(free), m)
  /\ free' = Tail(free)
  /\ UNCHANGED <<callVars, left, mine, mail, got>>

-----------------------------------------------------------------------------
(* Receiving *)

\* Mutant: the element is free before it has been copied.
UnlinkFreed(t) ==
  /\ entry > 0
  /\ queue' = Tail(queue)
  /\ entry' = entry - 1
  /\ free' = LinkFirst(free, Head(queue))
  /\ Copies(t, "copy", Head(queue))
  /\ UNCHANGED <<waitVars, gone, body, mail, got>>

\* The first section: the element at the head of the queue.
UnlinkHead(t) ==
  /\ entry > 0
  /\ queue' = Tail(queue)
  /\ entry' = entry - 1
  /\ Copies(t, "copy", Head(queue))
  /\ UNCHANGED <<waitVars, gone, free, body, mail, got>>

RecvNow(t) == Calls(t, Rx) /\ UnlinkHead(t)

RecvWait(t, limit) ==
  /\ Calls(t, Rx)
  /\ entry = 0
  /\ WaitOn(t, "wait", Rx, Enqueue(Rx, t), limit)
  /\ UNCHANGED mqVars

RecvFail(t) ==
  /\ Failed(t, "wait")
  /\ Done(t)
  /\ UNCHANGED <<waitVars, queue, free, body, entry, got>>

RecvAgain(t, limit) ==
  /\ Looks(t, "wait", limit)
  /\ \/ UnlinkHead(t)
     \/ /\ entry = 0
        /\ WaitOn(t, "wait", Rx, Enqueue(Rx, t), limit)
        /\ UNCHANGED mqVars
     \/ /\ entry = 0 /\ limit = "none"
        /\ err' = [err EXCEPT ![t] = "ETIMEOUT"]
        /\ Done(t)
        /\ UNCHANGED <<wait, armed, queue, free, body, entry, got>>

\* The copy and the last section: the element becomes free.  Nobody reads a free
\* element before it has been filled again, and its body is forgotten.
RecvFree(t) ==
  /\ pc[t] = "copy"
  /\ got' = [got EXCEPT ![t] = body[mine[t]]]
  /\ body' = [body EXCEPT ![mine[t]] = SomeMsg]
  /\ free' = LinkFirst(free, mine[t])
  /\ ResumeOne(Tx)
  /\ Done(t)
  /\ UNCHANGED <<queue, entry>>

-----------------------------------------------------------------------------
\* rt_mq_control(mq, RT_IPC_CMD_RESET): one locked section.  What other threads
\* are copying stays theirs.
Reset(t) ==
  /\ Calls(t, Rx)
  /\ ResumeAllFailed({Rx, Tx})
  /\ queue' = <<>> /\ entry' = 0
  /\ free' = [i \in DOMAIN queue |-> queue[Len(queue) + 1 - i]] \o free
  /\ body' = [e \in Element |-> IF Linked(queue, e) THEN SomeMsg ELSE body[e]]
  /\ UNCHANGED <<callVars, left, mine, mail, got>>

\* What does not touch the queue itself.  (Discipline) It is not detached while
\* another thread copies.
Outside ==
  /\ \/ TimerExpires
     \/ \E t \in Thread :
          \/ RetryDetach(t, Rx, {Rx, Tx}) /\ (\A x \in Thread : mine[x] = None)
          \/ DetachTest(t, {Tx}) \/ DetachResume(t)
  /\ UNCHANGED <<left, mqVars>>

Next ==
  \/ Outside
  \/ \E m \in Msg, c \in {"fill", "urge"} : SendIsr(m, c)
  \/ \E t \in Thread :
       \/ RecvNow(t) \/ RecvFail(t) \/ RecvFree(t)
       \/ SendFail(t) \/ SendLink(t) \/ Reset(t)
       \/ \E m \in Msg, c \in {"fill", "urge"} : SendNow(t, m, c)
       \/ \E m \in Msg, limit \in Limits : SendWait(t, m, limit)
       \/ \E limit \in Limits : RecvWait(t, limit)
       \/ \E limit \in Remaining(t) : SendAgain(t, limit) \/ RecvAgain(t, limit)

Spec == Init /\ [][Next]_vars

-----------------------------------------------------------------------------
TypeOK ==
  /\ RetryTypeOK
  /\ queue \in Seq(Element) /\ free \in Seq(Element)
  /\ body \in [Element -> Msg]
  /\ entry \in 0..Cardinality(Element)
  /\ mine \in [Thread -> Element \union {None}]
  /\ mail \in [Thread -> Msg] /\ got \in [Thread -> Msg]

\* Every element is on the queue, on the free list or with one thread, and the
\* count is the length of the queue.
ElementsExact ==
  /\ Once(queue) /\ Once(free) /\ entry = Len(queue)
  /\ \A e \in Element :
       Cardinality({t \in Thread : mine[t] = e})
         = IF Linked(queue, e) \/ Linked(free, e) THEN 0 ELSE 1
  /\ \A e \in Element : ~(Linked(queue, e) /\ Linked(free, e))

\* No wake-up is lost: while receivers wait, every message has a woken one on its
\* way to it, and while senders wait, every free element a woken sender.
NoLostWakeup ==
  /\ wait[Rx] # <<>> => entry <= Cardinality(Woken("wait", Rx))
  /\ wait[Tx] # <<>> => Len(free) <= Cardinality(Woken("send", Tx))

\* A message counts as received when its element is off the queue.
Received == [t \in Thread |-> IF pc[t] = "copy" THEN body[mine[t]] ELSE got[t]]

\* The messages in the queue.
Mails == [i \in DOMAIN queue |-> body[queue[i]]]
=============================================================================
