------------------------------ MODULE RtObjects ------------------------------
(***************************************************************************)
(* One kernel object with waiters, of any class: a thread waits in one     *)
(* place at a time, and the objects share nothing but their threads, so a  *)
(* property of each class needs a single object of it.  The class is       *)
(* chosen in the initial state and stays.                                  *)
(***************************************************************************)
EXTENDS Naturals, FiniteSets

CONSTANTS
  Thread, Level,
  Rx, Tx,        \* the suspend lists
  Isr, None,
  Msg, Element,  \* messages, and the elements of a message queue
  Block,         \* the blocks of a memory pool
  Bits, Options  \* of an event

VARIABLES
  class,
  wait, armed, err, pc, on, gone, left,             \* every class
  pool, entry, in, out, mail, got,                  \* mailbox
  queue, free, body, mine,                          \* message queue
  set, want, option, asked,                         \* event
  blocks, count, used,                              \* memory pool
  value, owner, hold, original, prio, depth, mixed  \* mutex

mailboxOnly == <<pool, in, out>>
queueOnly == <<queue, free, body, mine>>
channelVars == <<mailboxOnly, queueOnly, entry, mail, got>>
eventVars == <<set, want, option, asked>>
poolVars == <<blocks, count, used>>
mutexVars == <<value, owner, hold, original, prio, depth, mixed>>
callVars == <<pc, on, gone>>
vars == <<class, wait, armed, err, callVars, left, channelVars, eventVars, poolVars, mutexVars>>

\* Two places, waits with a time limit; and waits for ever and the detach.
Mailbox == INSTANCE RtMailbox WITH
  List <- {Rx, Tx}, PrioList <- {Rx, Tx}, Size <- Cardinality(Element), Limits <- {"some"},
  Timed <- {}, Detaches <- FALSE, DetachUnarmed <- TRUE

MailboxForEver == INSTANCE RtMailbox WITH
  List <- {Rx, Tx}, PrioList <- {}, Size <- Cardinality(Element), Limits <- {"never"},
  Timed <- {}, Detaches <- TRUE, DetachUnarmed <- TRUE

\* The order of several messages; and the time limits and the detach.
Queue == INSTANCE RtMessageQueue WITH
  List <- {Rx, Tx}, PrioList <- {Rx, Tx}, Limits <- {"never"},
  Timed <- {}, Detaches <- FALSE, DetachUnarmed <- TRUE

QueueInTime == INSTANCE RtMessageQueue WITH
  List <- {Rx, Tx}, PrioList <- {}, Limits <- {"some", "never"},
  Msg <- {CHOOSE m \in Msg : TRUE},
  Timed <- {}, Detaches <- TRUE, DetachUnarmed <- TRUE

Event == INSTANCE RtEvent WITH
  List <- {Rx}, PrioList <- {Rx}, Event <- Rx,
  Timed <- BOOLEAN, Detaches <- TRUE, DetachUnarmed <- TRUE

MemPool == INSTANCE RtMemPool WITH
  List <- {Rx}, PrioList <- {}, Pool <- Rx, Limits <- {"some", "never"},
  Timed <- {}, Detaches <- TRUE, DetachUnarmed <- TRUE

\* One mutex and the detach; and two mutexes, one held inside the other.
Mutex == INSTANCE RtMutex WITH
  List <- {Rx}, PrioList <- {}, HoldMax <- 2, Nesting <- FALSE,
  Timed <- BOOLEAN, Detaches <- TRUE, DetachUnarmed <- TRUE

Mutexes == INSTANCE RtMutex WITH
  List <- {Rx, Tx}, PrioList <- {Rx, Tx}, HoldMax <- 2, Nesting <- TRUE,
  Timed <- {TRUE}, Detaches <- FALSE, DetachUnarmed <- TRUE

ASSUME ObjectsAssumption ==
  /\ IsFiniteSet(Thread) /\ Level \in [Thread -> Nat] /\ Rx # Tx
  /\ Mailbox!MailboxConstants /\ Mailbox!RetryConstants
  /\ Queue!MessageQueueConstants
  /\ Event!EventConstants
  /\ MemPool!PoolConstants
  /\ Mutex!MutexConstants

-----------------------------------------------------------------------------
\* The variables of a class that is not there.
NoMailbox == pool = <<>> /\ in = <<>> /\ out = <<>>
NoQueue == queue = <<>> /\ free = <<>> /\ body = <<>> /\ mine = <<>>
NoChannel == NoMailbox /\ NoQueue /\ entry = <<>> /\ mail = <<>> /\ got = <<>>
NoEvent == set = <<>> /\ want = <<>> /\ option = <<>> /\ asked = <<>>
NoPool == blocks = <<>> /\ count = <<>> /\ used = <<>>
NoMutex ==
  /\ value = <<>> /\ owner = <<>> /\ hold = <<>> /\ original = <<>>
  /\ prio = <<>> /\ depth = <<>> /\ mixed = <<>>
NoLoop == left = <<>>

Init ==
  \/ /\ class = "mailbox" /\ Mailbox!Init
     /\ NoQueue /\ NoEvent /\ NoPool /\ NoMutex
  \/ /\ class = "mailbox for ever" /\ MailboxForEver!Init
     /\ NoQueue /\ NoEvent /\ NoPool /\ NoMutex
  \/ /\ class = "queue" /\ Queue!Init
     /\ NoMailbox /\ NoEvent /\ NoPool /\ NoMutex
  \/ /\ class = "queue in time" /\ QueueInTime!Init
     /\ NoMailbox /\ NoEvent /\ NoPool /\ NoMutex
  \/ /\ class = "event" /\ Event!Init
     /\ NoLoop /\ NoChannel /\ NoPool /\ NoMutex
  \/ /\ class = "pool" /\ MemPool!Init
     /\ NoChannel /\ NoEvent /\ NoMutex
  \/ /\ class = "mutex" /\ Mutex!Init
     /\ NoLoop /\ NoChannel /\ NoEvent /\ NoPool
  \/ /\ class = "mutexes" /\ Mutexes!Init
     /\ NoLoop /\ NoChannel /\ NoEvent /\ NoPool

Next ==
  /\ UNCHANGED class
  /\ \/ /\ class = "mailbox" /\ Mailbox!Next
        /\ UNCHANGED <<queueOnly, eventVars, poolVars, mutexVars>>
     \/ /\ class = "mailbox for ever" /\ MailboxForEver!Next
        /\ UNCHANGED <<queueOnly, eventVars, poolVars, mutexVars>>
     \/ /\ class = "queue" /\ Queue!Next
        /\ UNCHANGED <<mailboxOnly, eventVars, poolVars, mutexVars>>
     \/ /\ class = "queue in time" /\ QueueInTime!Next
        /\ UNCHANGED <<mailboxOnly, eventVars, poolVars, mutexVars>>
     \/ /\ class = "event" /\ Event!Next
        /\ UNCHANGED <<left, channelVars, poolVars, mutexVars>>
     \/ /\ class = "pool" /\ MemPool!Next
        /\ UNCHANGED <<channelVars, eventVars, mutexVars>>
     \/ /\ class = "mutex" /\ Mutex!Next
        /\ UNCHANGED <<left, channelVars, eventVars, poolVars>>
     \/ /\ class = "mutexes" /\ Mutexes!Next
        /\ UNCHANGED <<left, channelVars, eventVars, poolVars>>

Spec == Init /\ [][Next]_vars

-----------------------------------------------------------------------------
MailboxClass == class \in {"mailbox", "mailbox for ever"}
QueueClass == class \in {"queue", "queue in time"}
MutexClass == class \in {"mutex", "mutexes"}

TypeOK ==
  /\ MailboxClass => Mailbox!TypeOK
  /\ QueueClass => Queue!TypeOK
  /\ class = "event" => Event!TypeOK
  /\ class = "pool" => MemPool!TypeOK
  /\ class = "mutex" => Mutex!TypeOK
  /\ class = "mutexes" => Mutexes!TypeOK

\* While threads wait, every mail, message, free place, element or block has a
\* woken thread on its way to it, although a woken thread may find that another
\* one was faster and wait again, or time out.
NoLostWakeup ==
  /\ MailboxClass => Mailbox!NoLostWakeup
  /\ QueueClass => Queue!NoLostWakeup
  /\ class = "pool" => MemPool!NoLostWakeup

\* Nobody waits for a mutex that is free or its own, or for an event set that
\* would satisfy it.
NobodyWaitsForNothing ==
  /\ class = "mutex" => Mutex!NobodyWaitsForNothing
  /\ class = "mutexes" => Mutexes!NobodyWaitsForNothing
  /\ class = "event" => Event!NobodyWaitsForNothing

\* Everything is in its range, a nested mutex within its limit; mails lie between the
\* offsets of the ring, and elements of a message queue and blocks of a pool are in one
\* place each, also while threads copy into them with interrupts enabled.
PiecesExact ==
  /\ TypeOK
  /\ MailboxClass => Mailbox!RingConsistent
  /\ QueueClass => Queue!ElementsExact
  /\ class = "pool" => MemPool!BlocksExact

\* A detach leaves nobody waiting for an object that is gone, and only threads
\* are resumed on the way.
DetachWakesAll ==
  /\ MailboxClass \/ QueueClass => Mailbox!DetachWakesAll /\ Mailbox!ResumesThreads
  /\ class \in {"event", "pool", "mutex"} => Event!DetachWakesAll /\ Event!ResumesThreads

\* Mutual exclusion, with nesting, time limits and hand-over.
OneInside ==
  /\ class = "mutex" => Mutex!OneInside
  /\ class = "mutexes" => Mutexes!OneInside

\* A mutex owner is not outranked by a waiter, and gets its priority back.
PriorityInherited ==
  class = "mutexes" => Mutexes!OwnerOutranks /\ Mutexes!PriorityRestored

\* One send hands each bit that a receiver clears to one receiver, and a woken
\* receiver has what it asked for when it runs at last.
BitsGoOnce ==
  [][class = "event" => Event!BitsGoOnceStep /\ Event!GotWhatItAskedFor']_vars

\* The messages of a mailbox or a message queue, and what was received.
Mails ==
  CASE MailboxClass -> Mailbox!Mails
    [] QueueClass -> Queue!Mails
    [] OTHER -> <<>>

Received ==
  CASE MailboxClass -> got
    [] QueueClass -> Queue!Received
    [] OTHER -> [t \in Thread |-> CHOOSE m \in Msg : TRUE]

Channel == INSTANCE RtChannel WITH
  mails <- Mails, got <- Received, urgent <- QueueClass, Size <- Cardinality(Element)

\* The mailbox, and the message queue with its urgent sends, are bounded FIFO
\* channels.
IsChannel == Channel!ChannelSpec
=============================================================================
