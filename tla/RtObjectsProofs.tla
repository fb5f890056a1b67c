--------------------------- MODULE RtObjectsProofs --------------------------
(***************************************************************************)
(* The objects of RtObjects, for any threads, priorities, messages, blocks *)
(* and bits: each class is one of RtClassProofs, and keeps its invariant.  *)
(***************************************************************************)
EXTENDS RtObjects, Sequences, TLAPS

\* The objects with two lists of waiters, or with one, in the order of priority or of arrival.
PairPrio == INSTANCE RtClassProofs WITH
  List <- {Rx, Tx}, PrioList <- {Rx, Tx}, Size <- Cardinality(Element), HoldMax <- 2, Nesting <- TRUE,
  Limits <- {"some", "never"}, Timed <- BOOLEAN, Detaches <- TRUE, DetachUnarmed <- TRUE

PairFifo == INSTANCE RtClassProofs WITH
  List <- {Rx, Tx}, PrioList <- {}, Size <- Cardinality(Element), HoldMax <- 2, Nesting <- FALSE,
  Limits <- {"some", "never"}, Timed <- BOOLEAN, Detaches <- TRUE, DetachUnarmed <- TRUE

OnePrio == INSTANCE RtClassProofs WITH
  List <- {Rx}, PrioList <- {Rx}, Size <- Cardinality(Element), HoldMax <- 2, Nesting <- FALSE,
  Limits <- {"some", "never"}, Timed <- BOOLEAN, Detaches <- TRUE, DetachUnarmed <- TRUE

OneFifo == INSTANCE RtClassProofs WITH
  List <- {Rx}, PrioList <- {}, Size <- Cardinality(Element), HoldMax <- 2, Nesting <- FALSE,
  Limits <- {"some", "never"}, Timed <- BOOLEAN, Detaches <- TRUE, DetachUnarmed <- TRUE

-----------------------------------------------------------------------------
(* What the classes ask of their constants *)

LEMMA SizeFacts ==
  /\ Cardinality(Element) \in Nat \ {0} /\ IsFiniteSet(Element) /\ None \notin Element
  /\ Msg # {} /\ Rx # Tx /\ Isr \notin Thread /\ IsFiniteSet(Block) /\ None \notin Thread
  /\ Options # {} /\ Options \subseteq [all : BOOLEAN, clear : BOOLEAN]
BY ObjectsAssumption DEF Mailbox!MailboxConstants, Queue!MessageQueueConstants,
     Event!EventConstants, MemPool!PoolConstants, Mutex!MutexConstants,
     IsFiniteSet, Queue!IsFiniteSet, MemPool!IsFiniteSet

LEMMA Assumptions ==
  /\ PairPrio!WaitAssumption /\ PairPrio!ObjectAssumption
  /\ PairFifo!WaitAssumption /\ PairFifo!ObjectAssumption
  /\ OnePrio!WaitAssumption /\ OnePrio!ObjectAssumption
  /\ OneFifo!WaitAssumption /\ OneFifo!ObjectAssumption
  /\ PairPrio!MailAssumption /\ PairFifo!MailAssumption
  /\ PairPrio!QueueAssumption /\ PairFifo!QueueAssumption
  /\ OnePrio!EventAssumption /\ OneFifo!PoolAssumption
  /\ OneFifo!MutexConstants /\ OneFifo!LockCloses /\ PairPrio!MutexConstants
<1>1. PairPrio!MailAssumption /\ PairFifo!MailAssumption
  BY SizeFacts DEF PairPrio!MailAssumption, PairPrio!RetryConstants, PairPrio!Mailbox!MailboxConstants,
       PairFifo!MailAssumption, PairFifo!RetryConstants, PairFifo!Mailbox!MailboxConstants
<1>2. PairPrio!QueueAssumption /\ PairFifo!QueueAssumption
  BY SizeFacts DEF IsFiniteSet, PairPrio!QueueAssumption, PairPrio!RetryConstants,
       PairPrio!Queue!MessageQueueConstants, PairPrio!Queue!IsFiniteSet,
       PairFifo!QueueAssumption, PairFifo!RetryConstants, PairFifo!Queue!MessageQueueConstants,
       PairFifo!Queue!IsFiniteSet
<1>3. OnePrio!EventAssumption /\ OneFifo!PoolAssumption
  BY SizeFacts DEF IsFiniteSet, OnePrio!EventAssumption, OnePrio!Event!EventConstants,
       OneFifo!PoolAssumption, OneFifo!MemPool!PoolConstants, OneFifo!MemPool!IsFiniteSet,
       OneFifo!RetryConstants
<1>4. OneFifo!MutexConstants /\ OneFifo!LockCloses /\ PairPrio!MutexConstants
  BY SizeFacts DEF OneFifo!MutexConstants, OneFifo!LockCloses, PairPrio!MutexConstants
<1>5. /\ PairPrio!WaitAssumption /\ PairPrio!ObjectAssumption
      /\ PairFifo!WaitAssumption /\ PairFifo!ObjectAssumption
      /\ OnePrio!WaitAssumption /\ OnePrio!ObjectAssumption
      /\ OneFifo!WaitAssumption /\ OneFifo!ObjectAssumption
  BY ObjectsAssumption DEF IsFiniteSet, PairPrio!IsFiniteSet, PairPrio!WaitAssumption, PairPrio!ObjectAssumption,
       PairFifo!IsFiniteSet, PairFifo!WaitAssumption, PairFifo!ObjectAssumption,
       OnePrio!IsFiniteSet, OnePrio!WaitAssumption, OnePrio!ObjectAssumption,
       OneFifo!IsFiniteSet, OneFifo!WaitAssumption, OneFifo!ObjectAssumption
<1> QED BY <1>1, <1>2, <1>3, <1>4, <1>5

-----------------------------------------------------------------------------
(* Each class of RtObjects is one of RtClassProofs *)

\* Class "mailbox" is the mailbox of PairPrio.
LEMMA MailboxStart == Mailbox!Init => PairPrio!Mailbox!Init
BY DEF Mailbox!Init, Mailbox!RetryInit, Mailbox!ObjectInit, Mailbox!WaitInit, Mailbox!SomeList,
     Mailbox!Place, Mailbox!SomeMsg, PairPrio!Mailbox!Init, PairPrio!Mailbox!RetryInit,
     PairPrio!Mailbox!ObjectInit, PairPrio!Mailbox!WaitInit, PairPrio!Mailbox!SomeList,
     PairPrio!Mailbox!Place, PairPrio!Mailbox!SomeMsg

LEMMA MailboxSteps == Mailbox!Next => PairPrio!Mailbox!Next
<1>1. Mailbox!Outside => PairPrio!Mailbox!Outside
  BY Zenon DEF Mailbox!Outside, Mailbox!TimerExpires, Mailbox!Timeout, Mailbox!Unlink, Mailbox!Linked,
     Mailbox!CutOut, Mailbox!Position, Mailbox!callVars, Mailbox!RetryDetach, Mailbox!Suspended,
     Mailbox!Detach, Mailbox!Calls, Mailbox!Goto, Mailbox!waitVars, Mailbox!DetachTest,
     Mailbox!Return, Mailbox!SomeList, Mailbox!DetachResume, Mailbox!ResumeFailed, Mailbox!ring,
     PairPrio!Mailbox!Outside, PairPrio!Mailbox!TimerExpires, PairPrio!Mailbox!Timeout,
     PairPrio!Mailbox!Unlink, PairPrio!Mailbox!Linked, PairPrio!Mailbox!CutOut,
     PairPrio!Mailbox!Position, PairPrio!Mailbox!callVars, PairPrio!Mailbox!RetryDetach,
     PairPrio!Mailbox!Suspended, PairPrio!Mailbox!Detach, PairPrio!Mailbox!Calls,
     PairPrio!Mailbox!Goto, PairPrio!Mailbox!waitVars, PairPrio!Mailbox!DetachTest,
     PairPrio!Mailbox!Return, PairPrio!Mailbox!SomeList, PairPrio!Mailbox!DetachResume,
     PairPrio!Mailbox!ResumeFailed, PairPrio!Mailbox!ring
<1>2. \A m : Mailbox!SendIsr(m) => PairPrio!Mailbox!SendIsr(m)
  BY DEF Mailbox!SendIsr, Mailbox!Put, Mailbox!NextPlace, Mailbox!ResumeOne, Mailbox!Resume,
     Mailbox!waitVars, Mailbox!callVars, PairPrio!Mailbox!SendIsr, PairPrio!Mailbox!Put,
     PairPrio!Mailbox!NextPlace, PairPrio!Mailbox!ResumeOne, PairPrio!Mailbox!Resume,
     PairPrio!Mailbox!waitVars, PairPrio!Mailbox!callVars
<1>3. \A t : Mailbox!RecvNow(t) => PairPrio!Mailbox!RecvNow(t)
  BY DEF Mailbox!RecvNow, Mailbox!Calls, Mailbox!Take, Mailbox!NextPlace, Mailbox!ResumeOne,
     Mailbox!Resume, Mailbox!waitVars, Mailbox!callVars, PairPrio!Mailbox!RecvNow,
     PairPrio!Mailbox!Calls, PairPrio!Mailbox!Take, PairPrio!Mailbox!NextPlace,
     PairPrio!Mailbox!ResumeOne, PairPrio!Mailbox!Resume, PairPrio!Mailbox!waitVars,
     PairPrio!Mailbox!callVars
<1>4. \A t : Mailbox!RecvFail(t) => PairPrio!Mailbox!RecvFail(t)
  BY DEF Mailbox!RecvFail, Mailbox!Failed, Mailbox!Back, Mailbox!Suspended, Mailbox!Linked,
     Mailbox!Done, Mailbox!Over, Mailbox!Return, Mailbox!Goto, Mailbox!SomeList, Mailbox!Remains,
     Mailbox!SomeMsg, Mailbox!waitVars, Mailbox!ring, PairPrio!Mailbox!RecvFail,
     PairPrio!Mailbox!Failed, PairPrio!Mailbox!Back, PairPrio!Mailbox!Suspended,
     PairPrio!Mailbox!Linked, PairPrio!Mailbox!Done, PairPrio!Mailbox!Over,
     PairPrio!Mailbox!Return, PairPrio!Mailbox!Goto, PairPrio!Mailbox!SomeList,
     PairPrio!Mailbox!Remains, PairPrio!Mailbox!SomeMsg, PairPrio!Mailbox!waitVars,
     PairPrio!Mailbox!ring
<1>5. \A t : Mailbox!SendFail(t) => PairPrio!Mailbox!SendFail(t)
  BY DEF Mailbox!SendFail, Mailbox!Failed, Mailbox!Back, Mailbox!Suspended, Mailbox!Linked,
     Mailbox!Done, Mailbox!Over, Mailbox!Return, Mailbox!Goto, Mailbox!SomeList, Mailbox!Remains,
     Mailbox!SomeMsg, Mailbox!waitVars, Mailbox!ring, PairPrio!Mailbox!SendFail,
     PairPrio!Mailbox!Failed, PairPrio!Mailbox!Back, PairPrio!Mailbox!Suspended,
     PairPrio!Mailbox!Linked, PairPrio!Mailbox!Done, PairPrio!Mailbox!Over,
     PairPrio!Mailbox!Return, PairPrio!Mailbox!Goto, PairPrio!Mailbox!SomeList,
     PairPrio!Mailbox!Remains, PairPrio!Mailbox!SomeMsg, PairPrio!Mailbox!waitVars,
     PairPrio!Mailbox!ring
<1>6. \A t : Mailbox!Reset(t) => PairPrio!Mailbox!Reset(t)
  BY DEF Mailbox!Reset, Mailbox!Calls, Mailbox!ResumeAllFailed, Mailbox!Linked, Mailbox!callVars,
     PairPrio!Mailbox!Reset, PairPrio!Mailbox!Calls, PairPrio!Mailbox!ResumeAllFailed,
     PairPrio!Mailbox!Linked, PairPrio!Mailbox!callVars
<1>7. \A t, m : Mailbox!SendNow(t, m) => PairPrio!Mailbox!SendNow(t, m)
  BY DEF Mailbox!SendNow, Mailbox!Calls, Mailbox!Put, Mailbox!NextPlace, Mailbox!ResumeOne,
     Mailbox!Resume, Mailbox!waitVars, Mailbox!callVars, PairPrio!Mailbox!SendNow,
     PairPrio!Mailbox!Calls, PairPrio!Mailbox!Put, PairPrio!Mailbox!NextPlace,
     PairPrio!Mailbox!ResumeOne, PairPrio!Mailbox!Resume, PairPrio!Mailbox!waitVars,
     PairPrio!Mailbox!callVars
<1>8. \A t, m, limit : Mailbox!SendWait(t, m, limit) => PairPrio!Mailbox!SendWait(t, m, limit)
  BY DEF Mailbox!SendWait, Mailbox!Calls, Mailbox!WaitOn, Mailbox!Park, Mailbox!Goto,
     Mailbox!Remains, Mailbox!Enqueue, Mailbox!LinkBefore, Mailbox!PutIn, Mailbox!FirstOf,
     Mailbox!Lower, Mailbox!ring, PairPrio!Mailbox!SendWait, PairPrio!Mailbox!Calls,
     PairPrio!Mailbox!WaitOn, PairPrio!Mailbox!Park, PairPrio!Mailbox!Goto,
     PairPrio!Mailbox!Remains, PairPrio!Mailbox!Enqueue, PairPrio!Mailbox!LinkBefore,
     PairPrio!Mailbox!PutIn, PairPrio!Mailbox!FirstOf, PairPrio!Mailbox!Lower,
     PairPrio!Mailbox!ring
<1>9. \A t, limit : Mailbox!RecvWait(t, limit) => PairPrio!Mailbox!RecvWait(t, limit)
  BY DEF Mailbox!RecvWait, Mailbox!Calls, Mailbox!WaitOn, Mailbox!Park, Mailbox!Goto,
     Mailbox!Remains, Mailbox!Enqueue, Mailbox!LinkBefore, Mailbox!PutIn, Mailbox!FirstOf,
     Mailbox!Lower, Mailbox!ring, PairPrio!Mailbox!RecvWait, PairPrio!Mailbox!Calls,
     PairPrio!Mailbox!WaitOn, PairPrio!Mailbox!Park, PairPrio!Mailbox!Goto,
     PairPrio!Mailbox!Remains, PairPrio!Mailbox!Enqueue, PairPrio!Mailbox!LinkBefore,
     PairPrio!Mailbox!PutIn, PairPrio!Mailbox!FirstOf, PairPrio!Mailbox!Lower,
     PairPrio!Mailbox!ring
<1>10. \A t : Mailbox!Remaining(t) = PairPrio!Mailbox!Remaining(t)
  BY DEF Mailbox!Remaining, PairPrio!Mailbox!Remaining
<1>11. \A t, limit : Mailbox!SendAgain(t, limit) => PairPrio!Mailbox!SendAgain(t, limit)
  BY Zenon DEF Mailbox!SendAgain, Mailbox!Looks, Mailbox!Back, Mailbox!Suspended, Mailbox!Linked,
     Mailbox!Remaining, Mailbox!Put, Mailbox!NextPlace, Mailbox!ResumeOne, Mailbox!Resume,
     Mailbox!waitVars, Mailbox!Done, Mailbox!Over, Mailbox!Return, Mailbox!Goto,
     Mailbox!SomeList, Mailbox!Remains, Mailbox!SomeMsg, Mailbox!WaitOn, Mailbox!Park,
     Mailbox!Enqueue, Mailbox!LinkBefore, Mailbox!PutIn, Mailbox!FirstOf, Mailbox!Lower,
     Mailbox!ring, PairPrio!Mailbox!SendAgain, PairPrio!Mailbox!Looks, PairPrio!Mailbox!Back,
     PairPrio!Mailbox!Suspended, PairPrio!Mailbox!Linked, PairPrio!Mailbox!Remaining,
     PairPrio!Mailbox!Put, PairPrio!Mailbox!NextPlace, PairPrio!Mailbox!ResumeOne,
     PairPrio!Mailbox!Resume, PairPrio!Mailbox!waitVars, PairPrio!Mailbox!Done,
     PairPrio!Mailbox!Over, PairPrio!Mailbox!Return, PairPrio!Mailbox!Goto,
     PairPrio!Mailbox!SomeList, PairPrio!Mailbox!Remains, PairPrio!Mailbox!SomeMsg,
     PairPrio!Mailbox!WaitOn, PairPrio!Mailbox!Park, PairPrio!Mailbox!Enqueue,
     PairPrio!Mailbox!LinkBefore, PairPrio!Mailbox!PutIn, PairPrio!Mailbox!FirstOf,
     PairPrio!Mailbox!Lower, PairPrio!Mailbox!ring
<1>12. \A t, limit : Mailbox!RecvAgain(t, limit) => PairPrio!Mailbox!RecvAgain(t, limit)
  BY Zenon DEF Mailbox!RecvAgain, Mailbox!Looks, Mailbox!Back, Mailbox!Suspended, Mailbox!Linked,
     Mailbox!Remaining, Mailbox!Take, Mailbox!NextPlace, Mailbox!ResumeOne, Mailbox!Resume,
     Mailbox!waitVars, Mailbox!Done, Mailbox!Over, Mailbox!Return, Mailbox!Goto,
     Mailbox!SomeList, Mailbox!Remains, Mailbox!SomeMsg, Mailbox!WaitOn, Mailbox!Park,
     Mailbox!Enqueue, Mailbox!LinkBefore, Mailbox!PutIn, Mailbox!FirstOf, Mailbox!Lower,
     Mailbox!ring, PairPrio!Mailbox!RecvAgain, PairPrio!Mailbox!Looks, PairPrio!Mailbox!Back,
     PairPrio!Mailbox!Suspended, PairPrio!Mailbox!Linked, PairPrio!Mailbox!Remaining,
     PairPrio!Mailbox!Take, PairPrio!Mailbox!NextPlace, PairPrio!Mailbox!ResumeOne,
     PairPrio!Mailbox!Resume, PairPrio!Mailbox!waitVars, PairPrio!Mailbox!Done,
     PairPrio!Mailbox!Over, PairPrio!Mailbox!Return, PairPrio!Mailbox!Goto,
     PairPrio!Mailbox!SomeList, PairPrio!Mailbox!Remains, PairPrio!Mailbox!SomeMsg,
     PairPrio!Mailbox!WaitOn, PairPrio!Mailbox!Park, PairPrio!Mailbox!Enqueue,
     PairPrio!Mailbox!LinkBefore, PairPrio!Mailbox!PutIn, PairPrio!Mailbox!FirstOf,
     PairPrio!Mailbox!Lower, PairPrio!Mailbox!ring
<1> QED
  BY <1>1, <1>2, <1>3, <1>4, <1>5, <1>6, <1>7, <1>8, <1>9, <1>10, <1>11, <1>12
  DEF Mailbox!Next, PairPrio!Mailbox!Next

\* Class "mailbox for ever" is the mailbox of PairFifo.
LEMMA MailboxForEverStart == MailboxForEver!Init => PairFifo!Mailbox!Init
BY DEF MailboxForEver!Init, MailboxForEver!RetryInit, MailboxForEver!ObjectInit,
     MailboxForEver!WaitInit, MailboxForEver!SomeList, MailboxForEver!Place,
     MailboxForEver!SomeMsg, PairFifo!Mailbox!Init, PairFifo!Mailbox!RetryInit,
     PairFifo!Mailbox!ObjectInit, PairFifo!Mailbox!WaitInit, PairFifo!Mailbox!SomeList,
     PairFifo!Mailbox!Place, PairFifo!Mailbox!SomeMsg

LEMMA MailboxForEverSteps == MailboxForEver!Next => PairFifo!Mailbox!Next
<1>1. MailboxForEver!Outside => PairFifo!Mailbox!Outside
  BY Zenon DEF MailboxForEver!Outside, MailboxForEver!TimerExpires, MailboxForEver!Timeout,
     MailboxForEver!Unlink, MailboxForEver!Linked, MailboxForEver!CutOut,
     MailboxForEver!Position, MailboxForEver!callVars, MailboxForEver!RetryDetach,
     MailboxForEver!Suspended, MailboxForEver!Detach, MailboxForEver!Calls, MailboxForEver!Goto,
     MailboxForEver!waitVars, MailboxForEver!DetachTest, MailboxForEver!Return,
     MailboxForEver!SomeList, MailboxForEver!DetachResume, MailboxForEver!ResumeFailed,
     MailboxForEver!ring, PairFifo!Mailbox!Outside, PairFifo!Mailbox!TimerExpires,
     PairFifo!Mailbox!Timeout, PairFifo!Mailbox!Unlink, PairFifo!Mailbox!Linked,
     PairFifo!Mailbox!CutOut, PairFifo!Mailbox!Position, PairFifo!Mailbox!callVars,
     PairFifo!Mailbox!RetryDetach, PairFifo!Mailbox!Suspended, PairFifo!Mailbox!Detach,
     PairFifo!Mailbox!Calls, PairFifo!Mailbox!Goto, PairFifo!Mailbox!waitVars,
     PairFifo!Mailbox!DetachTest, PairFifo!Mailbox!Return, PairFifo!Mailbox!SomeList,
     PairFifo!Mailbox!DetachResume, PairFifo!Mailbox!ResumeFailed, PairFifo!Mailbox!ring
<1>2. \A m : MailboxForEver!SendIsr(m) => PairFifo!Mailbox!SendIsr(m)
  BY DEF MailboxForEver!SendIsr, MailboxForEver!Put, MailboxForEver!NextPlace,
     MailboxForEver!ResumeOne, MailboxForEver!Resume, MailboxForEver!waitVars,
     MailboxForEver!callVars, PairFifo!Mailbox!SendIsr, PairFifo!Mailbox!Put,
     PairFifo!Mailbox!NextPlace, PairFifo!Mailbox!ResumeOne, PairFifo!Mailbox!Resume,
     PairFifo!Mailbox!waitVars, PairFifo!Mailbox!callVars
<1>3. \A t : MailboxForEver!RecvNow(t) => PairFifo!Mailbox!RecvNow(t)
  BY DEF MailboxForEver!RecvNow, MailboxForEver!Calls, MailboxForEver!Take, MailboxForEver!NextPlace,
     MailboxForEver!ResumeOne, MailboxForEver!Resume, MailboxForEver!waitVars,
     MailboxForEver!callVars, PairFifo!Mailbox!RecvNow, PairFifo!Mailbox!Calls,
     PairFifo!Mailbox!Take, PairFifo!Mailbox!NextPlace, PairFifo!Mailbox!ResumeOne,
     PairFifo!Mailbox!Resume, PairFifo!Mailbox!waitVars, PairFifo!Mailbox!callVars
<1>4. \A t : MailboxForEver!RecvFail(t) => PairFifo!Mailbox!RecvFail(t)
  BY DEF MailboxForEver!RecvFail, MailboxForEver!Failed, MailboxForEver!Back,
     MailboxForEver!Suspended, MailboxForEver!Linked, MailboxForEver!Done, MailboxForEver!Over,
     MailboxForEver!Return, MailboxForEver!Goto, MailboxForEver!SomeList, MailboxForEver!Remains,
     MailboxForEver!SomeMsg, MailboxForEver!waitVars, MailboxForEver!ring,
     PairFifo!Mailbox!RecvFail, PairFifo!Mailbox!Failed, PairFifo!Mailbox!Back,
     PairFifo!Mailbox!Suspended, PairFifo!Mailbox!Linked, PairFifo!Mailbox!Done,
     PairFifo!Mailbox!Over, PairFifo!Mailbox!Return, PairFifo!Mailbox!Goto,
     PairFifo!Mailbox!SomeList, PairFifo!Mailbox!Remains, PairFifo!Mailbox!SomeMsg,
     PairFifo!Mailbox!waitVars, PairFifo!Mailbox!ring
<1>5. \A t : MailboxForEver!SendFail(t) => PairFifo!Mailbox!SendFail(t)
  BY DEF MailboxForEver!SendFail, MailboxForEver!Failed, MailboxForEver!Back,
     MailboxForEver!Suspended, MailboxForEver!Linked, MailboxForEver!Done, MailboxForEver!Over,
     MailboxForEver!Return, MailboxForEver!Goto, MailboxForEver!SomeList, MailboxForEver!Remains,
     MailboxForEver!SomeMsg, MailboxForEver!waitVars, MailboxForEver!ring,
     PairFifo!Mailbox!SendFail, PairFifo!Mailbox!Failed, PairFifo!Mailbox!Back,
     PairFifo!Mailbox!Suspended, PairFifo!Mailbox!Linked, PairFifo!Mailbox!Done,
     PairFifo!Mailbox!Over, PairFifo!Mailbox!Return, PairFifo!Mailbox!Goto,
     PairFifo!Mailbox!SomeList, PairFifo!Mailbox!Remains, PairFifo!Mailbox!SomeMsg,
     PairFifo!Mailbox!waitVars, PairFifo!Mailbox!ring
<1>6. \A t : MailboxForEver!Reset(t) => PairFifo!Mailbox!Reset(t)
  BY DEF MailboxForEver!Reset, MailboxForEver!Calls, MailboxForEver!ResumeAllFailed,
     MailboxForEver!Linked, MailboxForEver!callVars, PairFifo!Mailbox!Reset,
     PairFifo!Mailbox!Calls, PairFifo!Mailbox!ResumeAllFailed, PairFifo!Mailbox!Linked,
     PairFifo!Mailbox!callVars
<1>7. \A t, m : MailboxForEver!SendNow(t, m) => PairFifo!Mailbox!SendNow(t, m)
  BY DEF MailboxForEver!SendNow, MailboxForEver!Calls, MailboxForEver!Put, MailboxForEver!NextPlace,
     MailboxForEver!ResumeOne, MailboxForEver!Resume, MailboxForEver!waitVars,
     MailboxForEver!callVars, PairFifo!Mailbox!SendNow, PairFifo!Mailbox!Calls,
     PairFifo!Mailbox!Put, PairFifo!Mailbox!NextPlace, PairFifo!Mailbox!ResumeOne,
     PairFifo!Mailbox!Resume, PairFifo!Mailbox!waitVars, PairFifo!Mailbox!callVars
<1>8. \A t, m, limit : MailboxForEver!SendWait(t, m, limit) => PairFifo!Mailbox!SendWait(t, m, limit)
  BY DEF MailboxForEver!SendWait, MailboxForEver!Calls, MailboxForEver!WaitOn, MailboxForEver!Park,
     MailboxForEver!Goto, MailboxForEver!Remains, MailboxForEver!Enqueue,
     MailboxForEver!LinkBefore, MailboxForEver!PutIn, MailboxForEver!FirstOf,
     MailboxForEver!Lower, MailboxForEver!ring, PairFifo!Mailbox!SendWait,
     PairFifo!Mailbox!Calls, PairFifo!Mailbox!WaitOn, PairFifo!Mailbox!Park,
     PairFifo!Mailbox!Goto, PairFifo!Mailbox!Remains, PairFifo!Mailbox!Enqueue,
     PairFifo!Mailbox!LinkBefore, PairFifo!Mailbox!PutIn, PairFifo!Mailbox!FirstOf,
     PairFifo!Mailbox!Lower, PairFifo!Mailbox!ring
<1>9. \A t, limit : MailboxForEver!RecvWait(t, limit) => PairFifo!Mailbox!RecvWait(t, limit)
  BY DEF MailboxForEver!RecvWait, MailboxForEver!Calls, MailboxForEver!WaitOn, MailboxForEver!Park,
     MailboxForEver!Goto, MailboxForEver!Remains, MailboxForEver!Enqueue,
     MailboxForEver!LinkBefore, MailboxForEver!PutIn, MailboxForEver!FirstOf,
     MailboxForEver!Lower, MailboxForEver!ring, PairFifo!Mailbox!RecvWait,
     PairFifo!Mailbox!Calls, PairFifo!Mailbox!WaitOn, PairFifo!Mailbox!Park,
     PairFifo!Mailbox!Goto, PairFifo!Mailbox!Remains, PairFifo!Mailbox!Enqueue,
     PairFifo!Mailbox!LinkBefore, PairFifo!Mailbox!PutIn, PairFifo!Mailbox!FirstOf,
     PairFifo!Mailbox!Lower, PairFifo!Mailbox!ring
<1>10. \A t : MailboxForEver!Remaining(t) = PairFifo!Mailbox!Remaining(t)
  BY DEF MailboxForEver!Remaining, PairFifo!Mailbox!Remaining
<1>11. \A t, limit : MailboxForEver!SendAgain(t, limit) => PairFifo!Mailbox!SendAgain(t, limit)
  BY DEF MailboxForEver!SendAgain, MailboxForEver!Looks, MailboxForEver!Back,
     MailboxForEver!Suspended, MailboxForEver!Linked, MailboxForEver!Remaining,
     MailboxForEver!Put, MailboxForEver!NextPlace, MailboxForEver!ResumeOne,
     MailboxForEver!Resume, MailboxForEver!waitVars, MailboxForEver!Done, MailboxForEver!Over,
     MailboxForEver!Return, MailboxForEver!Goto, MailboxForEver!SomeList, MailboxForEver!Remains,
     MailboxForEver!SomeMsg, MailboxForEver!WaitOn, MailboxForEver!Park, MailboxForEver!Enqueue,
     MailboxForEver!LinkBefore, MailboxForEver!PutIn, MailboxForEver!FirstOf,
     MailboxForEver!Lower, MailboxForEver!ring, PairFifo!Mailbox!SendAgain,
     PairFifo!Mailbox!Looks, PairFifo!Mailbox!Back, PairFifo!Mailbox!Suspended,
     PairFifo!Mailbox!Linked, PairFifo!Mailbox!Remaining, PairFifo!Mailbox!Put,
     PairFifo!Mailbox!NextPlace, PairFifo!Mailbox!ResumeOne, PairFifo!Mailbox!Resume,
     PairFifo!Mailbox!waitVars, PairFifo!Mailbox!Done, PairFifo!Mailbox!Over,
     PairFifo!Mailbox!Return, PairFifo!Mailbox!Goto, PairFifo!Mailbox!SomeList,
     PairFifo!Mailbox!Remains, PairFifo!Mailbox!SomeMsg, PairFifo!Mailbox!WaitOn,
     PairFifo!Mailbox!Park, PairFifo!Mailbox!Enqueue, PairFifo!Mailbox!LinkBefore,
     PairFifo!Mailbox!PutIn, PairFifo!Mailbox!FirstOf, PairFifo!Mailbox!Lower,
     PairFifo!Mailbox!ring
<1>12. \A t, limit : MailboxForEver!RecvAgain(t, limit) => PairFifo!Mailbox!RecvAgain(t, limit)
  BY DEF MailboxForEver!RecvAgain, MailboxForEver!Looks, MailboxForEver!Back,
     MailboxForEver!Suspended, MailboxForEver!Linked, MailboxForEver!Remaining,
     MailboxForEver!Take, MailboxForEver!NextPlace, MailboxForEver!ResumeOne,
     MailboxForEver!Resume, MailboxForEver!waitVars, MailboxForEver!Done, MailboxForEver!Over,
     MailboxForEver!Return, MailboxForEver!Goto, MailboxForEver!SomeList, MailboxForEver!Remains,
     MailboxForEver!SomeMsg, MailboxForEver!WaitOn, MailboxForEver!Park, MailboxForEver!Enqueue,
     MailboxForEver!LinkBefore, MailboxForEver!PutIn, MailboxForEver!FirstOf,
     MailboxForEver!Lower, MailboxForEver!ring, PairFifo!Mailbox!RecvAgain,
     PairFifo!Mailbox!Looks, PairFifo!Mailbox!Back, PairFifo!Mailbox!Suspended,
     PairFifo!Mailbox!Linked, PairFifo!Mailbox!Remaining, PairFifo!Mailbox!Take,
     PairFifo!Mailbox!NextPlace, PairFifo!Mailbox!ResumeOne, PairFifo!Mailbox!Resume,
     PairFifo!Mailbox!waitVars, PairFifo!Mailbox!Done, PairFifo!Mailbox!Over,
     PairFifo!Mailbox!Return, PairFifo!Mailbox!Goto, PairFifo!Mailbox!SomeList,
     PairFifo!Mailbox!Remains, PairFifo!Mailbox!SomeMsg, PairFifo!Mailbox!WaitOn,
     PairFifo!Mailbox!Park, PairFifo!Mailbox!Enqueue, PairFifo!Mailbox!LinkBefore,
     PairFifo!Mailbox!PutIn, PairFifo!Mailbox!FirstOf, PairFifo!Mailbox!Lower,
     PairFifo!Mailbox!ring
<1> QED
  BY <1>1, <1>2, <1>3, <1>4, <1>5, <1>6, <1>7, <1>8, <1>9, <1>10, <1>11, <1>12
  DEF MailboxForEver!Next, PairFifo!Mailbox!Next

\* Class "queue" is the message queue of PairPrio.
LEMMA QueueStart == Queue!Init => PairPrio!Queue!Init
BY DEF Queue!Init, Queue!RetryInit, Queue!ObjectInit, Queue!WaitInit, Queue!SomeList, Queue!ListOf,
     Queue!Once, Queue!SomeMsg, PairPrio!Queue!Init, PairPrio!Queue!RetryInit,
     PairPrio!Queue!ObjectInit, PairPrio!Queue!WaitInit, PairPrio!Queue!SomeList,
     PairPrio!Queue!ListOf, PairPrio!Queue!Once, PairPrio!Queue!SomeMsg,
     Cardinality, IsFiniteSet, Queue!Cardinality, Queue!IsFiniteSet, PairPrio!Queue!Cardinality, PairPrio!Queue!IsFiniteSet

LEMMA QueueSteps == Queue!Next => PairPrio!Queue!Next
<1>1. Queue!Outside => PairPrio!Queue!Outside
  BY Zenon DEF Queue!Outside, Queue!TimerExpires, Queue!Timeout, Queue!Unlink, Queue!Linked, Queue!CutOut,
     Queue!Position, Queue!callVars, Queue!RetryDetach, Queue!Suspended, Queue!Detach,
     Queue!Calls, Queue!Goto, Queue!waitVars, Queue!DetachTest, Queue!Return, Queue!SomeList,
     Queue!DetachResume, Queue!ResumeFailed, Queue!mqVars, PairPrio!Queue!Outside,
     PairPrio!Queue!TimerExpires, PairPrio!Queue!Timeout, PairPrio!Queue!Unlink,
     PairPrio!Queue!Linked, PairPrio!Queue!CutOut, PairPrio!Queue!Position,
     PairPrio!Queue!callVars, PairPrio!Queue!RetryDetach, PairPrio!Queue!Suspended,
     PairPrio!Queue!Detach, PairPrio!Queue!Calls, PairPrio!Queue!Goto, PairPrio!Queue!waitVars,
     PairPrio!Queue!DetachTest, PairPrio!Queue!Return, PairPrio!Queue!SomeList,
     PairPrio!Queue!DetachResume, PairPrio!Queue!ResumeFailed, PairPrio!Queue!mqVars
<1>2. \A m, c : Queue!SendIsr(m, c) => PairPrio!Queue!SendIsr(m, c)
  BY DEF Queue!SendIsr, Queue!Link, Queue!LinkLast, Queue!LinkFirst, Queue!ResumeOne, Queue!Resume,
     Queue!waitVars, Queue!callVars, PairPrio!Queue!SendIsr, PairPrio!Queue!Link,
     PairPrio!Queue!LinkLast, PairPrio!Queue!LinkFirst, PairPrio!Queue!ResumeOne,
     PairPrio!Queue!Resume, PairPrio!Queue!waitVars, PairPrio!Queue!callVars
<1>3. \A t : Queue!RecvNow(t) => PairPrio!Queue!RecvNow(t)
  BY DEF Queue!RecvNow, Queue!Calls, Queue!UnlinkHead, Queue!Copies, Queue!Goto, Queue!Remains,
     Queue!waitVars, PairPrio!Queue!RecvNow, PairPrio!Queue!Calls, PairPrio!Queue!UnlinkHead,
     PairPrio!Queue!Copies, PairPrio!Queue!Goto, PairPrio!Queue!Remains, PairPrio!Queue!waitVars
<1>4. \A t : Queue!RecvFail(t) => PairPrio!Queue!RecvFail(t)
  BY DEF Queue!RecvFail, Queue!Failed, Queue!Back, Queue!Suspended, Queue!Linked, Queue!Done,
     Queue!Over, Queue!Return, Queue!Goto, Queue!SomeList, Queue!Remains, Queue!SomeMsg,
     Queue!waitVars, PairPrio!Queue!RecvFail, PairPrio!Queue!Failed, PairPrio!Queue!Back,
     PairPrio!Queue!Suspended, PairPrio!Queue!Linked, PairPrio!Queue!Done, PairPrio!Queue!Over,
     PairPrio!Queue!Return, PairPrio!Queue!Goto, PairPrio!Queue!SomeList, PairPrio!Queue!Remains,
     PairPrio!Queue!SomeMsg, PairPrio!Queue!waitVars
<1>5. \A t : Queue!RecvFree(t) => PairPrio!Queue!RecvFree(t)
  BY DEF Queue!RecvFree, Queue!SomeMsg, Queue!LinkFirst, Queue!ResumeOne, Queue!Resume,
     Queue!waitVars, Queue!Done, Queue!Over, Queue!Return, Queue!Goto, Queue!SomeList,
     Queue!Remains, PairPrio!Queue!RecvFree, PairPrio!Queue!SomeMsg, PairPrio!Queue!LinkFirst,
     PairPrio!Queue!ResumeOne, PairPrio!Queue!Resume, PairPrio!Queue!waitVars,
     PairPrio!Queue!Done, PairPrio!Queue!Over, PairPrio!Queue!Return, PairPrio!Queue!Goto,
     PairPrio!Queue!SomeList, PairPrio!Queue!Remains
<1>6. \A t : Queue!SendFail(t) => PairPrio!Queue!SendFail(t)
  BY DEF Queue!SendFail, Queue!Failed, Queue!Back, Queue!Suspended, Queue!Linked, Queue!Done,
     Queue!Over, Queue!Return, Queue!Goto, Queue!SomeList, Queue!Remains, Queue!SomeMsg,
     Queue!waitVars, PairPrio!Queue!SendFail, PairPrio!Queue!Failed, PairPrio!Queue!Back,
     PairPrio!Queue!Suspended, PairPrio!Queue!Linked, PairPrio!Queue!Done, PairPrio!Queue!Over,
     PairPrio!Queue!Return, PairPrio!Queue!Goto, PairPrio!Queue!SomeList, PairPrio!Queue!Remains,
     PairPrio!Queue!SomeMsg, PairPrio!Queue!waitVars
<1>7. \A t : Queue!SendLink(t) => PairPrio!Queue!SendLink(t)
  BY DEF Queue!SendLink, Queue!Link, Queue!LinkLast, Queue!LinkFirst, Queue!ResumeOne, Queue!Resume,
     Queue!waitVars, Queue!Done, Queue!Over, Queue!Return, Queue!Goto, Queue!SomeList,
     Queue!Remains, Queue!SomeMsg, PairPrio!Queue!SendLink, PairPrio!Queue!Link,
     PairPrio!Queue!LinkLast, PairPrio!Queue!LinkFirst, PairPrio!Queue!ResumeOne,
     PairPrio!Queue!Resume, PairPrio!Queue!waitVars, PairPrio!Queue!Done, PairPrio!Queue!Over,
     PairPrio!Queue!Return, PairPrio!Queue!Goto, PairPrio!Queue!SomeList, PairPrio!Queue!Remains,
     PairPrio!Queue!SomeMsg
<1>8. \A t : Queue!Reset(t) => PairPrio!Queue!Reset(t)
  BY DEF Queue!Reset, Queue!Calls, Queue!ResumeAllFailed, Queue!Linked, Queue!SomeMsg,
     Queue!callVars, PairPrio!Queue!Reset, PairPrio!Queue!Calls, PairPrio!Queue!ResumeAllFailed,
     PairPrio!Queue!Linked, PairPrio!Queue!SomeMsg, PairPrio!Queue!callVars
<1>9. \A t, m, c : Queue!SendNow(t, m, c) => PairPrio!Queue!SendNow(t, m, c)
  BY DEF Queue!SendNow, Queue!Calls, Queue!GetElement, Queue!Copies, Queue!Goto, Queue!Remains,
     Queue!waitVars, PairPrio!Queue!SendNow, PairPrio!Queue!Calls, PairPrio!Queue!GetElement,
     PairPrio!Queue!Copies, PairPrio!Queue!Goto, PairPrio!Queue!Remains, PairPrio!Queue!waitVars
<1>10. \A t, m, limit : Queue!SendWait(t, m, limit) => PairPrio!Queue!SendWait(t, m, limit)
  BY DEF Queue!SendWait, Queue!Calls, Queue!WaitOn, Queue!Park, Queue!Goto, Queue!Remains,
     Queue!Enqueue, Queue!LinkBefore, Queue!PutIn, Queue!FirstOf, Queue!Lower,
     PairPrio!Queue!SendWait, PairPrio!Queue!Calls, PairPrio!Queue!WaitOn, PairPrio!Queue!Park,
     PairPrio!Queue!Goto, PairPrio!Queue!Remains, PairPrio!Queue!Enqueue,
     PairPrio!Queue!LinkBefore, PairPrio!Queue!PutIn, PairPrio!Queue!FirstOf,
     PairPrio!Queue!Lower
<1>11. \A t, limit : Queue!RecvWait(t, limit) => PairPrio!Queue!RecvWait(t, limit)
  BY DEF Queue!RecvWait, Queue!Calls, Queue!WaitOn, Queue!Park, Queue!Goto, Queue!Remains,
     Queue!Enqueue, Queue!LinkBefore, Queue!PutIn, Queue!FirstOf, Queue!Lower, Queue!mqVars,
     PairPrio!Queue!RecvWait, PairPrio!Queue!Calls, PairPrio!Queue!WaitOn, PairPrio!Queue!Park,
     PairPrio!Queue!Goto, PairPrio!Queue!Remains, PairPrio!Queue!Enqueue,
     PairPrio!Queue!LinkBefore, PairPrio!Queue!PutIn, PairPrio!Queue!FirstOf,
     PairPrio!Queue!Lower, PairPrio!Queue!mqVars
<1>12. \A t : Queue!Remaining(t) = PairPrio!Queue!Remaining(t)
  BY DEF Queue!Remaining, PairPrio!Queue!Remaining
<1>13. \A t, limit : Queue!SendAgain(t, limit) => PairPrio!Queue!SendAgain(t, limit)
  BY Zenon DEF Queue!SendAgain, Queue!Looks, Queue!Back, Queue!Suspended, Queue!Linked, Queue!Remaining,
     Queue!GetElement, Queue!Copies, Queue!Goto, Queue!Remains, Queue!waitVars, Queue!WaitOn,
     Queue!Park, Queue!Enqueue, Queue!LinkBefore, Queue!PutIn, Queue!FirstOf, Queue!Lower,
     Queue!mqVars, Queue!Done, Queue!Over, Queue!Return, Queue!SomeList, Queue!SomeMsg,
     PairPrio!Queue!SendAgain, PairPrio!Queue!Looks, PairPrio!Queue!Back,
     PairPrio!Queue!Suspended, PairPrio!Queue!Linked, PairPrio!Queue!Remaining,
     PairPrio!Queue!GetElement, PairPrio!Queue!Copies, PairPrio!Queue!Goto,
     PairPrio!Queue!Remains, PairPrio!Queue!waitVars, PairPrio!Queue!WaitOn, PairPrio!Queue!Park,
     PairPrio!Queue!Enqueue, PairPrio!Queue!LinkBefore, PairPrio!Queue!PutIn,
     PairPrio!Queue!FirstOf, PairPrio!Queue!Lower, PairPrio!Queue!mqVars, PairPrio!Queue!Done,
     PairPrio!Queue!Over, PairPrio!Queue!Return, PairPrio!Queue!SomeList, PairPrio!Queue!SomeMsg
<1>14. \A t, limit : Queue!RecvAgain(t, limit) => PairPrio!Queue!RecvAgain(t, limit)
  BY Zenon DEF Queue!RecvAgain, Queue!Looks, Queue!Back, Queue!Suspended, Queue!Linked, Queue!Remaining,
     Queue!UnlinkHead, Queue!Copies, Queue!Goto, Queue!Remains, Queue!waitVars, Queue!WaitOn,
     Queue!Park, Queue!Enqueue, Queue!LinkBefore, Queue!PutIn, Queue!FirstOf, Queue!Lower,
     Queue!mqVars, Queue!Done, Queue!Over, Queue!Return, Queue!SomeList, Queue!SomeMsg,
     PairPrio!Queue!RecvAgain, PairPrio!Queue!Looks, PairPrio!Queue!Back,
     PairPrio!Queue!Suspended, PairPrio!Queue!Linked, PairPrio!Queue!Remaining,
     PairPrio!Queue!UnlinkHead, PairPrio!Queue!Copies, PairPrio!Queue!Goto,
     PairPrio!Queue!Remains, PairPrio!Queue!waitVars, PairPrio!Queue!WaitOn, PairPrio!Queue!Park,
     PairPrio!Queue!Enqueue, PairPrio!Queue!LinkBefore, PairPrio!Queue!PutIn,
     PairPrio!Queue!FirstOf, PairPrio!Queue!Lower, PairPrio!Queue!mqVars, PairPrio!Queue!Done,
     PairPrio!Queue!Over, PairPrio!Queue!Return, PairPrio!Queue!SomeList, PairPrio!Queue!SomeMsg
<1> QED
  BY <1>1, <1>2, <1>3, <1>4, <1>5, <1>6, <1>7, <1>8, <1>9, <1>10, <1>11, <1>12, <1>13, <1>14
  DEF Queue!Next, PairPrio!Queue!Next

\* Class "queue in time" is the message queue of PairFifo.
LEMMA QueueInTimeStart == QueueInTime!Init => PairFifo!Queue!Init
BY DEF QueueInTime!Init, QueueInTime!RetryInit, QueueInTime!ObjectInit, QueueInTime!WaitInit,
     QueueInTime!SomeList, QueueInTime!ListOf, QueueInTime!Once, QueueInTime!SomeMsg,
     PairFifo!Queue!Init, PairFifo!Queue!RetryInit, PairFifo!Queue!ObjectInit,
     PairFifo!Queue!WaitInit, PairFifo!Queue!SomeList, PairFifo!Queue!ListOf,
     PairFifo!Queue!Once, PairFifo!Queue!SomeMsg,
     Cardinality, IsFiniteSet, QueueInTime!Cardinality, QueueInTime!IsFiniteSet, PairFifo!Queue!Cardinality, PairFifo!Queue!IsFiniteSet

LEMMA QueueInTimeSteps == QueueInTime!Next => PairFifo!Queue!Next
<1>0. QueueInTime!SomeMsg = PairFifo!Queue!SomeMsg
  BY DEF QueueInTime!SomeMsg, PairFifo!Queue!SomeMsg
<1>1. QueueInTime!Outside => PairFifo!Queue!Outside
  BY Zenon DEF QueueInTime!Outside, QueueInTime!TimerExpires, QueueInTime!Timeout, QueueInTime!Unlink,
     QueueInTime!Linked, QueueInTime!CutOut, QueueInTime!Position, QueueInTime!callVars,
     QueueInTime!RetryDetach, QueueInTime!Suspended, QueueInTime!Detach, QueueInTime!Calls,
     QueueInTime!Goto, QueueInTime!waitVars, QueueInTime!DetachTest, QueueInTime!Return,
     QueueInTime!SomeList, QueueInTime!DetachResume, QueueInTime!ResumeFailed,
     QueueInTime!mqVars, PairFifo!Queue!Outside, PairFifo!Queue!TimerExpires,
     PairFifo!Queue!Timeout, PairFifo!Queue!Unlink, PairFifo!Queue!Linked, PairFifo!Queue!CutOut,
     PairFifo!Queue!Position, PairFifo!Queue!callVars, PairFifo!Queue!RetryDetach,
     PairFifo!Queue!Suspended, PairFifo!Queue!Detach, PairFifo!Queue!Calls, PairFifo!Queue!Goto,
     PairFifo!Queue!waitVars, PairFifo!Queue!DetachTest, PairFifo!Queue!Return,
     PairFifo!Queue!SomeList, PairFifo!Queue!DetachResume, PairFifo!Queue!ResumeFailed,
     PairFifo!Queue!mqVars
<1>2. \A m, c : QueueInTime!SendIsr(m, c) => PairFifo!Queue!SendIsr(m, c)
  BY DEF QueueInTime!SendIsr, QueueInTime!Link, QueueInTime!LinkLast, QueueInTime!LinkFirst,
     QueueInTime!ResumeOne, QueueInTime!Resume, QueueInTime!waitVars, QueueInTime!callVars,
     PairFifo!Queue!SendIsr, PairFifo!Queue!Link, PairFifo!Queue!LinkLast,
     PairFifo!Queue!LinkFirst, PairFifo!Queue!ResumeOne, PairFifo!Queue!Resume,
     PairFifo!Queue!waitVars, PairFifo!Queue!callVars
<1>3. \A t : QueueInTime!RecvNow(t) => PairFifo!Queue!RecvNow(t)
  BY DEF QueueInTime!RecvNow, QueueInTime!Calls, QueueInTime!UnlinkHead, QueueInTime!Copies,
     QueueInTime!Goto, QueueInTime!Remains, QueueInTime!waitVars, PairFifo!Queue!RecvNow,
     PairFifo!Queue!Calls, PairFifo!Queue!UnlinkHead, PairFifo!Queue!Copies, PairFifo!Queue!Goto,
     PairFifo!Queue!Remains, PairFifo!Queue!waitVars
<1>4. \A t : QueueInTime!RecvFail(t) => PairFifo!Queue!RecvFail(t)
  BY <1>0 DEF QueueInTime!RecvFail, QueueInTime!Failed, QueueInTime!Back, QueueInTime!Suspended,
     QueueInTime!Linked, QueueInTime!Done, QueueInTime!Over, QueueInTime!Return,
     QueueInTime!Goto, QueueInTime!SomeList, QueueInTime!Remains, QueueInTime!waitVars,
     PairFifo!Queue!RecvFail, PairFifo!Queue!Failed, PairFifo!Queue!Back,
     PairFifo!Queue!Suspended, PairFifo!Queue!Linked, PairFifo!Queue!Done, PairFifo!Queue!Over,
     PairFifo!Queue!Return, PairFifo!Queue!Goto, PairFifo!Queue!SomeList, PairFifo!Queue!Remains,
     PairFifo!Queue!waitVars
<1>5. \A t : QueueInTime!RecvFree(t) => PairFifo!Queue!RecvFree(t)
  BY <1>0 DEF QueueInTime!RecvFree, QueueInTime!LinkFirst, QueueInTime!ResumeOne,
     QueueInTime!Resume, QueueInTime!waitVars, QueueInTime!Done, QueueInTime!Over,
     QueueInTime!Return, QueueInTime!Goto, QueueInTime!SomeList, QueueInTime!Remains,
     PairFifo!Queue!RecvFree, PairFifo!Queue!LinkFirst, PairFifo!Queue!ResumeOne,
     PairFifo!Queue!Resume, PairFifo!Queue!waitVars, PairFifo!Queue!Done, PairFifo!Queue!Over,
     PairFifo!Queue!Return, PairFifo!Queue!Goto, PairFifo!Queue!SomeList, PairFifo!Queue!Remains
<1>6. \A t : QueueInTime!SendFail(t) => PairFifo!Queue!SendFail(t)
  BY <1>0 DEF QueueInTime!SendFail, QueueInTime!Failed, QueueInTime!Back, QueueInTime!Suspended,
     QueueInTime!Linked, QueueInTime!Done, QueueInTime!Over, QueueInTime!Return,
     QueueInTime!Goto, QueueInTime!SomeList, QueueInTime!Remains, QueueInTime!waitVars,
     PairFifo!Queue!SendFail, PairFifo!Queue!Failed, PairFifo!Queue!Back,
     PairFifo!Queue!Suspended, PairFifo!Queue!Linked, PairFifo!Queue!Done, PairFifo!Queue!Over,
     PairFifo!Queue!Return, PairFifo!Queue!Goto, PairFifo!Queue!SomeList, PairFifo!Queue!Remains,
     PairFifo!Queue!waitVars
<1>7. \A t : QueueInTime!SendLink(t) => PairFifo!Queue!SendLink(t)
  BY <1>0 DEF QueueInTime!SendLink, QueueInTime!Link, QueueInTime!LinkLast,
     QueueInTime!LinkFirst, QueueInTime!ResumeOne, QueueInTime!Resume, QueueInTime!waitVars,
     QueueInTime!Done, QueueInTime!Over, QueueInTime!Return, QueueInTime!Goto,
     QueueInTime!SomeList, QueueInTime!Remains, PairFifo!Queue!SendLink, PairFifo!Queue!Link,
     PairFifo!Queue!LinkLast, PairFifo!Queue!LinkFirst, PairFifo!Queue!ResumeOne,
     PairFifo!Queue!Resume, PairFifo!Queue!waitVars, PairFifo!Queue!Done, PairFifo!Queue!Over,
     PairFifo!Queue!Return, PairFifo!Queue!Goto, PairFifo!Queue!SomeList, PairFifo!Queue!Remains
<1>8. \A t : QueueInTime!Reset(t) => PairFifo!Queue!Reset(t)
  BY <1>0 DEF QueueInTime!Reset, QueueInTime!Calls, QueueInTime!ResumeAllFailed,
     QueueInTime!Linked, QueueInTime!callVars, PairFifo!Queue!Reset, PairFifo!Queue!Calls,
     PairFifo!Queue!ResumeAllFailed, PairFifo!Queue!Linked, PairFifo!Queue!callVars
<1>9. \A t, m, c : QueueInTime!SendNow(t, m, c) => PairFifo!Queue!SendNow(t, m, c)
  BY DEF QueueInTime!SendNow, QueueInTime!Calls, QueueInTime!GetElement, QueueInTime!Copies,
     QueueInTime!Goto, QueueInTime!Remains, QueueInTime!waitVars, PairFifo!Queue!SendNow,
     PairFifo!Queue!Calls, PairFifo!Queue!GetElement, PairFifo!Queue!Copies, PairFifo!Queue!Goto,
     PairFifo!Queue!Remains, PairFifo!Queue!waitVars
<1>10. \A t, m, limit : QueueInTime!SendWait(t, m, limit) => PairFifo!Queue!SendWait(t, m, limit)
  BY DEF QueueInTime!SendWait, QueueInTime!Calls, QueueInTime!WaitOn, QueueInTime!Park,
     QueueInTime!Goto, QueueInTime!Remains, QueueInTime!Enqueue, QueueInTime!LinkBefore,
     QueueInTime!PutIn, QueueInTime!FirstOf, QueueInTime!Lower, PairFifo!Queue!SendWait,
     PairFifo!Queue!Calls, PairFifo!Queue!WaitOn, PairFifo!Queue!Park, PairFifo!Queue!Goto,
     PairFifo!Queue!Remains, PairFifo!Queue!Enqueue, PairFifo!Queue!LinkBefore,
     PairFifo!Queue!PutIn, PairFifo!Queue!FirstOf, PairFifo!Queue!Lower
<1>11. \A t, limit : QueueInTime!RecvWait(t, limit) => PairFifo!Queue!RecvWait(t, limit)
  BY DEF QueueInTime!RecvWait, QueueInTime!Calls, QueueInTime!WaitOn, QueueInTime!Park,
     QueueInTime!Goto, QueueInTime!Remains, QueueInTime!Enqueue, QueueInTime!LinkBefore,
     QueueInTime!PutIn, QueueInTime!FirstOf, QueueInTime!Lower, QueueInTime!mqVars,
     PairFifo!Queue!RecvWait, PairFifo!Queue!Calls, PairFifo!Queue!WaitOn, PairFifo!Queue!Park,
     PairFifo!Queue!Goto, PairFifo!Queue!Remains, PairFifo!Queue!Enqueue,
     PairFifo!Queue!LinkBefore, PairFifo!Queue!PutIn, PairFifo!Queue!FirstOf,
     PairFifo!Queue!Lower, PairFifo!Queue!mqVars
<1>12. \A t : QueueInTime!Remaining(t) = PairFifo!Queue!Remaining(t)
  BY DEF QueueInTime!Remaining, PairFifo!Queue!Remaining
<1>13. \A t, limit : QueueInTime!SendAgain(t, limit) => PairFifo!Queue!SendAgain(t, limit)
  BY <1>0 DEF QueueInTime!SendAgain, QueueInTime!Looks, QueueInTime!Back, QueueInTime!Suspended,
     QueueInTime!Linked, QueueInTime!Remaining, QueueInTime!GetElement, QueueInTime!Copies,
     QueueInTime!Goto, QueueInTime!Remains, QueueInTime!waitVars, QueueInTime!WaitOn,
     QueueInTime!Park, QueueInTime!Enqueue, QueueInTime!LinkBefore, QueueInTime!PutIn,
     QueueInTime!FirstOf, QueueInTime!Lower, QueueInTime!mqVars, QueueInTime!Done,
     QueueInTime!Over, QueueInTime!Return, QueueInTime!SomeList, PairFifo!Queue!SendAgain,
     PairFifo!Queue!Looks, PairFifo!Queue!Back, PairFifo!Queue!Suspended, PairFifo!Queue!Linked,
     PairFifo!Queue!Remaining, PairFifo!Queue!GetElement, PairFifo!Queue!Copies,
     PairFifo!Queue!Goto, PairFifo!Queue!Remains, PairFifo!Queue!waitVars, PairFifo!Queue!WaitOn,
     PairFifo!Queue!Park, PairFifo!Queue!Enqueue, PairFifo!Queue!LinkBefore,
     PairFifo!Queue!PutIn, PairFifo!Queue!FirstOf, PairFifo!Queue!Lower, PairFifo!Queue!mqVars,
     PairFifo!Queue!Done, PairFifo!Queue!Over, PairFifo!Queue!Return, PairFifo!Queue!SomeList
<1>14. \A t, limit : QueueInTime!RecvAgain(t, limit) => PairFifo!Queue!RecvAgain(t, limit)
  BY <1>0 DEF QueueInTime!RecvAgain, QueueInTime!Looks, QueueInTime!Back, QueueInTime!Suspended,
     QueueInTime!Linked, QueueInTime!Remaining, QueueInTime!UnlinkHead, QueueInTime!Copies,
     QueueInTime!Goto, QueueInTime!Remains, QueueInTime!waitVars, QueueInTime!WaitOn,
     QueueInTime!Park, QueueInTime!Enqueue, QueueInTime!LinkBefore, QueueInTime!PutIn,
     QueueInTime!FirstOf, QueueInTime!Lower, QueueInTime!mqVars, QueueInTime!Done,
     QueueInTime!Over, QueueInTime!Return, QueueInTime!SomeList, PairFifo!Queue!RecvAgain,
     PairFifo!Queue!Looks, PairFifo!Queue!Back, PairFifo!Queue!Suspended, PairFifo!Queue!Linked,
     PairFifo!Queue!Remaining, PairFifo!Queue!UnlinkHead, PairFifo!Queue!Copies,
     PairFifo!Queue!Goto, PairFifo!Queue!Remains, PairFifo!Queue!waitVars, PairFifo!Queue!WaitOn,
     PairFifo!Queue!Park, PairFifo!Queue!Enqueue, PairFifo!Queue!LinkBefore,
     PairFifo!Queue!PutIn, PairFifo!Queue!FirstOf, PairFifo!Queue!Lower, PairFifo!Queue!mqVars,
     PairFifo!Queue!Done, PairFifo!Queue!Over, PairFifo!Queue!Return, PairFifo!Queue!SomeList
<1> QED
  BY <1>1, <1>2, <1>3, <1>4, <1>5, <1>6, <1>7, <1>8, <1>9, <1>10, <1>11, <1>12, <1>13, <1>14, ObjectsAssumption
  DEF QueueInTime!Next, PairFifo!Queue!Next, Mailbox!MailboxConstants

\* Class "event" is the event set of OnePrio.
LEMMA EventStart == Event!Init => OnePrio!Event!Init
BY DEF Event!Init, Event!ObjectInit, Event!WaitInit, Event!SomeList, Event!AnyOption,
     OnePrio!Event!Init, OnePrio!Event!ObjectInit, OnePrio!Event!WaitInit,
     OnePrio!Event!SomeList, OnePrio!Event!AnyOption

LEMMA EventSteps == Event!Next => OnePrio!Event!Next
BY Zenon DEF Event!Next, Event!Outside, Event!TimerExpires, Event!Timeout, Event!Unlink, Event!Linked,
     Event!CutOut, Event!Position, Event!callVars, Event!Detach, Event!Calls, Event!Goto,
     Event!waitVars, Event!DetachTest, Event!Return, Event!SomeList, Event!DetachResume,
     Event!ResumeFailed, Event!eventVars, Event!Interest, Event!Send, Event!Scan, Event!WokenAt,
     Event!Satisfies, Event!Served, Event!Left, Event!Got, Event!RecvReturn, Event!Back,
     Event!Suspended, Event!AnyOption, Event!Reset, Event!ResumeAllFailed, Event!RecvNow,
     Event!objectVars, Event!RecvWait, Event!Suspend, Event!Park, Event!Enqueue,
     Event!LinkBefore, Event!PutIn, Event!FirstOf, Event!Lower, OnePrio!Event!Next,
     OnePrio!Event!Outside, OnePrio!Event!TimerExpires, OnePrio!Event!Timeout,
     OnePrio!Event!Unlink, OnePrio!Event!Linked, OnePrio!Event!CutOut, OnePrio!Event!Position,
     OnePrio!Event!callVars, OnePrio!Event!Detach, OnePrio!Event!Calls, OnePrio!Event!Goto,
     OnePrio!Event!waitVars, OnePrio!Event!DetachTest, OnePrio!Event!Return,
     OnePrio!Event!SomeList, OnePrio!Event!DetachResume, OnePrio!Event!ResumeFailed,
     OnePrio!Event!eventVars, OnePrio!Event!Interest, OnePrio!Event!Send, OnePrio!Event!Scan,
     OnePrio!Event!WokenAt, OnePrio!Event!Satisfies, OnePrio!Event!Served, OnePrio!Event!Left,
     OnePrio!Event!Got, OnePrio!Event!RecvReturn, OnePrio!Event!Back, OnePrio!Event!Suspended,
     OnePrio!Event!AnyOption, OnePrio!Event!Reset, OnePrio!Event!ResumeAllFailed,
     OnePrio!Event!RecvNow, OnePrio!Event!objectVars, OnePrio!Event!RecvWait,
     OnePrio!Event!Suspend, OnePrio!Event!Park, OnePrio!Event!Enqueue, OnePrio!Event!LinkBefore,
     OnePrio!Event!PutIn, OnePrio!Event!FirstOf, OnePrio!Event!Lower

\* Class "pool" is the memory pool of OneFifo.
LEMMA MemPoolStart == MemPool!Init => OneFifo!MemPool!Init
BY DEF MemPool!Init, MemPool!RetryInit, MemPool!ObjectInit, MemPool!WaitInit, MemPool!SomeList,
     MemPool!ListOf, MemPool!Once, OneFifo!MemPool!Init, OneFifo!MemPool!RetryInit,
     OneFifo!MemPool!ObjectInit, OneFifo!MemPool!WaitInit, OneFifo!MemPool!SomeList,
     OneFifo!MemPool!ListOf, OneFifo!MemPool!Once,
     Cardinality, IsFiniteSet, MemPool!Cardinality, MemPool!IsFiniteSet, OneFifo!MemPool!Cardinality, OneFifo!MemPool!IsFiniteSet

LEMMA MemPoolSteps == MemPool!Next => OneFifo!MemPool!Next
BY Zenon DEF MemPool!Next, MemPool!Outside, MemPool!TimerExpires, MemPool!Timeout, MemPool!Unlink,
     MemPool!Linked, MemPool!CutOut, MemPool!Position, MemPool!callVars, MemPool!RetryDetach,
     MemPool!Suspended, MemPool!Detach, MemPool!Calls, MemPool!Goto, MemPool!waitVars,
     MemPool!DetachTest, MemPool!Return, MemPool!SomeList, MemPool!DetachResume,
     MemPool!ResumeFailed, MemPool!poolVars, MemPool!AllocIsr, MemPool!Pop, MemPool!loopVars,
     MemPool!objectVars, MemPool!Free, MemPool!LinkFirst, MemPool!ResumeOne, MemPool!Resume,
     MemPool!AllocNow, MemPool!AllocFail, MemPool!Failed, MemPool!Back, MemPool!Over,
     MemPool!Remains, MemPool!Pass, MemPool!AllocWait, MemPool!WaitOn, MemPool!Park,
     MemPool!Remaining, MemPool!AllocAgain, MemPool!Looks, OneFifo!MemPool!Next,
     OneFifo!MemPool!Outside, OneFifo!MemPool!TimerExpires, OneFifo!MemPool!Timeout,
     OneFifo!MemPool!Unlink, OneFifo!MemPool!Linked, OneFifo!MemPool!CutOut,
     OneFifo!MemPool!Position, OneFifo!MemPool!callVars, OneFifo!MemPool!RetryDetach,
     OneFifo!MemPool!Suspended, OneFifo!MemPool!Detach, OneFifo!MemPool!Calls,
     OneFifo!MemPool!Goto, OneFifo!MemPool!waitVars, OneFifo!MemPool!DetachTest,
     OneFifo!MemPool!Return, OneFifo!MemPool!SomeList, OneFifo!MemPool!DetachResume,
     OneFifo!MemPool!ResumeFailed, OneFifo!MemPool!poolVars, OneFifo!MemPool!AllocIsr,
     OneFifo!MemPool!Pop, OneFifo!MemPool!loopVars, OneFifo!MemPool!objectVars,
     OneFifo!MemPool!Free, OneFifo!MemPool!LinkFirst, OneFifo!MemPool!ResumeOne,
     OneFifo!MemPool!Resume, OneFifo!MemPool!AllocNow, OneFifo!MemPool!AllocFail,
     OneFifo!MemPool!Failed, OneFifo!MemPool!Back, OneFifo!MemPool!Over, OneFifo!MemPool!Remains,
     OneFifo!MemPool!Pass, OneFifo!MemPool!AllocWait, OneFifo!MemPool!WaitOn,
     OneFifo!MemPool!Park, OneFifo!MemPool!Remaining, OneFifo!MemPool!AllocAgain,
     OneFifo!MemPool!Looks

\* Class "mutex" is the mutex of OneFifo.
LEMMA MutexStart == Mutex!Init => OneFifo!Init
BY DEF Mutex!Init, Mutex!ObjectInit, Mutex!WaitInit, Mutex!SomeList, Mutex!NoPriority,
     OneFifo!Init, OneFifo!ObjectInit, OneFifo!WaitInit, OneFifo!SomeList, OneFifo!NoPriority

LEMMA MutexSteps == Mutex!Next => OneFifo!Next
BY Zenon DEF Mutex!Next, Mutex!Outside, Mutex!TimerExpires, Mutex!Timeout, Mutex!Unlink, Mutex!Linked,
     Mutex!CutOut, Mutex!Position, Mutex!callVars, Mutex!Detach, Mutex!Calls, Mutex!Goto,
     Mutex!waitVars, Mutex!DetachTest, Mutex!Return, Mutex!SomeList, Mutex!DetachResume,
     Mutex!ResumeFailed, Mutex!mutexVars, Mutex!lockVars, Mutex!TakeReturn, Mutex!Back,
     Mutex!Suspended, Mutex!Told, Mutex!TakeNow, Mutex!Asks, Mutex!Holds, Mutex!Mixes,
     Mutex!objectVars, Mutex!TakeAgain, Mutex!ReleaseNested, Mutex!ReleaseLast, Mutex!Restored,
     Mutex!Resume, Mutex!NoPriority, Mutex!TakeWait, Mutex!Inherited, Mutex!Park,
     Mutex!LinkBefore, Mutex!PutIn, Mutex!FirstOf, Mutex!Outranked, OneFifo!Next,
     OneFifo!Outside, OneFifo!TimerExpires, OneFifo!Timeout, OneFifo!Unlink, OneFifo!Linked,
     OneFifo!CutOut, OneFifo!Position, OneFifo!callVars, OneFifo!Detach, OneFifo!Calls,
     OneFifo!Goto, OneFifo!waitVars, OneFifo!DetachTest, OneFifo!Return, OneFifo!SomeList,
     OneFifo!DetachResume, OneFifo!ResumeFailed, OneFifo!mutexVars, OneFifo!lockVars,
     OneFifo!TakeReturn, OneFifo!Back, OneFifo!Suspended, OneFifo!Told, OneFifo!TakeNow,
     OneFifo!Asks, OneFifo!Holds, OneFifo!Mixes, OneFifo!objectVars, OneFifo!TakeAgain,
     OneFifo!ReleaseNested, OneFifo!ReleaseLast, OneFifo!Restored, OneFifo!Resume,
     OneFifo!NoPriority, OneFifo!TakeWait, OneFifo!Inherited, OneFifo!Park, OneFifo!LinkBefore,
     OneFifo!PutIn, OneFifo!FirstOf, OneFifo!Outranked

\* Class "mutexes" is the mutex of PairPrio.
LEMMA MutexesStart == Mutexes!Init => PairPrio!Init
BY DEF Mutexes!Init, Mutexes!ObjectInit, Mutexes!WaitInit, Mutexes!SomeList, Mutexes!NoPriority,
     PairPrio!Init, PairPrio!ObjectInit, PairPrio!WaitInit, PairPrio!SomeList,
     PairPrio!NoPriority

LEMMA MutexesSteps == Mutexes!Next => PairPrio!Next
<1>1. Mutexes!Outside => PairPrio!Outside
  BY Zenon DEF Mutexes!Outside, Mutexes!TimerExpires, Mutexes!Timeout, Mutexes!Unlink, Mutexes!Linked,
     Mutexes!CutOut, Mutexes!Position, Mutexes!callVars, Mutexes!Detach, Mutexes!Calls,
     Mutexes!Goto, Mutexes!waitVars, Mutexes!DetachTest, Mutexes!Return, Mutexes!SomeList,
     Mutexes!DetachResume, Mutexes!ResumeFailed, Mutexes!mutexVars, Mutexes!lockVars,
     PairPrio!Outside, PairPrio!TimerExpires, PairPrio!Timeout, PairPrio!Unlink, PairPrio!Linked,
     PairPrio!CutOut, PairPrio!Position, PairPrio!callVars, PairPrio!Detach, PairPrio!Calls,
     PairPrio!Goto, PairPrio!waitVars, PairPrio!DetachTest, PairPrio!Return, PairPrio!SomeList,
     PairPrio!DetachResume, PairPrio!ResumeFailed, PairPrio!mutexVars, PairPrio!lockVars
<1>2. \A t : Mutexes!TakeReturn(t) => PairPrio!TakeReturn(t)
  BY DEF Mutexes!TakeReturn, Mutexes!Back, Mutexes!Suspended, Mutexes!Linked, Mutexes!Told,
     Mutexes!Return, Mutexes!Goto, Mutexes!SomeList, Mutexes!waitVars, Mutexes!lockVars,
     PairPrio!TakeReturn, PairPrio!Back, PairPrio!Suspended, PairPrio!Linked, PairPrio!Told,
     PairPrio!Return, PairPrio!Goto, PairPrio!SomeList, PairPrio!waitVars, PairPrio!lockVars
<1>3. \A t, m : Mutexes!TakeNow(t, m) => PairPrio!TakeNow(t, m)
  BY DEF Mutexes!TakeNow, Mutexes!Asks, Mutexes!Calls, Mutexes!Holds, Mutexes!Told, Mutexes!Mixes,
     Mutexes!objectVars, Mutexes!waitVars, Mutexes!callVars, PairPrio!TakeNow, PairPrio!Asks,
     PairPrio!Calls, PairPrio!Holds, PairPrio!Told, PairPrio!Mixes, PairPrio!objectVars,
     PairPrio!waitVars, PairPrio!callVars
<1>4. \A t, m : Mutexes!TakeAgain(t, m) => PairPrio!TakeAgain(t, m)
  BY DEF Mutexes!TakeAgain, Mutexes!Asks, Mutexes!Calls, Mutexes!Holds, Mutexes!Told,
     Mutexes!objectVars, Mutexes!waitVars, Mutexes!callVars, PairPrio!TakeAgain, PairPrio!Asks,
     PairPrio!Calls, PairPrio!Holds, PairPrio!Told, PairPrio!objectVars, PairPrio!waitVars,
     PairPrio!callVars
<1>5. \A t, m : Mutexes!ReleaseNested(t, m) => PairPrio!ReleaseNested(t, m)
  BY DEF Mutexes!ReleaseNested, Mutexes!Calls, Mutexes!Told, Mutexes!objectVars, Mutexes!waitVars,
     Mutexes!callVars, PairPrio!ReleaseNested, PairPrio!Calls, PairPrio!Told,
     PairPrio!objectVars, PairPrio!waitVars, PairPrio!callVars
<1>6. \A t, m : Mutexes!ReleaseLast(t, m) => PairPrio!ReleaseLast(t, m)
  BY DEF Mutexes!ReleaseLast, Mutexes!Calls, Mutexes!Restored, Mutexes!Told, Mutexes!Resume,
     Mutexes!NoPriority, Mutexes!waitVars, Mutexes!callVars, PairPrio!ReleaseLast,
     PairPrio!Calls, PairPrio!Restored, PairPrio!Told, PairPrio!Resume, PairPrio!NoPriority,
     PairPrio!waitVars, PairPrio!callVars
<1>7. \A t, m, limited : Mutexes!TakeWait(t, m, limited) => PairPrio!TakeWait(t, m, limited)
  BY DEF Mutexes!TakeWait, Mutexes!Asks, Mutexes!Calls, Mutexes!Holds, Mutexes!Inherited,
     Mutexes!Park, Mutexes!LinkBefore, Mutexes!PutIn, Mutexes!FirstOf, Mutexes!Outranked,
     Mutexes!Goto, Mutexes!Mixes, Mutexes!lockVars, PairPrio!TakeWait, PairPrio!Asks,
     PairPrio!Calls, PairPrio!Holds, PairPrio!Inherited, PairPrio!Park, PairPrio!LinkBefore,
     PairPrio!PutIn, PairPrio!FirstOf, PairPrio!Outranked, PairPrio!Goto, PairPrio!Mixes,
     PairPrio!lockVars
<1> QED
  BY <1>1, <1>2, <1>3, <1>4, <1>5, <1>6, <1>7
  DEF Mutexes!Next, PairPrio!Next

-----------------------------------------------------------------------------
(* The invariant *)

ObjectsInv ==
  /\ class \in {"mailbox", "mailbox for ever", "queue", "queue in time",
               "event", "pool", "mutex", "mutexes"}
  /\ class = "mailbox" => PairPrio!MailInv
  /\ class = "mailbox for ever" => PairFifo!MailInv
  /\ class = "queue" => PairPrio!QueueInv
  /\ class = "queue in time" => PairFifo!QueueInv
  /\ class = "event" => OnePrio!EventInv
  /\ class = "pool" => OneFifo!PoolInv
  /\ class = "mutex" => OneFifo!LockInv /\ OneFifo!CloseInv
  /\ class = "mutexes" => PairPrio!PrioInv

LEMMA ObjectsInit == Init => ObjectsInv
<1> SUFFICES ASSUME Init PROVE ObjectsInv
  OBVIOUS
<1>1. Mailbox!Init => PairPrio!MailInv
  BY Assumptions, MailboxStart, PairPrio!MailInit
<1>2. MailboxForEver!Init => PairFifo!MailInv
  BY Assumptions, MailboxForEverStart, PairFifo!MailInit
<1>3. Queue!Init => PairPrio!QueueInv
  BY Assumptions, QueueStart, PairPrio!QueueInit
<1>4. QueueInTime!Init => PairFifo!QueueInv
  BY Assumptions, QueueInTimeStart, PairFifo!QueueInit
<1>5. Event!Init => OnePrio!EventInv
  BY Assumptions, EventStart, OnePrio!EventInit
<1>6. MemPool!Init => OneFifo!PoolInv
  BY Assumptions, MemPoolStart, OneFifo!PoolInit
<1>7. Mutex!Init => OneFifo!LockInv /\ OneFifo!CloseInv
  BY Assumptions, MutexStart, OneFifo!LockInit, OneFifo!LockClosed
<1>8. Mutexes!Init => PairPrio!PrioInv
  BY Assumptions, MutexesStart, PairPrio!PrioInit
<1> QED BY <1>1, <1>2, <1>3, <1>4, <1>5, <1>6, <1>7, <1>8 DEF Init, ObjectsInv

\* A step keeps the class and its invariant.
LEMMA MailboxKept ==
  ASSUME class = "mailbox", PairPrio!MailInv, [Next]_vars
  PROVE  class' = class /\ PairPrio!MailInv' /\ PairPrio!MailStep
<1>1. class' = class /\ [PairPrio!Mailbox!Next]_PairPrio!Mailbox!vars
  <2>1. CASE UNCHANGED vars
    BY <2>1 DEF vars, callVars, mailboxOnly, queueOnly, channelVars, eventVars, poolVars, mutexVars,
         PairPrio!Mailbox!vars, PairPrio!Mailbox!loopVars, PairPrio!Mailbox!objectVars,
         PairPrio!Mailbox!waitVars, PairPrio!Mailbox!callVars, PairPrio!Mailbox!ring
  <2>2. CASE Next
    <3>1. class' = class /\ Mailbox!Next
      BY <2>2 DEF Next
    <3> QED BY <3>1, MailboxSteps
  <2> QED BY <2>1, <2>2
<1> QED BY <1>1, Assumptions, PairPrio!MailNext

LEMMA MailboxForEverKept ==
  ASSUME class = "mailbox for ever", PairFifo!MailInv, [Next]_vars
  PROVE  class' = class /\ PairFifo!MailInv' /\ PairFifo!MailStep
<1>1. class' = class /\ [PairFifo!Mailbox!Next]_PairFifo!Mailbox!vars
  <2>1. CASE UNCHANGED vars
    BY <2>1 DEF vars, callVars, mailboxOnly, queueOnly, channelVars, eventVars, poolVars, mutexVars,
         PairFifo!Mailbox!vars, PairFifo!Mailbox!loopVars, PairFifo!Mailbox!objectVars,
         PairFifo!Mailbox!waitVars, PairFifo!Mailbox!callVars, PairFifo!Mailbox!ring
  <2>2. CASE Next
    <3>1. class' = class /\ MailboxForEver!Next
      BY <2>2 DEF Next
    <3> QED BY <3>1, MailboxForEverSteps
  <2> QED BY <2>1, <2>2
<1> QED BY <1>1, Assumptions, PairFifo!MailNext

LEMMA QueueKept ==
  ASSUME class = "queue", PairPrio!QueueInv, [Next]_vars
  PROVE  class' = class /\ PairPrio!QueueInv' /\ PairPrio!QueueStep
<1>1. class' = class /\ [PairPrio!Queue!Next]_PairPrio!Queue!vars
  <2>1. CASE UNCHANGED vars
    BY <2>1 DEF vars, callVars, mailboxOnly, queueOnly, channelVars, eventVars, poolVars, mutexVars,
         PairPrio!Queue!vars, PairPrio!Queue!loopVars, PairPrio!Queue!objectVars,
         PairPrio!Queue!waitVars, PairPrio!Queue!callVars, PairPrio!Queue!mqVars
  <2>2. CASE Next
    <3>1. class' = class /\ Queue!Next
      BY <2>2 DEF Next
    <3> QED BY <3>1, QueueSteps
  <2> QED BY <2>1, <2>2
<1> QED BY <1>1, Assumptions, PairPrio!QueueNext

LEMMA QueueInTimeKept ==
  ASSUME class = "queue in time", PairFifo!QueueInv, [Next]_vars
  PROVE  class' = class /\ PairFifo!QueueInv' /\ PairFifo!QueueStep
<1>1. class' = class /\ [PairFifo!Queue!Next]_PairFifo!Queue!vars
  <2>1. CASE UNCHANGED vars
    BY <2>1 DEF vars, callVars, mailboxOnly, queueOnly, channelVars, eventVars, poolVars, mutexVars,
         PairFifo!Queue!vars, PairFifo!Queue!loopVars, PairFifo!Queue!objectVars,
         PairFifo!Queue!waitVars, PairFifo!Queue!callVars, PairFifo!Queue!mqVars
  <2>2. CASE Next
    <3>1. class' = class /\ QueueInTime!Next
      BY <2>2 DEF Next
    <3> QED BY <3>1, QueueInTimeSteps
  <2> QED BY <2>1, <2>2
<1> QED BY <1>1, Assumptions, PairFifo!QueueNext

LEMMA EventKept ==
  ASSUME class = "event", OnePrio!EventInv, [Next]_vars
  PROVE  class' = class /\ OnePrio!EventInv' /\ OnePrio!Event!BitsGoOnceStep
<1>1. class' = class /\ [OnePrio!Event!Next]_OnePrio!Event!vars
  <2>1. CASE UNCHANGED vars
    BY <2>1 DEF vars, callVars, mailboxOnly, queueOnly, channelVars, eventVars, poolVars, mutexVars,
         OnePrio!Event!vars, OnePrio!Event!objectVars, OnePrio!Event!waitVars,
         OnePrio!Event!callVars, OnePrio!Event!eventVars
  <2>2. CASE Next
    <3>1. class' = class /\ Event!Next
      BY <2>2 DEF Next
    <3> QED BY <3>1, EventSteps
  <2> QED BY <2>1, <2>2
<1> QED BY <1>1, Assumptions, OnePrio!EventNext

LEMMA MemPoolKept ==
  ASSUME class = "pool", OneFifo!PoolInv, [Next]_vars
  PROVE  class' = class /\ OneFifo!PoolInv'
<1>1. class' = class /\ [OneFifo!MemPool!Next]_OneFifo!MemPool!vars
  <2>1. CASE UNCHANGED vars
    BY <2>1 DEF vars, callVars, mailboxOnly, queueOnly, channelVars, eventVars, poolVars, mutexVars,
         OneFifo!MemPool!vars, OneFifo!MemPool!loopVars, OneFifo!MemPool!objectVars,
         OneFifo!MemPool!waitVars, OneFifo!MemPool!callVars, OneFifo!MemPool!poolVars
  <2>2. CASE Next
    <3>1. class' = class /\ MemPool!Next
      BY <2>2 DEF Next
    <3> QED BY <3>1, MemPoolSteps
  <2> QED BY <2>1, <2>2
<1> QED BY <1>1, Assumptions, OneFifo!PoolNext

LEMMA MutexKept ==
  ASSUME class = "mutex", OneFifo!LockInv, OneFifo!CloseInv, [Next]_vars
  PROVE  class' = class /\ OneFifo!LockInv' /\ OneFifo!CloseInv'
<1>1. class' = class /\ [OneFifo!Next]_OneFifo!vars
  <2>1. CASE UNCHANGED vars
    BY <2>1 DEF vars, callVars, mailboxOnly, queueOnly, channelVars, eventVars, poolVars, mutexVars,
         OneFifo!vars, OneFifo!objectVars, OneFifo!waitVars, OneFifo!callVars,
         OneFifo!mutexVars, OneFifo!lockVars
  <2>2. CASE Next
    <3>1. class' = class /\ Mutex!Next
      BY <2>2 DEF Next
    <3> QED BY <3>1, MutexSteps
  <2> QED BY <2>1, <2>2
<1> QED BY <1>1, Assumptions, OneFifo!LockStep, OneFifo!LockClosing

LEMMA MutexesKept ==
  ASSUME class = "mutexes", PairPrio!PrioInv, [Next]_vars
  PROVE  class' = class /\ PairPrio!PrioInv'
<1>1. class' = class /\ [PairPrio!Next]_PairPrio!vars
  <2>1. CASE UNCHANGED vars
    BY <2>1 DEF vars, callVars, mailboxOnly, queueOnly, channelVars, eventVars, poolVars, mutexVars,
         PairPrio!vars, PairPrio!objectVars, PairPrio!waitVars, PairPrio!callVars,
         PairPrio!mutexVars, PairPrio!lockVars
  <2>2. CASE Next
    <3>1. class' = class /\ Mutexes!Next
      BY <2>2 DEF Next
    <3> QED BY <3>1, MutexesSteps
  <2> QED BY <2>1, <2>2
<1> QED BY <1>1, Assumptions, PairPrio!PrioStep

LEMMA ObjectsNext == ObjectsInv /\ [Next]_vars => ObjectsInv'
<1> SUFFICES ASSUME ObjectsInv, [Next]_vars PROVE ObjectsInv'
  OBVIOUS
<1> QED BY MailboxKept, MailboxForEverKept, QueueKept, QueueInTimeKept, EventKept, MemPoolKept,
     MutexKept, MutexesKept DEF ObjectsInv

\* ipc.c, mempool.c: the invariants of the classes hold of the composition, one object at a time: who
\* waits, what is where, and how far each call has come between its locked sections.
THEOREM ObjectsInvariant == Spec => []ObjectsInv
BY ObjectsInit, ObjectsNext, PTL DEF Spec

-----------------------------------------------------------------------------
(* What RtClassProofs says of a class, said of the class here *)

\* The mailbox, of PairPrio.
LEMMA MailboxSaysPrio ==
  /\ PairPrio!Mailbox!TypeOK => Mailbox!TypeOK
  /\ PairPrio!Mailbox!RingConsistent => Mailbox!RingConsistent
  /\ PairPrio!Mailbox!NoLostWakeup => Mailbox!NoLostWakeup
<1>1. \A S : Mailbox!Cardinality(S) = PairPrio!Mailbox!Cardinality(S)
  BY DEF Mailbox!Cardinality, PairPrio!Mailbox!Cardinality, Mailbox!IsFiniteSet, PairPrio!Mailbox!IsFiniteSet
<1>2. PairPrio!Mailbox!TypeOK => Mailbox!TypeOK
  BY DEF Mailbox!TypeOK, Mailbox!RetryTypeOK, Mailbox!CallTypeOK, Mailbox!WaitTypeOK,
       Mailbox!Place, PairPrio!Mailbox!TypeOK, PairPrio!Mailbox!RetryTypeOK,
       PairPrio!Mailbox!CallTypeOK, PairPrio!Mailbox!WaitTypeOK, PairPrio!Mailbox!Place
<1>3. PairPrio!Mailbox!RingConsistent => Mailbox!RingConsistent
  BY DEF Mailbox!RingConsistent, PairPrio!Mailbox!RingConsistent
<1>4. PairPrio!Mailbox!NoLostWakeup => Mailbox!NoLostWakeup
  BY <1>1 DEF Mailbox!NoLostWakeup, Mailbox!Woken, Mailbox!Back, Mailbox!Suspended, Mailbox!Linked,
       PairPrio!Mailbox!NoLostWakeup, PairPrio!Mailbox!Woken, PairPrio!Mailbox!Back,
       PairPrio!Mailbox!Suspended, PairPrio!Mailbox!Linked
<1> QED BY <1>2, <1>3, <1>4

\* The message queue, of PairPrio.
LEMMA QueueSaysPrio ==
  /\ PairPrio!Queue!TypeOK => Queue!TypeOK
  /\ PairPrio!Queue!ElementsExact => Queue!ElementsExact
  /\ PairPrio!Queue!NoLostWakeup => Queue!NoLostWakeup
<1>1. \A S : Queue!Cardinality(S) = PairPrio!Queue!Cardinality(S)
  BY DEF Queue!Cardinality, PairPrio!Queue!Cardinality, Queue!IsFiniteSet, PairPrio!Queue!IsFiniteSet
<1>2. PairPrio!Queue!TypeOK => Queue!TypeOK
  BY <1>1 DEF Queue!TypeOK, Queue!RetryTypeOK, Queue!CallTypeOK, Queue!WaitTypeOK,
       PairPrio!Queue!TypeOK, PairPrio!Queue!RetryTypeOK, PairPrio!Queue!CallTypeOK,
       PairPrio!Queue!WaitTypeOK
<1>3. PairPrio!Queue!ElementsExact => Queue!ElementsExact
  BY <1>1 DEF Queue!ElementsExact, Queue!Once, Queue!Linked, PairPrio!Queue!ElementsExact,
       PairPrio!Queue!Once, PairPrio!Queue!Linked
<1>4. PairPrio!Queue!NoLostWakeup => Queue!NoLostWakeup
  BY <1>1 DEF Queue!NoLostWakeup, Queue!Woken, Queue!Back, Queue!Suspended, Queue!Linked,
       PairPrio!Queue!NoLostWakeup, PairPrio!Queue!Woken, PairPrio!Queue!Back,
       PairPrio!Queue!Suspended, PairPrio!Queue!Linked
<1> QED BY <1>2, <1>3, <1>4

\* The mailbox, of PairFifo.
LEMMA MailboxSaysFifo ==
  /\ PairFifo!Mailbox!TypeOK => Mailbox!TypeOK
  /\ PairFifo!Mailbox!RingConsistent => Mailbox!RingConsistent
  /\ PairFifo!Mailbox!NoLostWakeup => Mailbox!NoLostWakeup
<1>1. \A S : Mailbox!Cardinality(S) = PairFifo!Mailbox!Cardinality(S)
  BY DEF Mailbox!Cardinality, PairFifo!Mailbox!Cardinality, Mailbox!IsFiniteSet, PairFifo!Mailbox!IsFiniteSet
<1>2. PairFifo!Mailbox!TypeOK => Mailbox!TypeOK
  BY DEF Mailbox!TypeOK, Mailbox!RetryTypeOK, Mailbox!CallTypeOK, Mailbox!WaitTypeOK,
       Mailbox!Place, PairFifo!Mailbox!TypeOK, PairFifo!Mailbox!RetryTypeOK,
       PairFifo!Mailbox!CallTypeOK, PairFifo!Mailbox!WaitTypeOK, PairFifo!Mailbox!Place
<1>3. PairFifo!Mailbox!RingConsistent => Mailbox!RingConsistent
  BY DEF Mailbox!RingConsistent, PairFifo!Mailbox!RingConsistent
<1>4. PairFifo!Mailbox!NoLostWakeup => Mailbox!NoLostWakeup
  BY <1>1 DEF Mailbox!NoLostWakeup, Mailbox!Woken, Mailbox!Back, Mailbox!Suspended, Mailbox!Linked,
       PairFifo!Mailbox!NoLostWakeup, PairFifo!Mailbox!Woken, PairFifo!Mailbox!Back,
       PairFifo!Mailbox!Suspended, PairFifo!Mailbox!Linked
<1> QED BY <1>2, <1>3, <1>4

\* The message queue, of PairFifo.
LEMMA QueueSaysFifo ==
  /\ PairFifo!Queue!TypeOK => Queue!TypeOK
  /\ PairFifo!Queue!ElementsExact => Queue!ElementsExact
  /\ PairFifo!Queue!NoLostWakeup => Queue!NoLostWakeup
<1>1. \A S : Queue!Cardinality(S) = PairFifo!Queue!Cardinality(S)
  BY DEF Queue!Cardinality, PairFifo!Queue!Cardinality, Queue!IsFiniteSet, PairFifo!Queue!IsFiniteSet
<1>2. PairFifo!Queue!TypeOK => Queue!TypeOK
  BY <1>1 DEF Queue!TypeOK, Queue!RetryTypeOK, Queue!CallTypeOK, Queue!WaitTypeOK,
       PairFifo!Queue!TypeOK, PairFifo!Queue!RetryTypeOK, PairFifo!Queue!CallTypeOK,
       PairFifo!Queue!WaitTypeOK
<1>3. PairFifo!Queue!ElementsExact => Queue!ElementsExact
  BY <1>1 DEF Queue!ElementsExact, Queue!Once, Queue!Linked, PairFifo!Queue!ElementsExact,
       PairFifo!Queue!Once, PairFifo!Queue!Linked
<1>4. PairFifo!Queue!NoLostWakeup => Queue!NoLostWakeup
  BY <1>1 DEF Queue!NoLostWakeup, Queue!Woken, Queue!Back, Queue!Suspended, Queue!Linked,
       PairFifo!Queue!NoLostWakeup, PairFifo!Queue!Woken, PairFifo!Queue!Back,
       PairFifo!Queue!Suspended, PairFifo!Queue!Linked
<1> QED BY <1>2, <1>3, <1>4

\* The memory pool.
LEMMA MemPoolSays ==
  /\ OneFifo!MemPool!TypeOK => MemPool!TypeOK
  /\ OneFifo!MemPool!BlocksExact => MemPool!BlocksExact
  /\ OneFifo!MemPool!NoLostWakeup => MemPool!NoLostWakeup
<1>1. \A S : MemPool!Cardinality(S) = OneFifo!MemPool!Cardinality(S)
  BY DEF MemPool!Cardinality, OneFifo!MemPool!Cardinality, MemPool!IsFiniteSet, OneFifo!MemPool!IsFiniteSet
<1>2. OneFifo!MemPool!TypeOK => MemPool!TypeOK
  BY <1>1 DEF MemPool!TypeOK, MemPool!RetryTypeOK, MemPool!CallTypeOK, MemPool!WaitTypeOK,
       OneFifo!MemPool!TypeOK, OneFifo!MemPool!RetryTypeOK, OneFifo!MemPool!CallTypeOK,
       OneFifo!MemPool!WaitTypeOK
<1>3. OneFifo!MemPool!BlocksExact => MemPool!BlocksExact
  BY <1>1 DEF MemPool!BlocksExact, MemPool!Once, MemPool!Linked, OneFifo!MemPool!BlocksExact,
       OneFifo!MemPool!Once, OneFifo!MemPool!Linked
<1>4. OneFifo!MemPool!NoLostWakeup => MemPool!NoLostWakeup
  BY <1>1 DEF MemPool!NoLostWakeup, MemPool!Woken, MemPool!Back, MemPool!Suspended, MemPool!Linked,
       OneFifo!MemPool!NoLostWakeup, OneFifo!MemPool!Woken, OneFifo!MemPool!Back,
       OneFifo!MemPool!Suspended, OneFifo!MemPool!Linked
<1> QED BY <1>2, <1>3, <1>4

\* The event set.
LEMMA EventSays ==
  /\ OnePrio!Event!TypeOK => Event!TypeOK
  /\ OnePrio!Event!NobodyWaitsForNothing => Event!NobodyWaitsForNothing
  /\ OnePrio!Event!GotWhatItAskedFor => Event!GotWhatItAskedFor
  /\ OnePrio!Event!BitsGoOnceStep => Event!BitsGoOnceStep
<1>1. OnePrio!Event!TypeOK => Event!TypeOK
  BY DEF Event!TypeOK, Event!CallTypeOK, Event!WaitTypeOK, OnePrio!Event!TypeOK,
       OnePrio!Event!CallTypeOK, OnePrio!Event!WaitTypeOK
<1>2. OnePrio!Event!NobodyWaitsForNothing => Event!NobodyWaitsForNothing
  BY DEF Event!NobodyWaitsForNothing, Event!Linked, Event!Satisfies,
       OnePrio!Event!NobodyWaitsForNothing, OnePrio!Event!Linked, OnePrio!Event!Satisfies
<1>3. OnePrio!Event!GotWhatItAskedFor => Event!GotWhatItAskedFor
  BY DEF Event!GotWhatItAskedFor, Event!Woken, Event!Back, Event!Suspended, Event!Linked,
       OnePrio!Event!GotWhatItAskedFor, OnePrio!Event!Woken, OnePrio!Event!Back,
       OnePrio!Event!Suspended, OnePrio!Event!Linked
<1>4. OnePrio!Event!BitsGoOnceStep => Event!BitsGoOnceStep
  BY DEF Event!BitsGoOnceStep, Event!Newly, Event!Woken, Event!Back, Event!Suspended, Event!Linked,
       Event!Interest, Event!Clearing, OnePrio!Event!BitsGoOnceStep, OnePrio!Event!Newly,
       OnePrio!Event!Woken, OnePrio!Event!Back, OnePrio!Event!Suspended, OnePrio!Event!Linked,
       OnePrio!Event!Interest, OnePrio!Event!Clearing
<1> QED BY <1>1, <1>2, <1>3, <1>4

\* One mutex.
LEMMA MutexSays ==
  /\ OneFifo!TypeOK => Mutex!TypeOK
  /\ OneFifo!OneInside => Mutex!OneInside
  /\ OneFifo!NobodyWaitsForNothing => Mutex!NobodyWaitsForNothing
<1>1. OneFifo!TypeOK => Mutex!TypeOK
  BY DEF Mutex!TypeOK, Mutex!CallTypeOK, Mutex!WaitTypeOK, OneFifo!TypeOK, OneFifo!CallTypeOK,
       OneFifo!WaitTypeOK
<1>2. OneFifo!OneInside => Mutex!OneInside
  BY DEF Mutex!OneInside, Mutex!Inside, Mutex!Woken, Mutex!Back, Mutex!Suspended, Mutex!Linked,
       OneFifo!OneInside, OneFifo!Inside, OneFifo!Woken, OneFifo!Back, OneFifo!Suspended,
       OneFifo!Linked
<1>3. OneFifo!NobodyWaitsForNothing => Mutex!NobodyWaitsForNothing
  BY DEF Mutex!NobodyWaitsForNothing, Mutex!Linked, OneFifo!NobodyWaitsForNothing, OneFifo!Linked
<1> QED BY <1>1, <1>2, <1>3

\* Two mutexes.
LEMMA MutexesSays ==
  /\ PairPrio!TypeOK => Mutexes!TypeOK
  /\ PairPrio!OneInside => Mutexes!OneInside
  /\ PairPrio!NobodyWaitsForNothing => Mutexes!NobodyWaitsForNothing
  /\ PairPrio!OwnerOutranks => Mutexes!OwnerOutranks
  /\ PairPrio!PriorityRestored => Mutexes!PriorityRestored
<1>1. PairPrio!TypeOK => Mutexes!TypeOK
  BY DEF Mutexes!TypeOK, Mutexes!CallTypeOK, Mutexes!WaitTypeOK, PairPrio!TypeOK,
       PairPrio!CallTypeOK, PairPrio!WaitTypeOK
<1>2. PairPrio!OneInside => Mutexes!OneInside
  BY DEF Mutexes!OneInside, Mutexes!Inside, Mutexes!Woken, Mutexes!Back, Mutexes!Suspended,
       Mutexes!Linked, PairPrio!OneInside, PairPrio!Inside, PairPrio!Woken, PairPrio!Back,
       PairPrio!Suspended, PairPrio!Linked
<1>3. PairPrio!NobodyWaitsForNothing => Mutexes!NobodyWaitsForNothing
  BY DEF Mutexes!NobodyWaitsForNothing, Mutexes!Linked, PairPrio!NobodyWaitsForNothing,
       PairPrio!Linked
<1>4. PairPrio!OwnerOutranks => Mutexes!OwnerOutranks
  BY DEF Mutexes!OwnerOutranks, Mutexes!Linked, PairPrio!OwnerOutranks, PairPrio!Linked
<1>5. PairPrio!PriorityRestored => Mutexes!PriorityRestored
  BY DEF Mutexes!PriorityRestored, PairPrio!PriorityRestored
<1> QED BY <1>1, <1>2, <1>3, <1>4, <1>5

\* The detach, of each class.
LEMMA DetachSays ==
  /\ PairPrio!DetachWakesAll /\ PairPrio!ResumesThreads => Mailbox!DetachWakesAll /\ Mailbox!ResumesThreads
  /\ PairFifo!DetachWakesAll /\ PairFifo!ResumesThreads => Mailbox!DetachWakesAll /\ Mailbox!ResumesThreads
  /\ OnePrio!DetachWakesAll /\ OnePrio!ResumesThreads => Event!DetachWakesAll /\ Event!ResumesThreads
  /\ OneFifo!DetachWakesAll /\ OneFifo!ResumesThreads => Event!DetachWakesAll /\ Event!ResumesThreads
BY DEF PairPrio!DetachWakesAll, PairPrio!ResumesThreads, PairFifo!DetachWakesAll, PairFifo!ResumesThreads,
     OnePrio!DetachWakesAll, OnePrio!ResumesThreads, OneFifo!DetachWakesAll, OneFifo!ResumesThreads,
     Mailbox!DetachWakesAll, Mailbox!ResumesThreads, Event!DetachWakesAll, Event!ResumesThreads

-----------------------------------------------------------------------------
(* What holds of the objects *)

\* What the invariant says of each class.
LEMMA ClassesShown ==
  ASSUME ObjectsInv
  PROVE
  /\ class = "mailbox" =>
       /\ Mailbox!TypeOK /\ Mailbox!RingConsistent /\ Mailbox!NoLostWakeup
       /\ Mailbox!DetachWakesAll /\ Mailbox!ResumesThreads
  /\ class = "mailbox for ever" =>
       /\ Mailbox!TypeOK /\ Mailbox!RingConsistent /\ Mailbox!NoLostWakeup
       /\ Mailbox!DetachWakesAll /\ Mailbox!ResumesThreads
  /\ class = "queue" =>
       /\ Queue!TypeOK /\ Queue!ElementsExact /\ Queue!NoLostWakeup
       /\ Mailbox!DetachWakesAll /\ Mailbox!ResumesThreads
  /\ class = "queue in time" =>
       /\ Queue!TypeOK /\ Queue!ElementsExact /\ Queue!NoLostWakeup
       /\ Mailbox!DetachWakesAll /\ Mailbox!ResumesThreads
  /\ class = "event" =>
       /\ Event!TypeOK /\ Event!NobodyWaitsForNothing /\ Event!GotWhatItAskedFor
       /\ Event!DetachWakesAll /\ Event!ResumesThreads
  /\ class = "pool" =>
       /\ MemPool!TypeOK /\ MemPool!BlocksExact /\ MemPool!NoLostWakeup
       /\ Event!DetachWakesAll /\ Event!ResumesThreads
  /\ class = "mutex" =>
       /\ Mutex!TypeOK /\ Mutex!OneInside /\ Mutex!NobodyWaitsForNothing
       /\ Event!DetachWakesAll /\ Event!ResumesThreads
  /\ class = "mutexes" =>
       /\ Mutexes!TypeOK /\ Mutexes!OneInside /\ Mutexes!NobodyWaitsForNothing
       /\ Mutexes!OwnerOutranks /\ Mutexes!PriorityRestored
<1>1. class = "mailbox" =>
       /\ Mailbox!TypeOK /\ Mailbox!RingConsistent /\ Mailbox!NoLostWakeup
       /\ Mailbox!DetachWakesAll /\ Mailbox!ResumesThreads
  BY Assumptions, DetachSays,
     PairPrio!MailShown, PairPrio!CloseShown, MailboxSaysPrio
  DEF ObjectsInv, PairPrio!MailInv, PairPrio!RetryInv
<1>2. class = "mailbox for ever" =>
       /\ Mailbox!TypeOK /\ Mailbox!RingConsistent /\ Mailbox!NoLostWakeup
       /\ Mailbox!DetachWakesAll /\ Mailbox!ResumesThreads
  BY Assumptions, DetachSays,
     PairFifo!MailShown, PairFifo!CloseShown, MailboxSaysFifo
  DEF ObjectsInv, PairFifo!MailInv, PairFifo!RetryInv
<1>3. class = "queue" =>
       /\ Queue!TypeOK /\ Queue!ElementsExact /\ Queue!NoLostWakeup
       /\ Mailbox!DetachWakesAll /\ Mailbox!ResumesThreads
  BY Assumptions, DetachSays,
     PairPrio!QueueShown, PairPrio!CloseShown, QueueSaysPrio
  DEF ObjectsInv, PairPrio!QueueInv, PairPrio!RetryInv
<1>4. class = "queue in time" =>
       /\ Queue!TypeOK /\ Queue!ElementsExact /\ Queue!NoLostWakeup
       /\ Mailbox!DetachWakesAll /\ Mailbox!ResumesThreads
  BY Assumptions, DetachSays,
     PairFifo!QueueShown, PairFifo!CloseShown, QueueSaysFifo
  DEF ObjectsInv, PairFifo!QueueInv, PairFifo!RetryInv
<1>5. class = "event" =>
       /\ Event!TypeOK /\ Event!NobodyWaitsForNothing /\ Event!GotWhatItAskedFor
       /\ Event!DetachWakesAll /\ Event!ResumesThreads
  BY Assumptions, DetachSays,
     OnePrio!EventShown, OnePrio!CloseShown, EventSays
  DEF ObjectsInv, OnePrio!EventInv
<1>6. class = "pool" =>
       /\ MemPool!TypeOK /\ MemPool!BlocksExact /\ MemPool!NoLostWakeup
       /\ Event!DetachWakesAll /\ Event!ResumesThreads
  BY Assumptions, DetachSays,
     OneFifo!PoolShown, OneFifo!CloseShown, MemPoolSays
  DEF ObjectsInv, OneFifo!PoolInv, OneFifo!RetryInv
<1>7. class = "mutex" =>
       /\ Mutex!TypeOK /\ Mutex!OneInside /\ Mutex!NobodyWaitsForNothing
       /\ Event!DetachWakesAll /\ Event!ResumesThreads
  BY Assumptions, DetachSays,
     OneFifo!CloseShown, MutexSays
  DEF ObjectsInv, OneFifo!LockInv
<1>8. class = "mutexes" =>
       /\ Mutexes!TypeOK /\ Mutexes!OneInside /\ Mutexes!NobodyWaitsForNothing
       /\ Mutexes!OwnerOutranks /\ Mutexes!PriorityRestored
  BY MutexesSays
  DEF ObjectsInv, PairPrio!PrioInv, PairPrio!LockInv
<1> QED BY <1>1, <1>2, <1>3, <1>4, <1>5, <1>6, <1>7, <1>8

LEMMA ObjectsShown ==
  ASSUME ObjectsInv
  PROVE  /\ NoLostWakeup
         /\ NobodyWaitsForNothing
         /\ PiecesExact
         /\ DetachWakesAll
         /\ OneInside
         /\ PriorityInherited
<1>1. NoLostWakeup
  BY ClassesShown DEF NoLostWakeup, MailboxClass, QueueClass
<1>2. NobodyWaitsForNothing
  BY ClassesShown DEF NobodyWaitsForNothing
<1>3. PiecesExact
  BY ClassesShown DEF PiecesExact, TypeOK, MailboxClass, QueueClass
<1>4. DetachWakesAll
  BY ClassesShown DEF DetachWakesAll, MailboxClass, QueueClass
<1>5. OneInside
  BY ClassesShown DEF OneInside
<1>6. PriorityInherited
  BY ClassesShown DEF PriorityInherited
<1> QED BY <1>1, <1>2, <1>3, <1>4, <1>5, <1>6

\* ipc.c, mempool.c: while threads wait for a mailbox, a message queue or a memory pool, every mail,
\* message, free place, element or block has a woken thread on its way to it.
THEOREM WakeupsNotLost == Spec => []NoLostWakeup
BY ObjectsInvariant, ObjectsShown, PTL

\* ipc.c: nobody waits for a mutex that is free or its own, or for an event set that would satisfy
\* it, whatever a send gave to others or cleared on the way.
THEOREM NobodyForgotten == Spec => []NobodyWaitsForNothing
BY ObjectsInvariant, ObjectsShown, PTL

\* ipc.c, mempool.c: the offsets of a mailbox agree with its count, and every element of a message
\* queue and every block of a pool is in one place, also while threads copy with interrupts enabled.
THEOREM PiecesInPlace == Spec => []PiecesExact
BY ObjectsInvariant, ObjectsShown, PTL

\* ipc.c:174, thread.c:760: a detach, whose loop tests the list with interrupts enabled, resumes only
\* threads and leaves nobody waiting for an object that is gone.
THEOREM DetachComplete == Spec => []DetachWakesAll
BY ObjectsInvariant, ObjectsShown, PTL

\* ipc.c: mutual exclusion, with nesting, time limits, hand-over and detach.
THEOREM MutexExcludes == Spec => []OneInside
BY ObjectsInvariant, ObjectsShown, PTL

\* ipc.c: with two mutexes, one held inside the other, and time limits, no owner is outranked by
\* a waiter, and it gets its priority back.
THEOREM MutexInherits == Spec => []PriorityInherited
BY ObjectsInvariant, ObjectsShown, PTL

\* ipc.c, rt_event_send: the waiters one send wakes get bits that are set, a bit that one of them
\* clears goes to no other clearing one, and each has what it asked for when it runs at last.
THEOREM EachBitOnce == Spec => BitsGoOnce
<1> DEFINE Got == class = "event" => Event!GotWhatItAskedFor
<1>1. ObjectsInv => Got
  BY ClassesShown
<1>2. ObjectsInv /\ [Next]_vars /\ Got' =>
        [class = "event" => Event!BitsGoOnceStep /\ Event!GotWhatItAskedFor']_vars
  BY EventKept, EventSays DEF ObjectsInv
<1> HIDE DEF Got
<1> QED BY <1>1, <1>2, ObjectsInvariant, PTL DEF Spec, BitsGoOnce

-----------------------------------------------------------------------------
(* The mailbox and the message queue as channels *)

LEMMA MailsSay ==
  /\ Mailbox!Mails = PairPrio!Mailbox!Mails /\ Mailbox!Mails = PairFifo!Mailbox!Mails
  /\ Mailbox!Mails' = PairPrio!Mailbox!Mails' /\ Mailbox!Mails' = PairFifo!Mailbox!Mails'
  /\ Queue!Mails = PairPrio!Queue!Mails /\ Queue!Mails = PairFifo!Queue!Mails
  /\ Queue!Mails' = PairPrio!Queue!Mails' /\ Queue!Mails' = PairFifo!Queue!Mails'
  /\ Queue!Received = PairPrio!Queue!Received /\ Queue!Received = PairFifo!Queue!Received
  /\ Queue!Received' = PairPrio!Queue!Received' /\ Queue!Received' = PairFifo!Queue!Received'
BY DEF Mailbox!Mails, PairPrio!Mailbox!Mails, PairFifo!Mailbox!Mails, Queue!Mails, PairPrio!Queue!Mails,
     PairFifo!Queue!Mails, Queue!Received, PairPrio!Queue!Received, PairFifo!Queue!Received

\* What a class shows as a channel.
LEMMA ChannelView ==
  /\ MailboxClass => Mails = Mailbox!Mails /\ Received = got
  /\ QueueClass => Mails = Queue!Mails /\ Received = Queue!Received
  /\ ~MailboxClass /\ ~QueueClass => Mails = <<>> /\ Received = [t \in Thread |-> CHOOSE m \in Msg : TRUE]
BY DEF Mails, Received, MailboxClass, QueueClass

LEMMA ChannelViewNext ==
  ASSUME class' = class
  PROVE  /\ MailboxClass => Mails' = Mailbox!Mails' /\ Received' = got'
         /\ QueueClass => Mails' = Queue!Mails' /\ Received' = Queue!Received'
         /\ ~MailboxClass /\ ~QueueClass => Mails' = <<>> /\ Received' = [t \in Thread |-> CHOOSE m \in Msg : TRUE]
         /\ QueueClass' = QueueClass
BY DEF Mails, Received, MailboxClass, QueueClass

LEMMA ChannelStart == Init => Channel!ChannelInit
<1> SUFFICES ASSUME Init PROVE Mails = <<>> /\ Received \in [Thread -> Msg]
  BY DEF Channel!ChannelInit, QueueClass
<1>1. Mailbox!Init => Mailbox!Mails = <<>> /\ got \in [Thread -> Msg]
  BY Assumptions, MailboxStart, PairPrio!MailInit, MailsSay
  DEF PairPrio!MailInv, PairPrio!MailTypes
<1>2. MailboxForEver!Init => Mailbox!Mails = <<>> /\ got \in [Thread -> Msg]
  BY Assumptions, MailboxForEverStart, PairFifo!MailInit, MailsSay
  DEF PairFifo!MailInv, PairFifo!MailTypes
<1>3. Queue!Init => Queue!Mails = <<>> /\ Queue!Received \in [Thread -> Msg]
  BY Assumptions, QueueStart, PairPrio!QueueInit, MailsSay
<1>4. QueueInTime!Init => Queue!Mails = <<>> /\ Queue!Received \in [Thread -> Msg]
  BY Assumptions, QueueInTimeStart, PairFifo!QueueInit, MailsSay
<1>5. CASE MailboxClass
  BY <1>1, <1>2, <1>5, ChannelView DEF Init, MailboxClass
<1>6. CASE QueueClass
  BY <1>3, <1>4, <1>6, ChannelView DEF Init, QueueClass
<1>7. CASE ~MailboxClass /\ ~QueueClass
  BY <1>7, ChannelView, SizeFacts
<1> QED BY <1>5, <1>6, <1>7

\* A step of a channel with the mails m and what was received r, and then n and s.
Moves(m, n, r, s) ==
  \/ n = m /\ s = r
  \/ n = <<>> /\ s = r
  \/ \E x \in Msg :
       /\ Len(m) < Cardinality(Element)
       /\ n = Append(m, x) \/ (QueueClass /\ n = <<x>> \o m)
       /\ s = r
  \/ \E t \in Thread : m # <<>> /\ n = Tail(m) /\ s = [r EXCEPT ![t] = Head(m)]

\* What the classes' proofs call a step of a queue is a step of the channel it shows.
LEMMA QueuesMove ==
  ASSUME QueueClass
  PROVE  \A m, n, r, s : PairPrio!QueueMoves(m, n, r, s) \/ PairFifo!QueueMoves(m, n, r, s) => Moves(m, n, r, s)
<1>1. PairPrio!Cardinality(Element) = Cardinality(Element) /\ PairFifo!Cardinality(Element) = Cardinality(Element)
  BY DEF PairPrio!Cardinality, PairFifo!Cardinality, Cardinality, PairPrio!IsFiniteSet, PairFifo!IsFiniteSet, IsFiniteSet
<1>2. ASSUME NEW m, NEW n, NEW r, NEW s, PairPrio!QueueMoves(m, n, r, s)
      PROVE  Moves(m, n, r, s)
  BY <1>1, <1>2 DEF PairPrio!QueueMoves, Moves
<1>3. ASSUME NEW m, NEW n, NEW r, NEW s, PairFifo!QueueMoves(m, n, r, s)
      PROVE  Moves(m, n, r, s)
  BY <1>1, <1>3 DEF PairFifo!QueueMoves, Moves
<1> QED BY <1>2, <1>3

LEMMA ChannelMoves ==
  ASSUME Moves(Mails, Mails', Received, Received'), QueueClass' = QueueClass
  PROVE  [Channel!ChannelNext]_Channel!chan
BY DEF Moves, Channel!ChannelNext, Channel!chan, Channel!Empty, Channel!Send, Channel!SendUrgent,
     Channel!Receive

LEMMA ChannelSteps == ObjectsInv /\ [Next]_vars => [Channel!ChannelNext]_Channel!chan
<1> SUFFICES ASSUME ObjectsInv, [Next]_vars
             PROVE  Moves(Mails, Mails', Received, Received') /\ QueueClass' = QueueClass
  BY ChannelMoves
<1>1. class' = class
  BY DEF Next, vars
<1>2. CASE class = "mailbox"
  <2>1. MailboxClass
    BY <1>2 DEF MailboxClass
  <2>2. Moves(PairPrio!Mailbox!Mails, PairPrio!Mailbox!Mails', got, got')
    <3>1. PairPrio!MailStep
      BY <1>2, MailboxKept DEF ObjectsInv
    <3> QED BY <2>1, <3>1 DEF PairPrio!MailStep, Moves
  <2>3. Mails = PairPrio!Mailbox!Mails /\ Mails' = PairPrio!Mailbox!Mails'
    BY <1>1, <2>1, MailsSay, ChannelView, ChannelViewNext
  <2>4. Received = got /\ Received' = got'
    BY <1>1, <2>1, MailsSay, ChannelView, ChannelViewNext
  <2> QED BY <1>1, <2>2, <2>3, <2>4, ChannelViewNext
<1>3. CASE class = "mailbox for ever"
  <2>1. MailboxClass
    BY <1>3 DEF MailboxClass
  <2>2. Moves(PairFifo!Mailbox!Mails, PairFifo!Mailbox!Mails', got, got')
    <3>1. PairFifo!MailStep
      BY <1>3, MailboxForEverKept DEF ObjectsInv
    <3> QED BY <2>1, <3>1 DEF PairFifo!MailStep, Moves
  <2>3. Mails = PairFifo!Mailbox!Mails /\ Mails' = PairFifo!Mailbox!Mails'
    BY <1>1, <2>1, MailsSay, ChannelView, ChannelViewNext
  <2>4. Received = got /\ Received' = got'
    BY <1>1, <2>1, MailsSay, ChannelView, ChannelViewNext
  <2> QED BY <1>1, <2>2, <2>3, <2>4, ChannelViewNext
<1>4. CASE class = "queue"
  <2>1. QueueClass
    BY <1>4 DEF QueueClass
  <2>2. Moves(PairPrio!Queue!Mails, PairPrio!Queue!Mails', PairPrio!Queue!Received, PairPrio!Queue!Received')
    <3>1. PairPrio!QueueMoves(PairPrio!Queue!Mails, PairPrio!Queue!Mails', PairPrio!Queue!Received, PairPrio!Queue!Received')
      BY <1>4, QueueKept, PairPrio!StepMoves, Assumptions DEF ObjectsInv
    <3> QED BY <2>1, <3>1, QueuesMove
  <2>3. Mails = PairPrio!Queue!Mails /\ Mails' = PairPrio!Queue!Mails'
    BY <1>1, <2>1, MailsSay, ChannelView, ChannelViewNext
  <2>4. Received = PairPrio!Queue!Received /\ Received' = PairPrio!Queue!Received'
    BY <1>1, <2>1, MailsSay, ChannelView, ChannelViewNext
  <2> QED BY <1>1, <2>2, <2>3, <2>4, ChannelViewNext
<1>5. CASE class = "queue in time"
  <2>1. QueueClass
    BY <1>5 DEF QueueClass
  <2>2. Moves(PairFifo!Queue!Mails, PairFifo!Queue!Mails', PairFifo!Queue!Received, PairFifo!Queue!Received')
    <3>1. PairFifo!QueueMoves(PairFifo!Queue!Mails, PairFifo!Queue!Mails', PairFifo!Queue!Received, PairFifo!Queue!Received')
      BY <1>5, QueueInTimeKept, PairFifo!StepMoves, Assumptions DEF ObjectsInv
    <3> QED BY <2>1, <3>1, QueuesMove
  <2>3. Mails = PairFifo!Queue!Mails /\ Mails' = PairFifo!Queue!Mails'
    BY <1>1, <2>1, MailsSay, ChannelView, ChannelViewNext
  <2>4. Received = PairFifo!Queue!Received /\ Received' = PairFifo!Queue!Received'
    BY <1>1, <2>1, MailsSay, ChannelView, ChannelViewNext
  <2> QED BY <1>1, <2>2, <2>3, <2>4, ChannelViewNext
<1>6. CASE ~MailboxClass /\ ~QueueClass
  BY <1>1, <1>6, ChannelView, ChannelViewNext DEF Moves
<1> QED BY <1>2, <1>3, <1>4, <1>5, <1>6 DEF MailboxClass, QueueClass

\* ipc.c: the mailbox and the message queue, with its urgent sends, are bounded first-in first-out
\* channels: what is sent is received once and in order, whoever waits, times out or is woken.
THEOREM ChannelKept == Spec => IsChannel
BY ChannelStart, ChannelSteps, ObjectsInvariant, PTL DEF Spec, IsChannel, Channel!ChannelSpec
=============================================================================
