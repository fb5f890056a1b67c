---------------------------- MODULE RtWaitProofs ----------------------------
(***************************************************************************)
(* What the operations of RtWait and RtObject do to the waiters: who waits *)
(* on which list afterwards, and that a thread waits in one place and is   *)
(* woken for one reason, for any number of threads and lists.  The proofs  *)
(* about the objects use the suspend lists through these facts only.       *)
(***************************************************************************)
EXTENDS RtRetry, RtListProofs, FiniteSetTheorems

CONSTANTS
  Rx,  \* the suspend list of an object: of its receivers, when it has two
  Tx   \* and of its senders

WaitInv == WaitTypeOK /\ OneReason

\* A step that takes the waiters of W off their lists and puts nobody on one.
Leave(W) ==
  /\ WaitInv'
  /\ \A l \in List : \A x : Linked(wait'[l], x) <=> Linked(wait[l], x) /\ x \notin W
  /\ armed' = armed \ W

\* The set W leaves the lists: nobody else's place in a list matters.
LEMMA LeaveFacts ==
  ASSUME WaitInv, NEW W, wait' \in [List -> Seq(Thread)],
         \A l \in List : Once(wait'[l]),
         \A l \in List : \A x : Linked(wait'[l], x) <=> Linked(wait[l], x) /\ x \notin W,
         armed' = armed \ W,
         err' \in [Thread -> {"OK", "ERROR", "ETIMEOUT"}]
  PROVE  Leave(W)
<1>1. WaitTypeOK'
  BY DEF WaitInv, WaitTypeOK
<1>2. \A t \in armed' : Suspended(t)'
  BY DEF WaitInv, WaitTypeOK, OneReason, Suspended
<1>3. \A l, m \in List, t \in Thread :
        Linked(wait'[l], t) /\ Linked(wait'[m], t) => l = m
  BY DEF WaitInv, OneReason
<1>4. OneReason'
  BY <1>2, <1>3 DEF OneReason
<1> QED BY <1>1, <1>4 DEF Leave, WaitInv

\* rt_ipc_list_suspend: t, which waited nowhere, waits on l.
LEMMA ParkFacts ==
  ASSUME WaitInv, NEW l \in List, NEW t \in Thread, ~Suspended(t),
         NEW q \in Seq(Thread), Once(q),
         \A x : Linked(q, x) <=> Linked(wait[l], x) \/ x = t,
         NEW limited, Park(l, t, q, limited)
  PROVE  /\ WaitInv'
         /\ \A m \in List : \A x :
              Linked(wait'[m], x) <=> Linked(wait[m], x) \/ (m = l /\ x = t)
         /\ err' = [err EXCEPT ![t] = "OK"]
<1>1. /\ wait' = [wait EXCEPT ![l] = q] /\ err' = [err EXCEPT ![t] = "OK"]
      /\ wait \in [List -> Seq(Thread)] /\ err \in [Thread -> {"OK", "ERROR", "ETIMEOUT"}]
      /\ armed' = IF limited THEN armed \union {t} ELSE armed \ {t}
      /\ armed \subseteq Thread
  BY DEF Park, WaitInv, WaitTypeOK
<1>2. \A m \in List : wait'[m] = IF m = l THEN q ELSE wait[m]
  BY <1>1
<1>3. \A m \in List : \A x : Linked(wait'[m], x) <=> Linked(wait[m], x) \/ (m = l /\ x = t)
  BY <1>2
<1>4. WaitTypeOK'
  BY <1>1 DEF WaitTypeOK
<1>5. \A m \in List : Once(wait'[m])
  BY <1>2 DEF WaitInv, OneReason
<1>6. \A m, k \in List, x \in Thread : Linked(wait'[m], x) /\ Linked(wait'[k], x) => m = k
  BY <1>3 DEF WaitInv, OneReason, Suspended
<1>7. \A x \in armed' : Suspended(x)'
  BY <1>1, <1>3 DEF WaitInv, OneReason, Suspended
<1>8. OneReason'
  BY <1>5, <1>6, <1>7 DEF OneReason
<1> QED BY <1>1, <1>3, <1>4, <1>8 DEF WaitInv

\* The list that rt_ipc_list_suspend makes, FIFO or by priority.
LEMMA EnqueueFacts ==
  ASSUME WaitInv, NEW l \in List, NEW t \in Thread, ~Suspended(t)
  PROVE  /\ Enqueue(l, t) \in Seq(Thread) /\ Once(Enqueue(l, t))
         /\ \A x : Linked(Enqueue(l, t), x) <=> Linked(wait[l], x) \/ x = t
<1>1. wait[l] \in Seq(Thread) /\ Once(wait[l]) /\ ~Linked(wait[l], t)
  BY DEF WaitInv, WaitTypeOK, OneReason, Suspended
<1> QED BY <1>1, LinkBeforeFacts DEF Enqueue

LEMMA SuspendFacts ==
  ASSUME WaitInv, NEW l \in List, NEW t \in Thread, ~Suspended(t),
         NEW limited, Suspend(l, t, limited)
  PROVE  /\ WaitInv'
         /\ \A m \in List : \A x :
              Linked(wait'[m], x) <=> Linked(wait[m], x) \/ (m = l /\ x = t)
         /\ err' = [err EXCEPT ![t] = "OK"]
BY EnqueueFacts, ParkFacts DEF Suspend

\* Whoever is first on a list is a thread that waits there and nowhere else.
LEMMA FirstFacts ==
  ASSUME WaitInv, NEW l \in List, wait[l] # <<>>
  PROVE  /\ Head(wait[l]) \in Thread /\ Linked(wait[l], Head(wait[l]))
         /\ \A m \in List : Linked(wait[m], Head(wait[l])) => m = l
<1>1. wait[l] \in Seq(Thread)
  BY DEF WaitInv, WaitTypeOK
<1>2. Head(wait[l]) \in Thread /\ Linked(wait[l], Head(wait[l]))
  BY <1>1, HeadFacts
<1> QED BY <1>2 DEF WaitInv, OneReason

\* The first waiter of a list comes off it.
LEMMA TailLeaves ==
  ASSUME WaitInv, NEW l \in List, wait[l] # <<>>,
         wait' = [wait EXCEPT ![l] = Tail(@)], armed' = armed \ {Head(wait[l])},
         err' \in [Thread -> {"OK", "ERROR", "ETIMEOUT"}]
  PROVE  Leave({Head(wait[l])})
<1>1. wait \in [List -> Seq(Thread)] /\ Once(wait[l])
  BY DEF WaitInv, WaitTypeOK, OneReason
<1>2. /\ Tail(wait[l]) \in Seq(Thread) /\ Once(Tail(wait[l]))
      /\ \A m : Linked(Tail(wait[l]), m) <=> Linked(wait[l], m) /\ m # Head(wait[l])
  BY <1>1, TailFacts
<1>3. wait' \in [List -> Seq(Thread)] /\ \A m \in List : wait'[m] = IF m = l THEN Tail(wait[l]) ELSE wait[m]
  BY <1>1, <1>2
<1>4. \A m \in List : Once(wait'[m])
  BY <1>2, <1>3 DEF WaitInv, OneReason
<1>5. ASSUME NEW m \in List, NEW x
      PROVE  Linked(wait'[m], x) <=> Linked(wait[m], x) /\ x \notin {Head(wait[l])}
  BY <1>2, <1>3, FirstFacts
<1> QED BY <1>3, <1>4, <1>5, LeaveFacts

\* rt_ipc_list_resume.
LEMMA ResumeFacts ==
  ASSUME WaitInv, NEW l \in List, wait[l] # <<>>, Resume(l)
  PROVE  Leave({Head(wait[l])}) /\ err' = err
<1>1. err' \in [Thread -> {"OK", "ERROR", "ETIMEOUT"}]
  BY DEF Resume, WaitInv, WaitTypeOK
<1> QED BY <1>1, TailLeaves DEF Resume

\* One round of rt_ipc_list_resume_all.
LEMMA ResumeFailedFacts ==
  ASSUME WaitInv, NEW l \in List, wait[l] # <<>>, ResumeFailed(l)
  PROVE  Leave({Head(wait[l])}) /\ err' = [err EXCEPT ![Head(wait[l])] = "ERROR"]
<1>1. err' \in [Thread -> {"OK", "ERROR", "ETIMEOUT"}]
  BY FirstFacts DEF ResumeFailed, WaitInv, WaitTypeOK
<1> QED BY <1>1, TailLeaves DEF ResumeFailed

\* rt_ipc_list_resume_all, all at once.
LEMMA ResumeAllFacts ==
  ASSUME WaitInv, NEW L \in SUBSET List, ResumeAllFailed(L)
  PROVE  /\ Leave({t \in Thread : \E l \in L : Linked(wait[l], t)})
         /\ \A l \in L : wait'[l] = <<>>
         /\ \A t \in Thread :
              err'[t] = IF \E l \in L : Linked(wait[l], t) THEN "ERROR" ELSE err[t]
<1> DEFINE W == {t \in Thread : \E l \in L : Linked(wait[l], t)}
<1>1. /\ wait' = [l \in List |-> IF l \in L THEN <<>> ELSE wait[l]]
      /\ armed' = armed \ W
      /\ err' = [t \in Thread |-> IF t \in W THEN "ERROR" ELSE err[t]]
  BY DEF ResumeAllFailed
<1>2. \A l \in List : wait[l] \in Seq(Thread)
  BY DEF WaitInv, WaitTypeOK
<1>3. \A x : ~Linked(<<>>, x)
  BY DEF Linked
<1>4. Once(<<>>)
  BY DEF Once
<1>5. wait' \in [List -> Seq(Thread)] /\ \A l \in List : Once(wait'[l])
  BY <1>1, <1>2, <1>4 DEF WaitInv, OneReason
<1>6. ASSUME NEW l \in List, NEW x
      PROVE  Linked(wait'[l], x) <=> Linked(wait[l], x) /\ x \notin W
  <2>1. Linked(wait[l], x) => x \in Thread
    BY <1>2, HeadFacts
  <2>2. x \in W /\ Linked(wait[l], x) => l \in L
    BY DEF WaitInv, OneReason
  <2>3. wait'[l] = IF l \in L THEN <<>> ELSE wait[l]
    BY <1>1
  <2> QED BY <1>3, <2>1, <2>2, <2>3
<1>7. err' \in [Thread -> {"OK", "ERROR", "ETIMEOUT"}]
  BY <1>1 DEF WaitInv, WaitTypeOK
<1>8. Leave(W)
  <2> HIDE DEF W
  <2> QED BY <1>1, <1>5, <1>6, <1>7, LeaveFacts
<1> QED BY <1>1, <1>8

\* rt_thread_timeout.
LEMMA TimeoutFacts ==
  ASSUME WaitInv, NEW t \in Thread, Timeout(t)
  PROVE  Leave({t}) /\ Suspended(t) /\ err' = [err EXCEPT ![t] = "ETIMEOUT"]
<1>1. /\ wait' = [l \in List |-> Unlink(wait[l], t)] /\ armed' = armed \ {t}
      /\ err' = [err EXCEPT ![t] = "ETIMEOUT"] /\ t \in armed
  BY DEF Timeout
<1>2. \A l \in List : wait[l] \in Seq(Thread) /\ Once(wait[l])
  BY DEF WaitInv, WaitTypeOK, OneReason
<1>3. ASSUME NEW l \in List
      PROVE  /\ wait'[l] \in Seq(Thread) /\ Once(wait'[l])
             /\ \A x : Linked(wait'[l], x) <=> Linked(wait[l], x) /\ x # t
  <2>1. wait'[l] = Unlink(wait[l], t)
    BY <1>1
  <2> QED BY <1>2, <2>1, UnlinkFacts
<1>4. wait' \in [List -> Seq(Thread)]
  BY <1>1, <1>3
<1>5. err' \in [Thread -> {"OK", "ERROR", "ETIMEOUT"}]
  BY <1>1 DEF WaitInv, WaitTypeOK
<1>6. Leave({t})
  BY <1>1, <1>3, <1>4, <1>5, LeaveFacts
<1>7. Suspended(t)
  BY <1>1 DEF WaitInv, OneReason
<1> QED BY <1>1, <1>6, <1>7

LEMMA WaitInitInv == WaitInit => WaitInv
<1> SUFFICES ASSUME WaitInit PROVE WaitInv
  OBVIOUS
<1>1. WaitTypeOK
  BY DEF WaitInit, WaitTypeOK
<1>2. \A l \in List : wait[l] = <<>>
  BY DEF WaitInit
<1>3. OneReason
  BY <1>2 DEF WaitInit, OneReason, Once, Linked
<1> QED BY <1>1, <1>3 DEF WaitInv

LEMMA WaitStutter == WaitInv /\ UNCHANGED waitVars => WaitInv'
BY DEF WaitInv, WaitTypeOK, OneReason, Suspended, waitVars

\* ipc.c: the suspend lists keep what they promise to the objects: a thread waits in one
\* place, its timer runs only while it waits, and so it wakes up for one reason.
THEOREM WaitListsExact == WaitSpec => [](WaitTypeOK /\ OneReason)
<1>1. WaitInv /\ [WaitNext]_waitVars => WaitInv'
  <2> SUFFICES ASSUME WaitInv, [WaitNext]_waitVars PROVE WaitInv'
    OBVIOUS
  <2>1. ASSUME NEW t \in Thread, Timeout(t) PROVE WaitInv'
    BY <2>1, TimeoutFacts DEF Leave
  <2>2. ASSUME NEW l \in List, wait[l] # <<>>, Resume(l) \/ ResumeFailed(l) PROVE WaitInv'
    BY <2>2, ResumeFacts, ResumeFailedFacts DEF Leave
  <2>3. ASSUME NEW t \in Thread, NEW l \in List, NEW limited \in BOOLEAN,
               ~Suspended(t), Suspend(l, t, limited)
        PROVE  WaitInv'
    BY <2>3, SuspendFacts
  <2>4. CASE UNCHANGED waitVars
    BY <2>4, WaitStutter
  <2> QED BY <2>1, <2>2, <2>3, <2>4 DEF WaitNext
<1> QED BY <1>1, WaitInitInv, PTL DEF WaitSpec, WaitInv

-----------------------------------------------------------------------------
(* Objects with one list of waiters Rx, or with receivers Rx and senders Tx: *)
(* calls, wake-ups and the detach.                                           *)

Calling == {"run", "wait", "send", "fill", "urge", "copy", "detach", "resume", "astray"}

\* The lists of an object: one, or the receivers and the senders.
Lists == Rx \in List /\ List \subseteq {Rx, Tx}

\* The call in which a thread waits on l.
Kind(l) == IF l = Rx THEN "wait" ELSE "send"

\* Who waits on a list is in the call about it and has no error yet.
Parked ==
  \A l \in List, t \in Thread :
    Linked(wait[l], t) => pc[t] = Kind(l) /\ on[t] = l /\ err[t] = "OK"

\* The threads in a detach.
Ending == {t \in Thread : pc[t] \in {"detach", "resume"}}

\* One thread detaches the object, which nobody uses any more; those that were
\* woken before it had gone, and nobody is left waiting behind it.
Closing ==
  /\ \A t \in Thread : pc[t] # "astray" /\ (t \in Ending => on[t] \in gone)
  /\ \A t, u \in Ending : t = u
  /\ \A t \in Thread : pc[t] = "resume" => wait[on[t]] # <<>>
  /\ gone # {} => gone = List /\ armed = {}
  /\ \A l \in gone : wait[l] # <<>> => \E t \in Ending : on[t] \in {l, Rx}

CloseInv == CallTypeOK /\ OneReason /\ Parked /\ Closing

\* Nobody has been woken who still looks at an object that is gone.
Unused == gone # {} => \A t \in Thread : pc[t] \in {"wait", "send"} /\ err[t] = "OK" => Suspended(t)

LEMMA CloseFacts ==
  ASSUME CloseInv
  PROVE  /\ WaitInv
         /\ wait \in [List -> Seq(Thread)] /\ err \in [Thread -> {"OK", "ERROR", "ETIMEOUT"}]
         /\ armed \in SUBSET Thread
         /\ pc \in [Thread -> Calling] /\ on \in [Thread -> List] /\ gone \in SUBSET List
         /\ \A t \in Thread : Suspended(t) => pc[t] \in {"wait", "send"} /\ err[t] = "OK"
         /\ \A l \in List : \A t : Linked(wait[l], t) => t \in Thread /\ wait[l] # <<>>
<1>1. WaitInv
  BY DEF CloseInv, CallTypeOK, WaitInv
<1>2. \A l \in List : \A t : Linked(wait[l], t) => t \in Thread /\ wait[l] # <<>>
  BY <1>1, HeadFacts DEF WaitInv, WaitTypeOK
<1> QED BY <1>1, <1>2 DEF CloseInv, CallTypeOK, WaitTypeOK, Calling, Parked, Kind, Suspended

\* While the object is there, only who waits matters.
LEMMA OpenFacts ==
  ASSUME WaitInv, Parked, gone = {}, pc \in [Thread -> Calling], on \in [Thread -> List],
         \A t \in Thread : pc[t] \notin {"detach", "resume", "astray"}
  PROVE  CloseInv /\ Unused
<1>1. Closing /\ Unused
  BY DEF Closing, Ending, Unused
<1>2. CallTypeOK
  BY DEF CallTypeOK, WaitInv, Calling
<1> QED BY <1>1, <1>2 DEF CloseInv, WaitInv

LEMMA CloseInit ==
  ObjectInit => CloseInv /\ Unused /\ gone = {} /\ \A l \in List : wait[l] = <<>>
<1> SUFFICES ASSUME ObjectInit
             PROVE  CloseInv /\ Unused /\ gone = {} /\ \A l \in List : wait[l] = <<>>
  OBVIOUS
<1>1. WaitInv /\ gone = {} /\ \A l \in List : wait[l] = <<>>
  BY WaitInitInv DEF ObjectInit, WaitInit
<1>2. \A l \in List : \A t : ~Linked(wait[l], t)
  BY <1>1 DEF Linked
<1>3. SomeList \in List
  BY ObjectAssumption DEF SomeList
<1>4. /\ pc \in [Thread -> Calling] /\ on \in [Thread -> List]
      /\ \A t \in Thread : pc[t] \notin {"detach", "resume", "astray"}
  BY <1>3 DEF ObjectInit, Calling
<1>5. Parked
  BY <1>2 DEF Parked
<1> QED BY <1>1, <1>4, <1>5, OpenFacts

\* The threads in call c about l that have been woken are finitely many.
LEMMA WokenFinite ==
  ASSUME NEW c, NEW l
  PROVE  IsFiniteSet(Woken(c, l)) /\ Cardinality(Woken(c, l)) \in Nat
<1>1. Woken(c, l) \subseteq Thread
  BY DEF Woken
<1>2. IsFiniteSet(Woken(c, l))
  BY <1>1, WaitAssumption, FS_Subset
<1> QED BY <1>2, FS_CardinalityType

\* While the object is there, nobody is in its detach.
LEMMA NobodyEnds ==
  ASSUME CloseInv, gone = {}
  PROVE  \A t \in Thread : pc[t] \notin {"detach", "resume", "astray"}
BY DEF CloseInv, Closing, Ending

\* Nobody begins to wait: an empty list stays empty.
LEMMA LeaveEmpties ==
  ASSUME WaitInv, NEW W, Leave(W)
  PROVE  \A l \in List : wait'[l] # <<>> => wait[l] # <<>>
<1> SUFFICES ASSUME NEW l \in List, wait'[l] # <<>> PROVE wait[l] # <<>>
  OBVIOUS
<1>1. wait[l] \in Seq(Thread) /\ wait'[l] \in Seq(Thread)
  BY DEF Leave, WaitInv, WaitTypeOK
<1>2. Linked(wait'[l], Head(wait'[l]))
  BY <1>1, HeadFacts
<1>3. Linked(wait[l], Head(wait'[l]))
  BY <1>2 DEF Leave
<1> QED BY <1>1, <1>3, HeadFacts

\* A step that ends the waits of W or nobody's, and the calls of T or nobody's.
LEMMA StepFacts ==
  ASSUME CloseInv, NEW W, Leave(W), gone = {} \/ W = {},
         NEW T \in SUBSET Thread,
         \A t \in T : ~Suspended(t) /\ t \notin Ending /\ pc'[t] \in {"run", "fill", "urge", "copy"},
         \A t \in Thread \ T : /\ pc'[t] = pc[t] /\ on'[t] = on[t]
                               /\ err'[t] = err[t] \/ (t \in W /\ Suspended(t) /\ err'[t] # "OK"),
         pc' \in [Thread -> Calling], on' \in [Thread -> List],
         gone' = gone
  PROVE  /\ CloseInv' /\ (Unused => Unused')
         /\ \A l \in List : Woken(Kind(l), l)' =
              (Woken(Kind(l), l) \ T) \union {t \in W : Linked(wait[l], t) /\ err'[t] = "OK"}
<1>1. /\ WaitInv' /\ \A l \in List : \A t : Linked(wait'[l], t) <=> Linked(wait[l], t) /\ t \notin W
      /\ armed' = armed \ W
  BY DEF Leave
<1>2. \A t : Suspended(t)' <=> Suspended(t) /\ t \notin W
  BY <1>1 DEF Suspended
<1>3. \A l \in List : wait[l] \in Seq(Thread) /\ wait'[l] \in Seq(Thread)
  BY <1>1, CloseFacts DEF WaitInv, WaitTypeOK
<1>4. \A l \in List : /\ wait[l] # <<>> => Linked(wait[l], Head(wait[l])) /\ Head(wait[l]) \in Thread
                      /\ wait'[l] # <<>> => Linked(wait'[l], Head(wait'[l])) /\ Head(wait'[l]) \in Thread
                      /\ \A t : Linked(wait[l], t) => wait[l] # <<>> /\ t \in Thread
                      /\ \A t : Linked(wait'[l], t) => wait'[l] # <<>> /\ t \in Thread
  <2> SUFFICES ASSUME NEW l \in List
               PROVE  /\ wait[l] # <<>> => Linked(wait[l], Head(wait[l])) /\ Head(wait[l]) \in Thread
                      /\ wait'[l] # <<>> => Linked(wait'[l], Head(wait'[l])) /\ Head(wait'[l]) \in Thread
                      /\ \A t : Linked(wait[l], t) => wait[l] # <<>> /\ t \in Thread
                      /\ \A t : Linked(wait'[l], t) => wait'[l] # <<>> /\ t \in Thread
    OBVIOUS
  <2>1. wait[l] \in Seq(Thread) /\ wait'[l] \in Seq(Thread)
    BY <1>3
  <2>2. /\ wait[l] # <<>> => Linked(wait[l], Head(wait[l])) /\ Head(wait[l]) \in Thread
        /\ \A t : Linked(wait[l], t) => wait[l] # <<>> /\ t \in Thread
    BY <2>1, HeadFacts
  <2>3. /\ wait'[l] # <<>> => Linked(wait'[l], Head(wait'[l])) /\ Head(wait'[l]) \in Thread
        /\ \A t : Linked(wait'[l], t) => wait'[l] # <<>> /\ t \in Thread
    BY <2>1, HeadFacts
  <2> QED BY <2>2, <2>3
<1>5. \A l \in List : wait'[l] # <<>> => wait[l] # <<>>
  BY <1>1, <1>4
<1>6. W = {} => \A l \in List : wait[l] # <<>> => wait'[l] # <<>>
  BY <1>1, <1>4
<1>7. CallTypeOK'
  BY <1>1, CloseFacts DEF CallTypeOK, WaitInv, Calling
<1>8. Parked'
  <2> SUFFICES ASSUME NEW l \in List, NEW t \in Thread, Linked(wait'[l], t)
               PROVE  pc'[t] = Kind(l) /\ on'[t] = l /\ err'[t] = "OK"
    BY DEF Parked, Kind
  <2>1. Linked(wait[l], t) /\ t \notin W /\ Suspended(t)
    BY <1>1 DEF Suspended
  <2>2. t \notin T
    BY <2>1
  <2> QED BY <2>1, <2>2 DEF CloseInv, Parked
<1>9. Ending' = Ending /\ \A t \in Ending : pc'[t] = pc[t] /\ on'[t] = on[t]
  BY DEF Ending
<1>10. \A t \in Thread : pc'[t] # "astray" /\ (pc'[t] = "resume" => t \in Ending /\ pc[t] = "resume")
  BY DEF CloseInv, Closing, Ending
<1>11. Closing'
  <2>1. \A t \in Thread : t \in Ending' => on'[t] \in gone'
    BY <1>9 DEF CloseInv, Closing, Ending
  <2>2. \A t \in Thread : pc'[t] = "resume" => wait'[on'[t]] # <<>>
    <3> SUFFICES ASSUME NEW t \in Thread, pc'[t] = "resume" PROVE wait'[on'[t]] # <<>>
      OBVIOUS
    <3>1. t \in Ending /\ pc[t] = "resume" /\ on'[t] = on[t] /\ on[t] \in List
      BY <1>9, <1>10, CloseFacts
    <3>2. wait[on[t]] # <<>> /\ W = {}
      BY <3>1 DEF CloseInv, Closing
    <3> QED BY <3>1, <3>2, <1>6
  <2>3. gone' # {} => gone' = List /\ armed' = {}
    BY <1>1 DEF CloseInv, Closing
  <2>4. \A l \in gone' : wait'[l] # <<>> => \E t \in Ending' : on'[t] \in {l, Rx}
    BY <1>5, <1>9, CloseFacts DEF CloseInv, Closing
  <2> QED BY <1>9, <1>10, <2>1, <2>2, <2>3, <2>4 DEF CloseInv, Closing
<1>12. Unused => Unused'
  BY <1>2 DEF Unused
<1>13. ASSUME NEW l \in List
       PROVE  Woken(Kind(l), l)' =
              (Woken(Kind(l), l) \ T) \union {t \in W : Linked(wait[l], t) /\ err'[t] = "OK"}
  <2>1. ASSUME NEW t \in Thread \ T, t \notin W
        PROVE  t \in Woken(Kind(l), l)' <=> t \in Woken(Kind(l), l)
    BY <2>1, <1>2 DEF Woken, Back, Kind
  <2>2. ASSUME NEW t \in T
        PROVE  t \notin Woken(Kind(l), l)' /\ ~Linked(wait[l], t)
    BY <2>2 DEF Woken, Back, Kind, Suspended
  <2>3. ASSUME NEW t \in Thread \ T, t \in W, Linked(wait[l], t)
        PROVE  t \notin Woken(Kind(l), l) /\ (t \in Woken(Kind(l), l)' <=> err'[t] = "OK")
    <3>1. pc[t] = Kind(l) /\ on[t] = l /\ err[t] = "OK" /\ ~Suspended(t)' /\ Suspended(t)
      BY <2>3, <1>2 DEF CloseInv, Parked, Suspended
    <3> QED BY <3>1 DEF Woken, Back, Kind
  <2>4. ASSUME NEW t \in Thread \ T, t \in W, ~Linked(wait[l], t)
        PROVE  t \in Woken(Kind(l), l)' <=> t \in Woken(Kind(l), l)
    <3>1. CASE Suspended(t)
      <4>1. PICK m \in List : Linked(wait[m], t)
        BY <3>1 DEF Suspended
      <4>2. on[t] = m /\ on'[t] = m /\ m # l
        BY <4>1, <2>4 DEF CloseInv, Parked
      <4> QED BY <4>2 DEF Woken
    <3>2. CASE ~Suspended(t)
      <4>1. pc'[t] = pc[t] /\ on'[t] = on[t] /\ err'[t] = err[t] /\ ~Suspended(t)'
        BY <3>2, <1>2
      <4> QED BY <3>2, <4>1 DEF Woken, Back, Kind
    <3> QED BY <3>1, <3>2
  <2>5. \A t : Linked(wait[l], t) => t \in Thread
    BY <1>4
  <2>6. Woken(Kind(l), l) \subseteq Thread /\ Woken(Kind(l), l)' \subseteq Thread
    BY DEF Woken
  <2> DEFINE A == Woken(Kind(l), l)  B == Woken(Kind(l), l)'
             N == {t \in W : Linked(wait[l], t) /\ err'[t] = "OK"}
  <2>7. ASSUME NEW t PROVE t \in B <=> (t \in A /\ t \notin T) \/ t \in N
    <3>1. CASE t \in Thread \ T /\ t \notin W
      BY <3>1, <2>1
    <3>2. CASE t \in T
      BY <3>2, <2>2
    <3>3. CASE t \in Thread \ T /\ t \in W /\ Linked(wait[l], t)
      BY <3>3, <2>3
    <3>4. CASE t \in Thread \ T /\ t \in W /\ ~Linked(wait[l], t)
      BY <3>4, <2>4
    <3>5. CASE t \notin Thread
      BY <3>5, <2>5, <2>6
    <3> QED BY <3>1, <3>2, <3>3, <3>4, <3>5
  <2> HIDE DEF A, B, N
  <2>8. B = (A \ T) \union N
    BY <2>7
  <2> QED BY <2>8 DEF A, B, N
<1> QED BY <1>1, <1>7, <1>8, <1>11, <1>12, <1>13 DEF CloseInv, WaitInv

\* The waiter that rt_ipc_list_resume finds.
First(l) == IF wait[l] # <<>> THEN {Head(wait[l])} ELSE {}

LEMMA ResumeOneFacts ==
  ASSUME WaitInv, NEW l \in List, ResumeOne(l)
  PROVE  Leave(First(l)) /\ err' = err
<1>1. CASE wait[l] # <<>>
  BY <1>1, ResumeFacts DEF ResumeOne, First
<1>2. CASE wait[l] = <<>>
  BY <1>2, WaitStutter DEF ResumeOne, First, Leave, waitVars
<1> QED BY <1>1, <1>2

LEMMA StandFacts ==
  ASSUME WaitInv, UNCHANGED waitVars
  PROVE  Leave({}) /\ err' = err
BY WaitStutter DEF Leave, waitVars

\* Steps that wake nobody with success: who is on the way, but for the thread that acts.
LEMMA NobodyWoken ==
  ASSUME CloseInv, NEW W, Leave(W), gone = {} \/ W = {},
         NEW T \in SUBSET Thread,
         \A t \in T : ~Suspended(t) /\ t \notin Ending /\ pc'[t] \in {"run", "fill", "urge", "copy"},
         \A t \in Thread \ T : /\ pc'[t] = pc[t] /\ on'[t] = on[t]
                               /\ err'[t] = IF Suspended(t) /\ t \in W THEN err'[t] ELSE err[t]
                               /\ Suspended(t) /\ t \in W => err'[t] # "OK",
         pc' \in [Thread -> Calling], on' \in [Thread -> List],
         gone' = gone
  PROVE  /\ CloseInv' /\ (Unused => Unused')
         /\ \A l \in List : Woken(Kind(l), l)' = Woken(Kind(l), l) \ T
<1>1. \A t \in Thread \ T : /\ pc'[t] = pc[t] /\ on'[t] = on[t]
                            /\ err'[t] = err[t] \/ (t \in W /\ Suspended(t) /\ err'[t] # "OK")
  OBVIOUS
<1>2. /\ CloseInv' /\ (Unused => Unused')
      /\ \A l \in List : Woken(Kind(l), l)' =
           (Woken(Kind(l), l) \ T) \union {t \in W : Linked(wait[l], t) /\ err'[t] = "OK"}
  BY <1>1, StepFacts
<1>3. ASSUME NEW l \in List, NEW t \in W, Linked(wait[l], t)
      PROVE  err'[t] # "OK"
  BY <1>3, CloseFacts DEF Suspended
<1> QED BY <1>2, <1>3

\* Steps that look for a waiter of r to wake.
LEMMA FirstWoken ==
  ASSUME CloseInv, NEW r \in List, ResumeOne(r), gone = {},
         NEW T \in SUBSET Thread,
         \A t \in T : ~Suspended(t) /\ t \notin Ending /\ pc'[t] \in {"run", "fill", "urge", "copy"},
         \A t \in Thread \ T : pc'[t] = pc[t] /\ on'[t] = on[t],
         pc' \in [Thread -> Calling], on' \in [Thread -> List],
         gone' = gone
  PROVE  /\ CloseInv' /\ (Unused => Unused')
         /\ \A l \in List : Woken(Kind(l), l)' =
              (Woken(Kind(l), l) \ T) \union (IF l = r THEN First(r) ELSE {})
<1>1. Leave(First(r)) /\ err' = err
  BY CloseFacts, ResumeOneFacts
<1>2. /\ CloseInv' /\ (Unused => Unused')
      /\ \A l \in List : Woken(Kind(l), l)' =
           (Woken(Kind(l), l) \ T) \union {t \in First(r) : Linked(wait[l], t) /\ err'[t] = "OK"}
  BY <1>1, StepFacts
<1>3. ASSUME NEW l \in List
      PROVE  {t \in First(r) : Linked(wait[l], t) /\ err'[t] = "OK"} = IF l = r THEN First(r) ELSE {}
  <2>1. CASE wait[r] # <<>>
    <3>1. /\ Head(wait[r]) \in Thread /\ Linked(wait[r], Head(wait[r]))
          /\ \A m \in List : Linked(wait[m], Head(wait[r])) => m = r
      BY <2>1, CloseFacts, FirstFacts
    <3>2. err'[Head(wait[r])] = "OK"
      BY <1>1, <3>1 DEF CloseInv, Parked
    <3> QED BY <2>1, <3>1, <3>2 DEF First
  <2>2. CASE wait[r] = <<>>
    BY <2>2 DEF First
  <2> QED BY <2>1, <2>2
<1> QED BY <1>2, <1>3

\* Thread t waits on l.
LEMMA WaitOnFacts ==
  ASSUME CloseInv, NEW t \in Thread, NEW l \in List, ~Suspended(t), gone = {},
         NEW q \in Seq(Thread), Once(q),
         \A x : Linked(q, x) <=> Linked(wait[l], x) \/ x = t,
         NEW limited, Park(l, t, q, limited), Goto(t, Kind(l), l), gone' = gone
  PROVE  /\ CloseInv' /\ Unused'
         /\ \A m \in List : Woken(Kind(m), m)' = Woken(Kind(m), m) \ {t}
         /\ \A m \in List : m # l => wait'[m] = wait[m]
<1>1. pc' = [pc EXCEPT ![t] = Kind(l)] /\ on' = [on EXCEPT ![t] = l]
  BY DEF Goto
<1>2. /\ WaitInv'
      /\ \A m \in List : \A x : Linked(wait'[m], x) <=> Linked(wait[m], x) \/ (m = l /\ x = t)
      /\ err' = [err EXCEPT ![t] = "OK"]
  BY CloseFacts, ParkFacts
<1>3. \A x : Suspended(x)' <=> Suspended(x) \/ x = t
  BY <1>2 DEF Suspended
<1>4. Kind(l) \in {"wait", "send"} /\ Kind(l) \in Calling
  BY DEF Kind, Calling
<1>5. pc' \in [Thread -> Calling] /\ on' \in [Thread -> List]
  BY <1>1, <1>4, CloseFacts
<1>6. Parked'
  <2> SUFFICES ASSUME NEW m \in List, NEW x \in Thread, Linked(wait'[m], x)
               PROVE  pc'[x] = Kind(m) /\ on'[x] = m /\ err'[x] = "OK"
    BY DEF Parked, Kind
  <2>1. CASE x = t
    BY <1>1, <1>2, <2>1, CloseFacts DEF Suspended
  <2>2. CASE x # t
    <3>1. Linked(wait[m], x)
      BY <1>2, <2>2
    <3> QED BY <1>1, <1>2, <2>2, <3>1, CloseFacts DEF CloseInv, Parked
  <2> QED BY <2>1, <2>2
<1>7. CloseInv' /\ Unused'
  <2>1. \A x \in Thread : pc'[x] \notin {"detach", "resume", "astray"}
    BY <1>1, <1>4, CloseFacts, NobodyEnds
  <2>2. Closing' /\ Unused'
    BY <2>1 DEF Closing, Ending, Unused
  <2>3. CallTypeOK'
    BY <1>2, <1>5, CloseFacts DEF CallTypeOK, WaitInv, Calling
  <2> QED BY <1>2, <1>6, <2>2, <2>3 DEF CloseInv, WaitInv
<1>8. ASSUME NEW m \in List
      PROVE  Woken(Kind(m), m)' = Woken(Kind(m), m) \ {t}
  <2>1. \A x \in Thread \ {t} : /\ pc'[x] = pc[x] /\ on'[x] = on[x] /\ err'[x] = err[x]
                                /\ Suspended(x)' <=> Suspended(x)
    BY <1>1, <1>2, <1>3, CloseFacts
  <2>2. Suspended(t)'
    BY <1>3
  <2> QED BY <2>1, <2>2 DEF Woken, Back, Kind
<1>9. \A m \in List : m # l => wait'[m] = wait[m]
  BY CloseFacts DEF Park
<1> QED BY <1>7, <1>8, <1>9

\* rt_thread_timeout of a waiter.
LEMMA TimerFacts ==
  ASSUME CloseInv, TimerExpires
  PROVE  /\ CloseInv' /\ Unused' /\ gone = {} /\ gone' = {}
         /\ \A l \in List : Woken(Kind(l), l)' = Woken(Kind(l), l)
         /\ \A l \in List : wait'[l] # <<>> => wait[l] # <<>>
<1>1. PICK t \in Thread : Timeout(t)
  BY DEF TimerExpires
<1>2. /\ Leave({t}) /\ Suspended(t) /\ err' = [err EXCEPT ![t] = "ETIMEOUT"]
  BY <1>1, CloseFacts, TimeoutFacts
<1>3. t \in armed /\ UNCHANGED <<pc, on, gone>>
  BY <1>1 DEF Timeout, TimerExpires, callVars
<1>4. gone = {}
  BY <1>3 DEF CloseInv, Closing
<1>5. CloseInv' /\ \A l \in List : Woken(Kind(l), l)' = Woken(Kind(l), l) \ {}
  <2>1. \A x \in Thread : /\ pc'[x] = pc[x] /\ on'[x] = on[x]
                          /\ err'[x] = IF Suspended(x) /\ x \in {t} THEN err'[x] ELSE err[x]
                          /\ Suspended(x) /\ x \in {t} => err'[x] # "OK"
    BY <1>2, <1>3, CloseFacts
  <2>2. Leave({t}) /\ gone' = gone /\ pc' \in [Thread -> Calling] /\ on' \in [Thread -> List]
    BY <1>2, <1>3, CloseFacts
  <2>3. {} \in SUBSET Thread /\ Thread \ {} = Thread
    OBVIOUS
  <2> QED BY <1>4, <2>1, <2>2, <2>3, NobodyWoken
<1>6. \A l \in List : wait'[l] # <<>> => wait[l] # <<>>
  BY <1>2, <1>5, LeaveEmpties, CloseFacts
<1> QED BY <1>3, <1>4, <1>5, <1>6 DEF Unused

\* rt_ipc_list_resume_all of a reset.
LEMMA ResetFacts ==
  ASSUME CloseInv, ResumeAllFailed(List), UNCHANGED callVars, gone = {}
  PROVE  /\ CloseInv' /\ Unused' /\ gone' = {}
         /\ \A l \in List : Woken(Kind(l), l)' = Woken(Kind(l), l)
         /\ \A l \in List : wait'[l] = <<>>
<1> DEFINE W == {t \in Thread : \E l \in List : Linked(wait[l], t)}
<1>1. /\ Leave(W)
      /\ \A l \in List : wait'[l] = <<>>
      /\ \A t \in Thread :
           err'[t] = IF \E l \in List : Linked(wait[l], t) THEN "ERROR" ELSE err[t]
  BY CloseFacts, ResumeAllFacts
<1>2. UNCHANGED <<pc, on, gone>>
  BY DEF callVars
<1>3. \A t : Suspended(t) /\ t \in Thread <=> t \in W
  BY DEF Suspended
<1>4. \A x \in Thread : /\ pc'[x] = pc[x] /\ on'[x] = on[x]
                        /\ err'[x] = IF Suspended(x) /\ x \in W THEN err'[x] ELSE err[x]
                        /\ Suspended(x) /\ x \in W => err'[x] # "OK"
  BY <1>1, <1>2, <1>3 DEF Suspended
<1> HIDE DEF W
<1>5. CloseInv' /\ \A l \in List : Woken(Kind(l), l)' = Woken(Kind(l), l) \ {}
  <2>1. Leave(W) /\ gone' = gone /\ pc' \in [Thread -> Calling] /\ on' \in [Thread -> List]
    BY <1>1, <1>2, CloseFacts
  <2>2. {} \in SUBSET Thread /\ Thread \ {} = Thread
    OBVIOUS
  <2> QED BY <1>4, <2>1, <2>2, NobodyWoken
<1> QED BY <1>1, <1>2, <1>5 DEF Unused

\* rt_mb_detach and its like, up to the loop.
LEMMA DetachFacts ==
  ASSUME CloseInv, Lists, DetachUnarmed, NEW t \in Thread, Detach(t, Rx, List)
  PROVE  /\ CloseInv' /\ gone = {}
         /\ (\A x \in Thread : pc[x] \in {"wait", "send"} => Suspended(x)) => Unused'
         /\ \A l \in List : Woken(Kind(l), l)' = Woken(Kind(l), l)
         /\ wait' = wait
<1>1. /\ pc[t] = "run" /\ Rx \notin gone /\ armed = {} /\ gone' = gone \union List
      /\ pc' = [pc EXCEPT ![t] = "detach"] /\ on' = [on EXCEPT ![t] = Rx]
      /\ UNCHANGED <<wait, armed, err>>
  BY DEF Detach, Calls, Goto, waitVars
<1>2. gone = {} /\ Ending = {} /\ gone' = List
  BY <1>1, CloseFacts DEF Lists, CloseInv, Closing, Ending
<1>3. WaitInv' /\ \A x : Suspended(x)' <=> Suspended(x)
  BY <1>1, CloseFacts, WaitStutter DEF waitVars, Suspended
<1>4. CallTypeOK'
  BY <1>1, <1>2, <1>3, CloseFacts DEF Lists, CallTypeOK, WaitInv, Calling
<1>5. Parked'
  <2>1. ~Suspended(t)
    BY <1>1, CloseFacts
  <2> QED BY <1>1, <2>1, CloseFacts DEF CloseInv, Parked, Kind, Suspended
<1>6. Ending' = {t} /\ on'[t] = Rx
  BY <1>1, <1>2, CloseFacts DEF Ending
<1>7. Closing'
  BY <1>1, <1>2, <1>6, CloseFacts DEF CloseInv, Closing, Lists
<1>8. (\A x \in Thread : pc[x] \in {"wait", "send"} => Suspended(x)) => Unused'
  BY <1>1, <1>3, CloseFacts DEF Unused
<1>9. \A l \in List : Woken(Kind(l), l)' = Woken(Kind(l), l)
  BY <1>1, <1>3, CloseFacts DEF Woken, Back, Kind
<1> QED BY <1>1, <1>2, <1>3, <1>4, <1>5, <1>7, <1>8, <1>9 DEF CloseInv, WaitInv

\* The loop test of the detach.
LEMMA DetachTestFacts ==
  ASSUME CloseInv, Lists, NEW t \in Thread, DetachTest(t, List \ {Rx})
  PROVE  /\ CloseInv' /\ (Unused => Unused') /\ gone # {} /\ gone' = gone
         /\ \A l \in List : Woken(Kind(l), l)' = Woken(Kind(l), l)
         /\ wait' = wait
<1> DEFINE rest == List \ {Rx}
<1>1. /\ pc[t] = "detach" /\ UNCHANGED <<wait, armed, err, gone>>
      /\ t \in Ending /\ on[t] \in gone /\ gone = List /\ armed = {}
  BY CloseFacts DEF DetachTest, waitVars, CloseInv, Closing, Ending
<1>2. \E c \in {"resume", "detach", "run"} : \E l \in List :
        /\ pc' = [pc EXCEPT ![t] = c] /\ on' = [on EXCEPT ![t] = l]
        /\ c = "resume" => l = on[t] /\ wait[l] # <<>>
        /\ c = "detach" => wait[on[t]] = <<>> /\ on[t] = Rx /\ l = Tx
        /\ c = "run" => wait[on[t]] = <<>> /\ (on[t] # Rx \/ List = {Rx})
  <2>1. CASE wait[on[t]] # <<>>
    <3>1. Goto(t, "resume", on[t])
      BY <2>1 DEF DetachTest
    <3> QED BY <2>1, <3>1, CloseFacts DEF Goto
  <2>2. CASE wait[on[t]] = <<>> /\ on[t] \notin rest /\ rest # {}
    <3>1. Goto(t, "detach", CHOOSE l \in rest : TRUE)
      BY <2>2 DEF DetachTest
    <3>2. (CHOOSE l \in rest : TRUE) = Tx /\ Tx \in List /\ on[t] = Rx
      BY <2>2, CloseFacts DEF Lists
    <3> QED BY <2>2, <3>1, <3>2 DEF Goto
  <2>3. CASE wait[on[t]] = <<>> /\ ~(on[t] \notin rest /\ rest # {})
    <3>1. Return(t)
      BY <2>3 DEF DetachTest
    <3>2. SomeList \in List /\ (on[t] # Rx \/ List = {Rx})
      BY <2>3, CloseFacts, ObjectAssumption DEF SomeList, Lists
    <3> QED BY <2>3, <3>1, <3>2 DEF Return, Goto
  <2> QED BY <2>1, <2>2, <2>3
<1>3. PICK c \in {"resume", "detach", "run"}, l \in List :
        /\ pc' = [pc EXCEPT ![t] = c] /\ on' = [on EXCEPT ![t] = l]
        /\ c = "resume" => l = on[t] /\ wait[l] # <<>>
        /\ c = "detach" => wait[on[t]] = <<>> /\ on[t] = Rx /\ l = Tx
        /\ c = "run" => wait[on[t]] = <<>> /\ (on[t] # Rx \/ List = {Rx})
  BY <1>2
<1>4. WaitInv' /\ \A x : Suspended(x)' <=> Suspended(x)
  BY <1>1, CloseFacts, WaitStutter DEF waitVars, Suspended
<1>5. ~Suspended(t)
  BY <1>1, CloseFacts
<1>6. CallTypeOK'
  BY <1>1, <1>3, <1>4, CloseFacts DEF CallTypeOK, WaitInv, Calling
<1>7. Parked'
  BY <1>1, <1>3, <1>5, CloseFacts DEF CloseInv, Parked, Kind, Suspended
<1>8. \A x \in Thread : x \in Ending => x = t
  BY <1>1 DEF CloseInv, Closing
<1>9. \A x \in Thread : x # t => pc'[x] = pc[x] /\ on'[x] = on[x]
  BY <1>3, CloseFacts
<1>10. pc'[t] = c /\ on'[t] = l
  BY <1>3, CloseFacts
<1>11. \A x \in Thread : x \in Ending' <=> x = t /\ c # "run"
  BY <1>8, <1>9, <1>10 DEF Ending
<1>12. ASSUME NEW m \in List, wait[m] # <<>>
       PROVE  c # "run" /\ l \in {m, Rx}
  <2>1. on[t] \in {m, Rx}
    BY <1>1, <1>8, <1>12 DEF CloseInv, Closing
  <2> QED BY <1>3, <1>12, <2>1 DEF Lists
<1>13. Closing'
  <2>1. \A x \in Thread : pc'[x] # "astray" /\ (x \in Ending' => on'[x] \in gone')
    BY <1>1, <1>9, <1>10, <1>11 DEF CloseInv, Closing
  <2>2. \A x, y \in Ending' : x = y
    BY <1>11 DEF Ending
  <2>3. \A x \in Thread : pc'[x] = "resume" => wait'[on'[x]] # <<>>
    BY <1>1, <1>3, <1>8, <1>9, <1>10 DEF Ending
  <2>4. \A m \in gone' : wait'[m] # <<>> => \E x \in Ending' : on'[x] \in {m, Rx}
    BY <1>1, <1>10, <1>11, <1>12
  <2> QED BY <1>1, <2>1, <2>2, <2>3, <2>4 DEF CloseInv, Closing
<1>14. Unused => Unused'
  BY <1>1, <1>3, <1>4, <1>9, <1>10 DEF Unused
<1>15. \A m \in List : Woken(Kind(m), m)' = Woken(Kind(m), m)
  BY <1>1, <1>4, <1>9, <1>10 DEF Woken, Back, Kind
<1> QED BY <1>1, <1>4, <1>6, <1>7, <1>13, <1>14, <1>15 DEF CloseInv, WaitInv

\* A round of the loop of the detach.
LEMMA DetachResumeFacts ==
  ASSUME CloseInv, Lists, NEW t \in Thread, DetachResume(t)
  PROVE  /\ CloseInv' /\ (Unused => Unused') /\ gone # {} /\ gone' = gone
         /\ \A l \in List : Woken(Kind(l), l)' = Woken(Kind(l), l)
         /\ \A l \in List : wait'[l] # <<>> => wait[l] # <<>>
<1> DEFINE l == on[t]  h == Head(wait[l])
<1>1. /\ pc[t] = "resume" /\ wait[l] # <<>> /\ gone' = gone
      /\ ResumeFailed(l) /\ pc' = [pc EXCEPT ![t] = "detach"] /\ on' = [on EXCEPT ![t] = l]
  BY DEF DetachResume, Goto, CloseInv, Closing
<1>2. t \in Ending /\ l \in gone /\ gone = List /\ armed = {} /\ l \in List
  BY <1>1, CloseFacts DEF CloseInv, Closing, Ending
<1>3. Leave({h}) /\ err' = [err EXCEPT ![h] = "ERROR"] /\ h \in Thread /\ Linked(wait[l], h)
  BY <1>1, <1>2, CloseFacts, ResumeFailedFacts, FirstFacts
<1> HIDE DEF h
<1>4. /\ \A m \in List : wait'[m] # <<>> => wait[m] # <<>>
      /\ \A m \in List : \A x : Linked(wait'[m], x) <=> Linked(wait[m], x) /\ x # h
      /\ WaitInv' /\ armed' = {}
  BY <1>2, <1>3, CloseFacts, LeaveEmpties DEF Leave
<1>5. \A x : Suspended(x)' <=> Suspended(x) /\ x # h
  BY <1>4 DEF Suspended
<1>6. Suspended(h) /\ pc[h] \in {"wait", "send"} /\ ~Suspended(t) /\ h # t
  BY <1>1, <1>2, <1>3, CloseFacts DEF Suspended
<1>7. CallTypeOK'
  BY <1>1, <1>2, <1>4, CloseFacts DEF CallTypeOK, WaitInv, Calling
<1>8. Parked'
  BY <1>1, <1>3, <1>4, <1>6, CloseFacts DEF CloseInv, Parked, Kind, Suspended
<1>9. \A x \in Thread : x \in Ending => x = t
  BY <1>2 DEF CloseInv, Closing
<1>10. \A x \in Thread : /\ x # t => pc'[x] = pc[x]
                         /\ on'[x] = on[x] /\ pc'[t] = "detach"
                         /\ err'[x] = IF x = h THEN "ERROR" ELSE err[x]
  BY <1>1, <1>3, CloseFacts
<1>11. Ending' = {t}
  BY <1>9, <1>10 DEF Ending
<1>12. Closing'
  <2>1. \A x \in Thread : pc'[x] # "astray" /\ (x \in Ending' => on'[x] \in gone')
    BY <1>1, <1>2, <1>10, <1>11 DEF CloseInv, Closing
  <2>2. \A x \in Thread : pc'[x] # "resume"
    BY <1>9, <1>10 DEF Ending
  <2>3. \A m \in gone' : wait'[m] # <<>> => \E x \in Ending' : on'[x] \in {m, Rx}
    <3> SUFFICES ASSUME NEW m \in gone', wait'[m] # <<>> PROVE on'[t] \in {m, Rx}
      BY <1>11
    <3>1. m \in List /\ wait[m] # <<>>
      BY <1>1, <1>2, <1>4
    <3>2. \E x \in Ending : on[x] \in {m, Rx}
      BY <1>2, <3>1 DEF CloseInv, Closing
    <3>3. Ending \subseteq Thread
      BY DEF Ending
    <3>4. on[t] \in {m, Rx}
      BY <1>9, <3>2, <3>3
    <3> QED BY <1>10, <3>4
  <2> QED BY <1>1, <1>2, <1>4, <1>11, <2>1, <2>2, <2>3 DEF Closing
<1>13. Unused => Unused'
  BY <1>1, <1>5, <1>10 DEF Unused
<1>14. ASSUME NEW m \in List PROVE Woken(Kind(m), m)' = Woken(Kind(m), m)
  BY <1>1, <1>5, <1>6, <1>10 DEF Woken, Back, Kind
<1> QED BY <1>1, <1>2, <1>4, <1>7, <1>8, <1>12, <1>13, <1>14 DEF CloseInv, WaitInv

-----------------------------------------------------------------------------
(* Objects that hand nothing over: a woken thread looks again.              *)

Waiting == {"none", "some", "never"}

RetryInv == CloseInv /\ Unused /\ left \in [Thread -> Waiting]

LEMMA RetryInitInv ==
  RetryInit => RetryInv /\ gone = {} /\ \A l \in List : wait[l] = <<>>
BY CloseInit DEF RetryInit, RetryInv, Waiting

\* Who may use the object: it is there.
LEMMA LookFacts ==
  ASSUME RetryInv, NEW t \in Thread, NEW c \in {"wait", "send"}, NEW limit, Looks(t, c, limit)
  PROVE  /\ gone = {} /\ ~Suspended(t) /\ pc[t] = c /\ t \notin Ending
         /\ limit \in Waiting
BY DEF RetryInv, Unused, Looks, Back, Ending, Remaining, Waiting

LEMMA CallFacts ==
  ASSUME RetryInv, Lists, NEW t \in Thread, Calls(t, Rx)
  PROVE  gone = {} /\ ~Suspended(t) /\ pc[t] = "run" /\ t \notin Ending
<1>1. pc[t] = "run" /\ Rx \notin gone
  BY DEF Calls
<1> QED BY <1>1, CloseFacts DEF RetryInv, CloseInv, Closing, Lists, Ending

LEMMA ThereFacts ==
  ASSUME RetryInv, Lists, Rx \notin gone
  PROVE  gone = {}
BY DEF RetryInv, CloseInv, Closing, Lists

\* Timeouts and the detach.
LEMMA OutsideFacts ==
  ASSUME RetryInv, Lists, DetachUnarmed, UNCHANGED left,
         \/ TimerExpires
         \/ \E t \in Thread :
              RetryDetach(t, Rx, List) \/ DetachTest(t, List \ {Rx}) \/ DetachResume(t)
  PROVE  /\ RetryInv'
         /\ \A l \in List : Woken(Kind(l), l)' = Woken(Kind(l), l)
         /\ \A l \in List : wait'[l] # <<>> => wait[l] # <<>>
<1>1. CASE TimerExpires
  BY <1>1, TimerFacts DEF RetryInv
<1>2. ASSUME NEW t \in Thread, RetryDetach(t, Rx, List)
      PROVE  /\ CloseInv' /\ Unused' /\ wait' = wait
             /\ \A l \in List : Woken(Kind(l), l)' = Woken(Kind(l), l)
  <2>1. Detach(t, Rx, List) /\ \A x \in Thread : pc[x] \in {"wait", "send"} => Suspended(x)
    BY <1>2 DEF RetryDetach
  <2> QED BY <2>1, DetachFacts DEF RetryInv
<1>3. ASSUME NEW t \in Thread, DetachTest(t, List \ {Rx})
      PROVE  /\ CloseInv' /\ Unused' /\ wait' = wait
             /\ \A l \in List : Woken(Kind(l), l)' = Woken(Kind(l), l)
  BY <1>3, DetachTestFacts DEF RetryInv
<1>4. ASSUME NEW t \in Thread, DetachResume(t)
      PROVE  /\ CloseInv' /\ Unused'
             /\ \A l \in List : Woken(Kind(l), l)' = Woken(Kind(l), l)
             /\ \A l \in List : wait'[l] # <<>> => wait[l] # <<>>
  BY <1>4, DetachResumeFacts DEF RetryInv
<1> QED BY <1>1, <1>2, <1>3, <1>4 DEF RetryInv

\* rt_ipc_list_resume_all of a reset.
LEMMA ResetAllFacts ==
  ASSUME RetryInv, ResumeAllFailed(List), UNCHANGED <<callVars, left>>, gone = {}
  PROVE  /\ RetryInv'
         /\ \A l \in List : Woken(Kind(l), l)' = Woken(Kind(l), l)
         /\ \A l \in List : wait'[l] = <<>>
BY ResetFacts DEF RetryInv

\* A call that is over: it failed, gave up, or goes on at c without a list.
LEMMA LeaveFacts2 ==
  ASSUME RetryInv, NEW t \in Thread, ~Suspended(t), t \notin Ending,
         NEW c \in {"run", "fill", "urge", "copy"}, NEW l \in List,
         Goto(t, c, l), gone' = gone, left' \in [Thread -> Waiting],
         wait' = wait, armed' = armed,
         NEW e \in {"OK", "ERROR", "ETIMEOUT"}, err' = [err EXCEPT ![t] = e]
  PROVE  /\ RetryInv'
         /\ \A m \in List : Woken(Kind(m), m)' = Woken(Kind(m), m) \ {t}
<1>1. /\ pc' = [pc EXCEPT ![t] = c] /\ on' = [on EXCEPT ![t] = l]
      /\ pc \in [Thread -> Calling] /\ on \in [Thread -> List] /\ c \in Calling
      /\ err \in [Thread -> {"OK", "ERROR", "ETIMEOUT"}] /\ CloseInv
  BY CloseFacts DEF Goto, Calling, RetryInv
<1>2. Leave({})
  <2>1. WaitInv'
    BY <1>1, CloseFacts DEF WaitInv, WaitTypeOK, OneReason, Suspended
  <2> QED BY <2>1 DEF Leave
<1>3. /\ pc' \in [Thread -> Calling] /\ on' \in [Thread -> List]
      /\ \A x \in Thread \ {t} : pc'[x] = pc[x] /\ on'[x] = on[x] /\ err'[x] = err[x]
      /\ \A x \in {t} : ~Suspended(x) /\ x \notin Ending /\ pc'[x] \in {"run", "fill", "urge", "copy"}
  BY <1>1
<1>4. {t} \in SUBSET Thread
  OBVIOUS
<1>5. \A x \in Thread \ {t} : /\ pc'[x] = pc[x] /\ on'[x] = on[x]
                              /\ err'[x] = IF Suspended(x) /\ x \in {} THEN err'[x] ELSE err[x]
                              /\ Suspended(x) /\ x \in {} => err'[x] # "OK"
  BY <1>3
<1>6. /\ CloseInv' /\ (Unused => Unused')
      /\ \A m \in List : Woken(Kind(m), m)' = Woken(Kind(m), m) \ {t}
  <2>1. PICK W : W = {}
    OBVIOUS
  <2>2. PICK T \in SUBSET Thread : T = {t}
    BY <1>4
  <2>3. Leave(W) /\ (gone = {} \/ W = {}) /\ CloseInv
    BY <1>1, <1>2, <2>1
  <2>4. /\ CloseInv' /\ (Unused => Unused')
        /\ \A m \in List : Woken(Kind(m), m)' = Woken(Kind(m), m) \ T
    BY <1>3, <1>5, <2>1, <2>2, <2>3, NobodyWoken
  <2> QED BY <2>2, <2>4
<1> QED BY <1>6 DEF RetryInv

\* Back with an error: the thread was not on its way to anything.
LEMMA FailFacts ==
  ASSUME RetryInv, NEW t \in Thread, NEW c \in {"wait", "send"}, Failed(t, c), Over(t),
         UNCHANGED waitVars
  PROVE  /\ RetryInv' /\ wait' = wait
         /\ \A m \in List : Woken(Kind(m), m)' = Woken(Kind(m), m)
<1>1. /\ ~Suspended(t) /\ pc[t] = c /\ err[t] # "OK" /\ t \notin Ending
      /\ wait' = wait /\ armed' = armed /\ err' = err /\ gone' = gone
      /\ Goto(t, "run", SomeList) /\ left' = [left EXCEPT ![t] = "none"]
  BY DEF Failed, Back, Ending, waitVars, Over, Return, Remains
<1>2. /\ SomeList \in List /\ left' \in [Thread -> Waiting]
      /\ err[t] \in {"OK", "ERROR", "ETIMEOUT"} /\ err' = [err EXCEPT ![t] = err[t]]
  BY <1>1, ObjectAssumption, CloseFacts DEF SomeList, RetryInv, Waiting
<1>3. RetryInv' /\ \A m \in List : Woken(Kind(m), m)' = Woken(Kind(m), m) \ {t}
  BY <1>1, <1>2, LeaveFacts2
<1>4. \A m \in List : t \notin Woken(Kind(m), m)
  BY <1>1 DEF Woken
<1> QED BY <1>1, <1>3, <1>4

\* Nothing there and no time left.
LEMMA GiveUpFacts ==
  ASSUME RetryInv, NEW t \in Thread, NEW c \in {"wait", "send"}, NEW limit, Looks(t, c, limit), Over(t),
         wait' = wait, armed' = armed, err' = err \/ err' = [err EXCEPT ![t] = "ETIMEOUT"]
  PROVE  /\ RetryInv'
         /\ \A m \in List : Woken(Kind(m), m)' = Woken(Kind(m), m) \ {t}
<1>1. /\ ~Suspended(t) /\ t \notin Ending /\ gone' = gone
      /\ Goto(t, "run", SomeList) /\ left' = [left EXCEPT ![t] = "none"]
  BY LookFacts DEF Over, Return, Remains
<1>2. /\ SomeList \in List /\ left' \in [Thread -> Waiting]
      /\ \E e \in {"OK", "ERROR", "ETIMEOUT"} : err' = [err EXCEPT ![t] = e]
  BY <1>1, ObjectAssumption, CloseFacts DEF SomeList, RetryInv, Waiting
<1> QED BY <1>1, <1>2, LeaveFacts2

\* A thread waits, or waits again.
LEMMA BlockFacts ==
  ASSUME RetryInv, NEW t \in Thread, NEW l \in List, ~Suspended(t), gone = {},
         NEW q \in Seq(Thread), Once(q),
         \A x : Linked(q, x) <=> Linked(wait[l], x) \/ x = t,
         NEW limit \in Waiting, WaitOn(t, Kind(l), l, q, limit)
  PROVE  /\ RetryInv'
         /\ \A m \in List : Woken(Kind(m), m)' = Woken(Kind(m), m) \ {t}
         /\ \A m \in List : m # l => wait'[m] = wait[m]
<1>1. /\ Park(l, t, q, limit = "some") /\ Goto(t, Kind(l), l) /\ gone' = gone
      /\ left' = [left EXCEPT ![t] = limit] /\ CloseInv
  BY DEF WaitOn, Remains, RetryInv
<1>2. left' \in [Thread -> Waiting]
  BY <1>1 DEF RetryInv
<1> QED BY <1>1, <1>2, WaitOnFacts DEF RetryInv

\* The same with the list rt_ipc_list_suspend makes.
LEMMA EnqueuedFacts ==
  ASSUME RetryInv, NEW t \in Thread, NEW l \in List, ~Suspended(t), gone = {},
         NEW limit \in Waiting, WaitOn(t, Kind(l), l, Enqueue(l, t), limit)
  PROVE  /\ RetryInv'
         /\ \A m \in List : Woken(Kind(m), m)' = Woken(Kind(m), m) \ {t}
         /\ \A m \in List : m # l => wait'[m] = wait[m]
<1>1. /\ Enqueue(l, t) \in Seq(Thread) /\ Once(Enqueue(l, t))
      /\ \A x : Linked(Enqueue(l, t), x) <=> Linked(wait[l], x) \/ x = t
  BY CloseFacts, EnqueueFacts DEF RetryInv
<1> QED BY <1>1, BlockFacts

\* No wake-up of l is lost: while threads wait there, as many woken ones as there are
\* things for them are on their way.
Enough(l, n) == wait[l] # <<>> => n <= Cardinality(Woken(Kind(l), l))

\* What a step does to that: T has gone its way, F has been woken.
LEMMA EnoughKept ==
  ASSUME CloseInv, NEW l \in List, NEW n \in Int, NEW k \in Int, Enough(l, n),
         wait'[l] # <<>> => wait[l] # <<>>,
         NEW T, NEW F, F \in {{}, First(l)}, T = {} \/ \E t \in Thread : T = {t},
         Woken(Kind(l), l)' = (Woken(Kind(l), l) \ T) \union F,
         k <= (IF T \intersect Woken(Kind(l), l) # {} THEN n - 1 ELSE n) + (IF F # {} THEN 1 ELSE 0)
  PROVE  wait'[l] # <<>> => k <= Cardinality(Woken(Kind(l), l)')
<1> SUFFICES ASSUME wait'[l] # <<>> PROVE k <= Cardinality(Woken(Kind(l), l)')
  OBVIOUS
<1> DEFINE A == Woken(Kind(l), l)
<1>1. IsFiniteSet(A) /\ Cardinality(A) \in Nat /\ n <= Cardinality(A)
  BY WokenFinite DEF Enough
<1>2. ASSUME NEW x \in First(l) PROVE x \notin A /\ First(l) = {x}
  <2>1. Suspended(x)
    BY <1>2, CloseFacts, FirstFacts DEF First, Suspended
  <2> QED BY <1>2, <2>1 DEF First, Woken, Back
<1> HIDE DEF A
<1>3. /\ IsFiniteSet(A \ T) /\ Cardinality(A \ T) \in Nat
      /\ Cardinality(A \ T) >= IF T \intersect A # {} THEN n - 1 ELSE n
  <2>1. CASE T \intersect A = {}
    <3>1. A \ T = A
      BY <2>1
    <3> QED BY <1>1, <2>1, <3>1
  <2>2. CASE T \intersect A # {}
    <3>1. PICK t : T = {t} /\ t \in A
      BY <2>2
    <3>2. IsFiniteSet(A \ {t}) /\ Cardinality(A \ {t}) = Cardinality(A) - 1
      BY <1>1, <3>1, FS_RemoveElement
    <3> QED BY <1>1, <2>2, <3>1, <3>2, FS_CardinalityType
  <2> QED BY <2>1, <2>2
<1>4. CASE F = {}
  <2>1. (A \ T) \union F = A \ T
    BY <1>4
  <2> QED BY <1>3, <1>4, <2>1 DEF A
<1>5. CASE F # {}
  <2>1. PICK x : F = {x} /\ x \notin A
    BY <1>2, <1>5
  <2>2. Cardinality((A \ T) \union {x}) = Cardinality(A \ T) + 1
    BY <1>3, <2>1, FS_AddElement
  <2> QED BY <1>3, <1>5, <2>1, <2>2 DEF A
<1> QED BY <1>4, <1>5

\* The count stays: whoever goes away from l leaves nothing there, and so does who begins to wait.
LEMMA EnoughStays ==
  ASSUME RetryInv, NEW l \in List, NEW n \in Int, Enough(l, n),
         NEW T, T = {} \/ \E t \in Thread : T = {t},
         Woken(Kind(l), l)' = Woken(Kind(l), l) \ T,
         T \intersect Woken(Kind(l), l) # {} => n <= 0,
         wait'[l] # <<>> => wait[l] # <<>> \/ n <= 0
  PROVE  wait'[l] # <<>> => n <= Cardinality(Woken(Kind(l), l)')
<1>1. Cardinality(Woken(Kind(l), l) \ T) \in Nat
  <2>1. Woken(Kind(l), l) \ T \subseteq Thread
    BY DEF Woken
  <2> QED BY <2>1, WaitAssumption, FS_Subset, FS_CardinalityType
<1>2. CASE n <= 0
  BY <1>1, <1>2
<1>3. CASE ~(n <= 0)
  <2>1. Woken(Kind(l), l) \ T = Woken(Kind(l), l)
    BY <1>3
  <2> QED BY <1>3, <2>1 DEF Enough
<1> QED BY <1>2, <1>3

\* A step on an object that is there: T is empty or the thread that acts, which leaves the
\* call about its list, and r is the list whose first waiter is woken.
Leaving(T) ==
  /\ T = {} \/ \E t \in Thread : T = {t} /\ ~Suspended(t) /\ pc'[t] \in {"run", "fill", "urge", "copy"}
  /\ \A t \in Thread \ T : pc'[t] = pc[t] /\ on'[t] = on[t]
  /\ pc' \in [Thread -> Calling] /\ on' \in [Thread -> List] /\ left' \in [Thread -> Waiting]
  /\ gone' = gone

LEMMA WakeFacts ==
  ASSUME RetryInv, NEW r \in List, ResumeOne(r), gone = {}, NEW T, Leaving(T)
  PROVE  /\ RetryInv'
         /\ \A l \in List : Woken(Kind(l), l)' =
              (Woken(Kind(l), l) \ T) \union (IF l = r THEN First(r) ELSE {})
         /\ \A l \in List : wait'[l] # <<>> => wait[l] # <<>>
<1>1. \A t \in T : ~Suspended(t) /\ t \notin Ending /\ pc'[t] \in {"run", "fill", "urge", "copy"}
  BY NobodyEnds DEF Leaving, Ending, RetryInv
<1>2. /\ CloseInv' /\ (Unused => Unused')
      /\ \A l \in List : Woken(Kind(l), l)' =
           (Woken(Kind(l), l) \ T) \union (IF l = r THEN First(r) ELSE {})
  <2>1. T \in SUBSET Thread
    BY DEF Leaving
  <2> QED BY <1>1, <2>1, FirstWoken DEF RetryInv, Leaving
<1>3. \A l \in List : wait'[l] # <<>> => wait[l] # <<>>
  BY ResumeOneFacts, LeaveEmpties, CloseFacts DEF RetryInv
<1> QED BY <1>2, <1>3 DEF RetryInv, Leaving

\* One thing more for the waiters of r, of whom one is woken.
LEMMA EnoughMore ==
  ASSUME RetryInv, NEW r \in List, NEW n \in Int, Enough(r, n), ResumeOne(r), gone = {},
         NEW T, Leaving(T), T \intersect Woken(Kind(r), r) = {}
  PROVE  wait'[r] # <<>> => n + 1 <= Cardinality(Woken(Kind(r), r)')
<1>1. /\ Woken(Kind(r), r)' = (Woken(Kind(r), r) \ T) \union First(r)
      /\ wait'[r] # <<>> => wait[r] # <<>>
      /\ n + 1 \in Int
  BY WakeFacts
<1> SUFFICES ASSUME wait'[r] # <<>> PROVE n + 1 <= Cardinality(Woken(Kind(r), r)')
  OBVIOUS
<1>2. First(r) # {} /\ First(r) \in {{}, First(r)}
  BY <1>1 DEF First
<1>3. T = {} \/ \E t \in Thread : T = {t}
  BY DEF Leaving
<1>4. n + 1 <= (IF T \intersect Woken(Kind(r), r) # {} THEN n - 1 ELSE n) + (IF First(r) # {} THEN 1 ELSE 0)
  BY <1>2
<1> QED BY <1>1, <1>2, <1>3, <1>4, EnoughKept DEF RetryInv

\* One thing less on the list of T.
LEMMA EnoughLess ==
  ASSUME RetryInv, NEW r \in List, NEW l \in List, l # r, NEW n \in Int, Enough(l, n),
         ResumeOne(r), gone = {}, NEW T, Leaving(T)
  PROVE  wait'[l] # <<>> => n - 1 <= Cardinality(Woken(Kind(l), l)')
<1>1. /\ Woken(Kind(l), l)' = (Woken(Kind(l), l) \ T) \union {}
      /\ wait'[l] # <<>> => wait[l] # <<>>
      /\ n - 1 \in Int
  BY WakeFacts
<1>2. T = {} \/ \E t \in Thread : T = {t}
  BY DEF Leaving
<1>3. n - 1 <= (IF T \intersect Woken(Kind(l), l) # {} THEN n - 1 ELSE n) + (IF {} # {} THEN 1 ELSE 0)
  OBVIOUS
<1>4. {} \in {{}, First(l)}
  OBVIOUS
<1> QED BY <1>1, <1>2, <1>3, <1>4, EnoughKept DEF RetryInv

\* A call that does not wait, and one that returns.
LEMMA LeavingFacts ==
  ASSUME RetryInv
  PROVE  /\ UNCHANGED <<callVars, left>> => Leaving({})
         /\ \A t \in Thread : Over(t) /\ ~Suspended(t) => Leaving({t})
<1>1. /\ pc \in [Thread -> Calling] /\ on \in [Thread -> List] /\ left \in [Thread -> Waiting]
      /\ SomeList \in List
  BY CloseFacts, ObjectAssumption DEF RetryInv, SomeList
<1>2. UNCHANGED <<callVars, left>> => Leaving({})
  BY <1>1 DEF Leaving, callVars
<1>3. ASSUME NEW t \in Thread, Over(t), ~Suspended(t) PROVE Leaving({t})
  <2>1. /\ pc' = [pc EXCEPT ![t] = "run"] /\ on' = [on EXCEPT ![t] = SomeList]
        /\ left' = [left EXCEPT ![t] = "none"] /\ gone' = gone
    BY <1>3 DEF Over, Return, Goto, Remains
  <2>2. /\ pc' \in [Thread -> Calling] /\ on' \in [Thread -> List] /\ left' \in [Thread -> Waiting]
        /\ pc'[t] \in {"run", "fill", "urge", "copy"}
    BY <1>1, <2>1 DEF Calling, Waiting
  <2>3. \A x \in Thread \ {t} : pc'[x] = pc[x] /\ on'[x] = on[x]
    BY <1>1, <2>1
  <2> QED BY <1>3, <2>1, <2>2, <2>3 DEF Leaving
<1> QED BY <1>2, <1>3

\* The count goes down: whoever goes away took one.
LEMMA EnoughTaken ==
  ASSUME RetryInv, NEW l \in List, NEW n \in Int, Enough(l, n),
         NEW T, T = {} \/ \E t \in Thread : T = {t},
         Woken(Kind(l), l)' = Woken(Kind(l), l) \ T,
         wait'[l] # <<>> => wait[l] # <<>>
  PROVE  wait'[l] # <<>> => n - 1 <= Cardinality(Woken(Kind(l), l)')
<1>1. /\ Woken(Kind(l), l)' = (Woken(Kind(l), l) \ T) \union {}
      /\ n - 1 \in Int /\ {} \in {{}, First(l)}
  OBVIOUS
<1>2. n - 1 <= (IF T \intersect Woken(Kind(l), l) # {} THEN n - 1 ELSE n) + (IF {} # {} THEN 1 ELSE 0)
  OBVIOUS
<1> QED BY <1>1, <1>2, EnoughKept DEF RetryInv

\* A step that touches neither lists nor calls.
LEMMA RetryStand ==
  ASSUME RetryInv, UNCHANGED <<waitVars, callVars, left>>
  PROVE  /\ RetryInv' /\ wait' = wait
         /\ \A l \in List : Woken(Kind(l), l)' = Woken(Kind(l), l)
BY StandFacts DEF RetryInv, CloseInv, CallTypeOK, WaitTypeOK, OneReason,
     Suspended, Parked, Closing, Ending, Unused, Woken, Back, waitVars, callVars

-----------------------------------------------------------------------------
(* Lists of things that are in one place each.                              *)

LEMMA LinkFirstFacts ==
  ASSUME NEW S, NEW l \in Seq(S), NEW n \in S, Once(l), ~Linked(l, n)
  PROVE  /\ LinkFirst(l, n) \in Seq(S) /\ Len(LinkFirst(l, n)) = Len(l) + 1
         /\ Once(LinkFirst(l, n))
         /\ \A m : Linked(LinkFirst(l, n), m) <=> Linked(l, m) \/ m = n
         /\ LinkFirst(l, n) # <<>>
<1> DEFINE r == LinkFirst(l, n)
<1>1. /\ r \in Seq(S) /\ Len(r) = Len(l) + 1 /\ Len(l) \in Nat
      /\ r[1] = n
      /\ \A i \in 2..(Len(l) + 1) : r[i] = l[i - 1]
  BY DEF LinkFirst
<1> HIDE DEF r
<1>2. DOMAIN r = 1..(Len(l) + 1) /\ DOMAIN l = 1..Len(l)
  BY <1>1
<1>3. Once(r)
  <2> SUFFICES ASSUME NEW i \in DOMAIN r, NEW j \in DOMAIN r, r[i] = r[j] PROVE i = j
    BY DEF Once
  <2>1. CASE i = 1 \/ j = 1
    BY <1>1, <1>2, <2>1 DEF Linked
  <2>2. CASE i # 1 /\ j # 1
    <3>1. l[i - 1] = l[j - 1] /\ i - 1 \in DOMAIN l /\ j - 1 \in DOMAIN l
      BY <1>1, <1>2, <2>2
    <3>2. i - 1 = j - 1
      BY <3>1 DEF Once
    <3> QED BY <1>2, <3>2
  <2> QED BY <2>1, <2>2
<1>4. ASSUME NEW m PROVE Linked(r, m) <=> Linked(l, m) \/ m = n
  <2>1. Linked(l, m) => Linked(r, m)
    <3> SUFFICES ASSUME NEW i \in DOMAIN l, l[i] = m PROVE Linked(r, m)
      BY DEF Linked
    <3>1. i + 1 \in DOMAIN r /\ r[i + 1] = l[i]
      BY <1>1, <1>2
    <3> QED BY <3>1 DEF Linked
  <2>2. Linked(r, m) => Linked(l, m) \/ m = n
    <3> SUFFICES ASSUME NEW i \in DOMAIN r, r[i] = m, m # n PROVE Linked(l, m)
      BY DEF Linked
    <3>1. i - 1 \in DOMAIN l /\ l[i - 1] = m
      BY <1>1, <1>2
    <3> QED BY <3>1 DEF Linked
  <2>3. Linked(r, n)
    BY <1>1, <1>2 DEF Linked
  <2> QED BY <2>1, <2>2, <2>3
<1>5. r # <<>>
  BY <1>1
<1> QED BY <1>1, <1>3, <1>4, <1>5 DEF r

\* A list of things of S, each at most once, is no longer than S.
LEMMA LengthFacts ==
  ASSUME NEW S, IsFiniteSet(S), NEW l \in Seq(S), Once(l)
  PROVE  Len(l) \in Nat /\ Cardinality(S) \in Nat /\ Len(l) <= Cardinality(S)
<1>1. Len(l) \in Nat /\ l \in [1..Len(l) -> S] /\ DOMAIN l = 1..Len(l)
  OBVIOUS
<1>2. l \in Injection(1..Len(l), S)
  BY <1>1 DEF Injection, IsInjective, Once
<1>3. Cardinality(1..Len(l)) <= Cardinality(S)
  BY <1>2, FS_Injection
<1>4. Cardinality(1..Len(l)) = Len(l)
  BY <1>1, FS_Interval
<1> QED BY <1>1, <1>3, <1>4, FS_CardinalityType

LEMMA ListOfFacts ==
  ASSUME NEW S, IsFiniteSet(S)
  PROVE  /\ ListOf(S) \in Seq(S) /\ Once(ListOf(S)) /\ Len(ListOf(S)) = Cardinality(S)
         /\ \A x : Linked(ListOf(S), x) <=> x \in S
<1>1. PICK n \in Nat : n = Cardinality(S)
  BY FS_CardinalityType
<1>2. PICK f : f \in Bijection(1..n, S)
  BY <1>1, FS_CardinalityType DEF ExistsBijection
<1>3. f \in [1..n -> S] /\ Once(f)
  BY <1>2 DEF Bijection, Injection, IsInjective, Once
<1>4. ListOf(S) \in [1..n -> S] /\ Once(ListOf(S))
  BY <1>1, <1>3 DEF ListOf
<1>5. PICK l : l = ListOf(S)
  OBVIOUS
<1>6. l \in [1..n -> S] /\ Once(l)
  BY <1>4, <1>5
<1>7. l \in Seq(S) /\ Len(l) = n /\ DOMAIN l = 1..n
  BY <1>6
<1>8. l \in Injection(1..n, S)
  BY <1>6 DEF Injection, IsInjective, Once
<1>9. Cardinality(1..n) = n
  BY FS_Interval
<1>10. l \in Surjection(1..n, S)
  BY <1>1, <1>8, <1>9, FS_Injection
<1>11. \A x : Linked(l, x) <=> x \in S
  BY <1>6, <1>10 DEF Surjection, Linked
<1> QED BY <1>1, <1>5, <1>6, <1>7, <1>11

\* How many of S have b, when at most one of them has.
LEMMA AtMostOne ==
  ASSUME NEW S, \A x, y \in S : x = y
  PROVE  Cardinality(S) = IF S = {} THEN 0 ELSE 1
<1>1. CASE S = {}
  BY <1>1, FS_EmptySet
<1>2. CASE S # {}
  <2>1. PICK x : S = {x}
    BY <1>2
  <2> QED BY <1>2, <2>1, FS_Singleton
<1> QED BY <1>1, <1>2

\* The elements of q carry a under g.
Carries(q, g, a, M) == a \in Seq(M) /\ Len(a) = Len(q) /\ \A i \in 1..Len(q) : a[i] = g[q[i]]

\* What a list of elements carries, when one is put at an end or taken off.
LEMMA CarriedLast ==
  ASSUME NEW S, NEW M, NEW q \in Seq(S), NEW e \in S, NEW g, g[e] \in M,
         NEW a, Carries(q, g, a, M), NEW b, Carries(LinkLast(q, e), g, b, M)
  PROVE  b = Append(a, g[e])
<1>a. /\ Len(LinkLast(q, e)) = Len(q) + 1
      /\ a \in Seq(M) /\ Len(a) = Len(q) /\ \A i \in 1..Len(q) : a[i] = g[q[i]]
  BY AppendProperties DEF LinkLast, Carries
<1>b. /\ b \in Seq(M) /\ Len(b) = Len(q) + 1
      /\ \A i \in 1..(Len(q) + 1) : b[i] = g[LinkLast(q, e)[i]]
  BY <1>a DEF Carries
<1>c. PICK m \in M : g[e] = m
  OBVIOUS
<1> DEFINE r == LinkLast(q, e)
<1>1. /\ r \in Seq(S) /\ Len(q) \in Nat
      /\ \A i \in 1..Len(q) : r[i] = q[i]
      /\ r[Len(q) + 1] = e
  BY AppendProperties DEF LinkLast
<1> DEFINE c == Append(a, m)
<1>2. /\ c \in Seq(M) /\ Len(c) = Len(q) + 1
      /\ \A i \in 1..Len(q) : c[i] = a[i]
      /\ c[Len(q) + 1] = m
  BY <1>a, <1>c, AppendProperties
<1>3. \A i \in 1..(Len(q) + 1) : b[i] = g[r[i]]
  BY <1>b
<1> HIDE DEF r, c
<1>4. ASSUME NEW i \in 1..(Len(q) + 1) PROVE b[i] = c[i]
  <2>1. CASE i = Len(q) + 1
    BY <1>1, <1>2, <1>3, <1>a, <1>c, <2>1
  <2>2. CASE i # Len(q) + 1
    <3>1. i \in 1..Len(q)
      BY <1>1, <2>2
    <3> QED BY <1>1, <1>2, <1>3, <1>a, <1>c, <3>1
  <2> QED BY <2>1, <2>2
<1>5. b = c
  BY <1>2, <1>4, <1>b, SeqEqual
<1> QED BY <1>5, <1>c DEF c

LEMMA CarriedFirst ==
  ASSUME NEW S, NEW M, NEW q \in Seq(S), NEW e \in S, NEW g, g[e] \in M,
         NEW a, Carries(q, g, a, M), NEW b, Carries(LinkFirst(q, e), g, b, M)
  PROVE  b = LinkFirst(a, g[e])
<1>a. /\ Len(LinkFirst(q, e)) = Len(q) + 1
      /\ a \in Seq(M) /\ Len(a) = Len(q) /\ \A i \in 1..Len(q) : a[i] = g[q[i]]
  BY DEF LinkFirst, Carries
<1>b. /\ b \in Seq(M) /\ Len(b) = Len(q) + 1
      /\ \A i \in 1..(Len(q) + 1) : b[i] = g[LinkFirst(q, e)[i]]
  BY <1>a DEF Carries
<1>c. PICK m \in M : g[e] = m
  OBVIOUS
<1> DEFINE r == LinkFirst(q, e)
<1>1. /\ r \in Seq(S) /\ Len(q) \in Nat
      /\ \A i \in 2..(Len(q) + 1) : r[i] = q[i - 1]
      /\ r[1] = e
  BY DEF LinkFirst
<1> DEFINE c == <<m>> \o a
<1>2. /\ c \in Seq(M) /\ Len(c) = Len(q) + 1
      /\ c[1] = m
      /\ \A i \in 2..(Len(q) + 1) : c[i] = a[i - 1]
  BY <1>1, <1>a, <1>c
<1>3. \A i \in 1..(Len(q) + 1) : b[i] = g[r[i]]
  BY <1>b
<1> HIDE DEF r, c
<1>4. ASSUME NEW i \in 1..(Len(q) + 1) PROVE b[i] = c[i]
  <2>1. CASE i = 1
    BY <1>1, <1>2, <1>3, <1>a, <1>c, <2>1
  <2>2. CASE i # 1
    <3>1. i - 1 \in 1..Len(q) /\ i \in 2..(Len(q) + 1)
      BY <1>1, <2>2
    <3> QED BY <1>1, <1>2, <1>3, <1>a, <1>c, <3>1
  <2> QED BY <2>1, <2>2
<1>5. b = c
  BY <1>2, <1>4, <1>b, SeqEqual
<1> QED BY <1>5, <1>c DEF c, LinkFirst

LEMMA CarriedTail ==
  ASSUME NEW S, NEW M, NEW q \in Seq(S), q # <<>>, NEW g,
         NEW a, Carries(q, g, a, M), NEW b, Carries(Tail(q), g, b, M)
  PROVE  b = Tail(a) /\ a # <<>> /\ Head(a) = g[Head(q)]
<1>a. /\ Len(Tail(q)) = Len(q) - 1
      /\ a \in Seq(M) /\ Len(a) = Len(q) /\ \A i \in 1..Len(q) : a[i] = g[q[i]]
  BY HeadTailProperties DEF Carries
<1>b. /\ b \in Seq(M) /\ Len(b) = Len(q) - 1
      /\ \A i \in 1..(Len(q) - 1) : b[i] = g[Tail(q)[i]]
  BY <1>a DEF Carries
<1> DEFINE r == Tail(q)
<1>1. /\ Len(q) \in Nat /\ Len(q) >= 1
      /\ \A i \in 1..(Len(q) - 1) : r[i] = q[i + 1]
      /\ Head(q) = q[1]
  BY HeadTailProperties
<1>2. a # <<>> /\ Head(a) = a[1] /\ a[1] = g[q[1]]
  BY <1>1, <1>a
<1> DEFINE c == Tail(a)
<1>3. /\ c \in Seq(M) /\ Len(c) = Len(q) - 1
      /\ \A i \in 1..(Len(q) - 1) : c[i] = a[i + 1]
  BY <1>2, <1>a, HeadTailProperties
<1>4. \A i \in 1..(Len(q) - 1) : b[i] = g[r[i]]
  BY <1>b
<1> HIDE DEF r, c
<1>5. ASSUME NEW i \in 1..(Len(q) - 1) PROVE b[i] = c[i]
  <2>1. i + 1 \in 1..Len(q)
    BY <1>1
  <2> QED BY <1>1, <1>3, <1>4, <1>a, <2>1
<1>6. b = c
  BY <1>3, <1>5, <1>b, SeqEqual
<1> QED BY <1>1, <1>2, <1>6 DEF c

\* One list behind the other, and the first one backwards.
Reversed(p) == [i \in DOMAIN p |-> p[Len(p) + 1 - i]]
Backwards(p, q) == Reversed(p) \o q

LEMMA BackwardsFacts ==
  ASSUME NEW S, NEW p \in Seq(S), NEW q \in Seq(S), Once(p), Once(q),
         \A x : ~(Linked(p, x) /\ Linked(q, x)),
         NEW r, r = Backwards(p, q)
  PROVE  /\ r \in Seq(S) /\ Once(r)
         /\ \A x : Linked(r, x) <=> Linked(p, x) \/ Linked(q, x)
<1> DEFINE a == Reversed(p)
<1>1. Len(p) \in Nat /\ Len(q) \in Nat /\ DOMAIN p = 1..Len(p) /\ DOMAIN q = 1..Len(q)
  OBVIOUS
<1>2. a = [i \in 1..Len(p) |-> p[Len(p) + 1 - i]] /\ \A i \in 1..Len(p) : p[Len(p) + 1 - i] \in S
  BY <1>1 DEF Reversed
<1> HIDE DEF a
<1>3. a \in Seq(S) /\ Len(a) = Len(p) /\ \A i \in 1..Len(p) : a[i] = p[Len(p) + 1 - i]
  BY <1>1, <1>2
<1>4. r = a \o q
  BY DEF a, Backwards
<1>5. /\ r \in Seq(S) /\ Len(r) = Len(p) + Len(q)
      /\ \A i \in 1..Len(p) : r[i] = p[Len(p) + 1 - i]
      /\ \A i \in (Len(p) + 1)..(Len(p) + Len(q)) : r[i] = q[i - Len(p)]
  <2>1. /\ r \in Seq(S) /\ Len(r) = Len(a) + Len(q)
        /\ \A i \in 1..(Len(a) + Len(q)) : r[i] = IF i <= Len(a) THEN a[i] ELSE q[i - Len(a)]
    <3>1. PICK b \in Seq(S) : b = a
      BY <1>3
    <3>2. /\ b \o q \in Seq(S) /\ Len(b \o q) = Len(b) + Len(q)
          /\ \A i \in 1..(Len(b) + Len(q)) : (b \o q)[i] = IF i <= Len(b) THEN b[i] ELSE q[i - Len(b)]
      BY ConcatProperties
    <3> QED BY <1>4, <3>1, <3>2
  <2>2. \A i \in 1..Len(p) : r[i] = a[i]
    BY <1>1, <1>3, <2>1
  <2> QED BY <1>1, <1>3, <2>1, <2>2
<1>6. DOMAIN r = 1..(Len(p) + Len(q))
  BY <1>5
<1>7. ASSUME NEW i \in 1..(Len(p) + Len(q))
      PROVE  \/ i <= Len(p) /\ Len(p) + 1 - i \in DOMAIN p /\ r[i] = p[Len(p) + 1 - i]
             \/ i > Len(p) /\ i - Len(p) \in DOMAIN q /\ r[i] = q[i - Len(p)]
  BY <1>1, <1>5
<1>8. Once(r)
  <2> SUFFICES ASSUME NEW i \in DOMAIN r, NEW j \in DOMAIN r, r[i] = r[j] PROVE i = j
    BY DEF Once
  <2>1. CASE i <= Len(p) /\ j <= Len(p)
    <3>1. /\ Len(p) + 1 - i \in DOMAIN p /\ Len(p) + 1 - j \in DOMAIN p
          /\ p[Len(p) + 1 - i] = p[Len(p) + 1 - j]
      BY <1>1, <1>5, <1>6, <2>1
    <3>2. Len(p) + 1 - i = Len(p) + 1 - j
      BY <3>1 DEF Once
    <3> QED BY <1>1, <1>6, <3>2
  <2>2. CASE i > Len(p) /\ j > Len(p)
    <3>1. /\ i - Len(p) \in DOMAIN q /\ j - Len(p) \in DOMAIN q
          /\ q[i - Len(p)] = q[j - Len(p)]
      BY <1>1, <1>5, <1>6, <2>2
    <3>2. i - Len(p) = j - Len(p)
      BY <3>1 DEF Once
    <3> QED BY <1>1, <1>6, <3>2
  <2>3. CASE i <= Len(p) /\ j > Len(p)
    <3>1. /\ Len(p) + 1 - i \in DOMAIN p /\ r[i] = p[Len(p) + 1 - i]
          /\ j - Len(p) \in DOMAIN q /\ r[j] = q[j - Len(p)]
      BY <1>1, <1>5, <1>6, <2>3
    <3> QED BY <3>1 DEF Linked
  <2>4. CASE i > Len(p) /\ j <= Len(p)
    <3>1. /\ Len(p) + 1 - j \in DOMAIN p /\ r[j] = p[Len(p) + 1 - j]
          /\ i - Len(p) \in DOMAIN q /\ r[i] = q[i - Len(p)]
      BY <1>1, <1>5, <1>6, <2>4
    <3> QED BY <3>1 DEF Linked
  <2> QED BY <1>1, <1>6, <2>1, <2>2, <2>3, <2>4
<1>9. ASSUME NEW x PROVE Linked(r, x) <=> Linked(p, x) \/ Linked(q, x)
  <2>1. Linked(r, x) => Linked(p, x) \/ Linked(q, x)
    BY <1>6, <1>7 DEF Linked
  <2>2. ASSUME NEW i \in DOMAIN p, p[i] = x PROVE Linked(r, x)
    <3>1. Len(p) + 1 - i \in 1..Len(p) /\ Len(p) + 1 - (Len(p) + 1 - i) = i
      BY <1>1
    <3>2. r[Len(p) + 1 - i] = x /\ Len(p) + 1 - i \in DOMAIN r
      BY <1>1, <1>5, <1>6, <2>2, <3>1
    <3> QED BY <3>2 DEF Linked
  <2>3. ASSUME NEW i \in DOMAIN q, q[i] = x PROVE Linked(r, x)
    <3>1. Len(p) + i \in (Len(p) + 1)..(Len(p) + Len(q)) /\ (Len(p) + i) - Len(p) = i
      BY <1>1
    <3>2. r[Len(p) + i] = x /\ Len(p) + i \in DOMAIN r
      BY <1>1, <1>5, <1>6, <2>3, <3>1
    <3> QED BY <3>2 DEF Linked
  <2> QED BY <2>1, <2>2, <2>3 DEF Linked
<1> QED BY <1>5, <1>8, <1>9

-----------------------------------------------------------------------------
(* Steps of the objects that hand something over, with one list Rx. *)

LEMMA CloseStand ==
  ASSUME CloseInv, UNCHANGED <<waitVars, callVars>>
  PROVE  CloseInv' /\ wait' = wait /\ \A c, l : Woken(c, l)' = Woken(c, l)
BY DEF CloseInv, CallTypeOK, WaitTypeOK, OneReason, Suspended, Parked, Closing, Ending,
     Woken, Back, waitVars, callVars

\* Timeouts and the detach.
LEMMA CloseOutside ==
  ASSUME CloseInv, List = {Rx}, DetachUnarmed,
         \/ TimerExpires
         \/ \E t \in Thread : Detach(t, Rx, List) \/ DetachTest(t, List \ {Rx}) \/ DetachResume(t)
  PROVE  /\ CloseInv' /\ Woken("wait", Rx)' = Woken("wait", Rx)
         /\ \A t \in Thread : Linked(wait'[Rx], t) => Linked(wait[Rx], t)
<1>1. Lists /\ Rx \in List /\ Kind(Rx) = "wait"
  BY DEF Lists, Kind
<1>2. CASE TimerExpires
  <2>1. PICK t \in Thread : Timeout(t)
    BY <1>2 DEF TimerExpires
  <2>2. Leave({t})
    BY <2>1, CloseFacts, TimeoutFacts
  <2> QED BY <1>1, <1>2, <2>2, TimerFacts DEF Leave
<1>3. ASSUME NEW t \in Thread, Detach(t, Rx, List)
      PROVE  CloseInv' /\ Woken("wait", Rx)' = Woken("wait", Rx) /\ wait' = wait
  BY <1>1, <1>3, DetachFacts
<1>4. ASSUME NEW t \in Thread, DetachTest(t, List \ {Rx})
      PROVE  CloseInv' /\ Woken("wait", Rx)' = Woken("wait", Rx) /\ wait' = wait
  BY <1>1, <1>4, DetachTestFacts
<1>5. ASSUME NEW t \in Thread, DetachResume(t)
      PROVE  /\ CloseInv' /\ Woken("wait", Rx)' = Woken("wait", Rx)
             /\ \A x \in Thread : Linked(wait'[Rx], x) => Linked(wait[Rx], x)
  <2>1. CloseInv' /\ Woken("wait", Rx)' = Woken("wait", Rx)
    BY <1>1, <1>5, DetachResumeFacts
  <2>2. CASE wait[on[t]] # <<>>
    <3>1. on[t] = Rx /\ ResumeFailed(Rx) /\ wait[Rx] # <<>>
      BY <1>5, <2>2, CloseFacts DEF DetachResume
    <3>2. Leave({Head(wait[Rx])})
      BY <1>1, <3>1, CloseFacts, ResumeFailedFacts
    <3> QED BY <1>1, <2>1, <3>2 DEF Leave
  <2>3. CASE wait[on[t]] = <<>>
    BY <1>5, <2>1, <2>3 DEF DetachResume, waitVars
  <2> QED BY <2>2, <2>3
<1> QED BY <1>1, <1>2, <1>3, <1>4, <1>5

\* A call that waited returns.
LEMMA CloseReturn ==
  ASSUME CloseInv, Rx \in List, NEW t \in Thread, Back(t, "wait"), Return(t), UNCHANGED waitVars,
         gone' = gone
  PROVE  /\ CloseInv' /\ wait' = wait /\ ~Suspended(t)
         /\ Woken("wait", Rx)' = Woken("wait", Rx) \ {t}
<1>1. Kind(Rx) = "wait"
  BY DEF Kind
<1>2. PICK T : T = {t}
  OBVIOUS
<1>3. Leave({}) /\ err' = err /\ wait' = wait
  BY CloseFacts, StandFacts DEF waitVars
<1>4. /\ pc' = [pc EXCEPT ![t] = "run"] /\ on' = [on EXCEPT ![t] = SomeList] /\ SomeList \in List
      /\ pc \in [Thread -> Calling] /\ on \in [Thread -> List] /\ "run" \in Calling
      /\ ~Suspended(t) /\ pc[t] = "wait"
  BY CloseFacts, ObjectAssumption DEF Return, Goto, SomeList, Back, Calling
<1>5. /\ T \in SUBSET Thread /\ pc' \in [Thread -> Calling] /\ on' \in [Thread -> List]
      /\ \A x \in T : ~Suspended(x) /\ x \notin Ending /\ pc'[x] \in {"run", "fill", "urge", "copy"}
      /\ \A x \in Thread \ T : pc'[x] = pc[x] /\ on'[x] = on[x]
  BY <1>2, <1>4 DEF Ending
<1>6. PICK W : W = {}
  OBVIOUS
<1>7. /\ Leave(W) /\ W = {}
      /\ \A x \in Thread \ T : /\ pc'[x] = pc[x] /\ on'[x] = on[x]
                               /\ err'[x] = IF Suspended(x) /\ x \in W THEN err'[x] ELSE err[x]
                               /\ Suspended(x) /\ x \in W => err'[x] # "OK"
  BY <1>3, <1>5, <1>6
<1>8. CloseInv' /\ \A l \in List : Woken(Kind(l), l)' = Woken(Kind(l), l) \ T
  BY <1>5, <1>7, NobodyWoken
<1> QED BY <1>1, <1>2, <1>3, <1>4, <1>8
=============================================================================
