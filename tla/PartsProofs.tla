---------------------------- MODULE PartsProofs ----------------------------
(***************************************************************************)
(* What is proved of the parts that share no state: the semaphore loses    *)
(* and makes no token, for any number of threads, values and priorities;   *)
(* the software timers keep their promise; the heaps lose no byte and hand *)
(* out none twice, and the memory functions write what they were told to;  *)
(* the command line of the shell and its listings are consistent; the UART *)
(* and the tick timer of the SoC and the loads and stores of the core are  *)
(* exact; and NEMU is the machine of PaArch, and its timer, UART and       *)
(* watchpoints are exact.                                                  *)
(***************************************************************************)
EXTENDS Parts, RtWaitProofs, FiniteSetTheorems

-----------------------------------------------------------------------------
(* The semaphore *)

\* Who waits is in rt_sem_take and has no error yet, and who is in rt_sem_take
\* has no token.
Takers ==
  /\ \A t \in Thread : Suspended(t) => pc[t] = "wait" /\ err[t] = "OK"
  /\ \A t \in Thread : pc[t] = "wait" => on[t] = Sem /\ t \notin holders

IInv == TypeOK /\ OneReason /\ Takers /\ Conservation /\ NobodyWaitsForNothing

LEMMA SemFacts ==
  ASSUME IInv
  PROVE  /\ Sem \in List /\ \A l \in List : l = Sem
         /\ WaitInv
         /\ \A t : Suspended(t) <=> Linked(wait[Sem], t)
         /\ \A t : Linked(wait[Sem], t) => wait[Sem] # <<>> /\ t \in Thread
         /\ IsFiniteSet(holders) /\ Cardinality(holders) \in Nat
         /\ IsFiniteSet(Handed) /\ Cardinality(Handed) \in Nat
<1>1. Sem \in List /\ \A l \in List : l = Sem
  BY SemAssumption
<1>2. WaitInv
  BY DEF IInv, TypeOK, CallTypeOK, WaitInv
<1>3. \A t : Suspended(t) <=> Linked(wait[Sem], t)
  BY <1>1 DEF Suspended
<1>4. \A t : Linked(wait[Sem], t) => wait[Sem] # <<>> /\ t \in Thread
  <2>1. wait[Sem] \in Seq(Thread)
    BY <1>1, <1>2 DEF WaitInv, WaitTypeOK
  <2> QED BY <2>1, HeadFacts
<1>5. holders \subseteq Thread /\ Handed \subseteq Thread
  BY DEF IInv, TypeOK, Handed, Woken
<1>6. IsFiniteSet(holders) /\ IsFiniteSet(Handed)
  BY <1>5, WaitAssumption, FS_Subset
<1> QED BY <1>1, <1>2, <1>3, <1>4, <1>6, FS_CardinalityType

LEMMA InitIInv == Init => IInv
<1> SUFFICES ASSUME Init PROVE IInv
  OBVIOUS
<1>1. WaitInv
  BY WaitInitInv DEF Init, ObjectInit
<1>2. SomeList \in List
  BY SemAssumption DEF SomeList
<1>3. TypeOK
  BY <1>1, <1>2, SemAssumption DEF WaitInv, Init, ObjectInit, TypeOK, CallTypeOK
<1>4. \A t \in Thread : ~Suspended(t) /\ pc[t] = "run"
  BY DEF Init, ObjectInit, WaitInit, Suspended, Linked
<1>5. Handed = {}
  BY <1>4 DEF Handed, Woken, Back
<1>6. Conservation
  BY <1>5, FS_EmptySet, SemAssumption DEF Conservation, Init
<1>7. NobodyWaitsForNothing
  BY SemAssumption DEF NobodyWaitsForNothing, Init, ObjectInit, WaitInit
<1>8. Takers
  BY <1>4 DEF Takers
<1> QED BY <1>1, <1>3, <1>6, <1>7, <1>8 DEF IInv, WaitInv

\* The waiters of W leave with an error, or nobody does: nobody has been handed a token.
LEMMA NobodyHanded ==
  ASSUME IInv, NEW W, Leave(W), \A t \in Thread : Suspended(t) /\ t \in W => err'[t] # "OK",
         \A t \in Thread \ W : err'[t] = err[t],
         \A t \in Thread : ~Suspended(t) => err'[t] = err[t],
         UNCHANGED <<pc, on>>
  PROVE  Handed' = Handed
<1>1. \A t \in Thread : Suspended(t)' <=> Suspended(t) /\ t \notin W
  BY DEF Leave, Suspended
<1> QED BY <1>1 DEF Handed, Woken, Back, IInv, Takers
\* What the steps that leave the calls alone have to show.
LEMMA Quiet ==
  ASSUME IInv, WaitInv', UNCHANGED <<pc, on>>, gone' \in SUBSET List,
         holders' \in SUBSET holders,
         value' \in 0..MaxValue, issued' \in Nat,
         \A t : Suspended(t)' => Suspended(t) /\ err'[t] = err[t],
         value' + Cardinality(holders') + Cardinality(Handed') = issued',
         value' > 0 => wait'[Sem] = <<>>
  PROVE  IInv'
<1>1. TypeOK'
  BY DEF IInv, TypeOK, CallTypeOK, WaitInv
<1>2. Takers'
  BY DEF IInv, Takers
<1>3. Conservation' /\ NobodyWaitsForNothing'
  BY DEF Conservation, NobodyWaitsForNothing
<1> QED BY <1>1, <1>2, <1>3 DEF IInv, WaitInv

LEMMA TakeNowIInv ==
  ASSUME IInv, NEW t \in Thread, TakeNow(t)
  PROVE  IInv'
<1>1. /\ pc[t] = "run" /\ t \notin holders /\ value > 0 /\ value' = value - 1
      /\ holders' = holders \union {t} /\ UNCHANGED <<wait, armed, err, pc, on, gone, issued>>
  BY DEF TakeNow, Calls, objectVars, waitVars, callVars
<1>2. WaitInv' /\ \A x : Suspended(x)' <=> Suspended(x)
  BY <1>1, SemFacts, WaitStutter DEF waitVars, Suspended
<1>3. TypeOK'
  BY <1>1, <1>2, SemAssumption DEF IInv, TypeOK, CallTypeOK, WaitInv
<1>4. Takers'
  BY <1>1, <1>2 DEF IInv, Takers
<1>5. Handed' = Handed
  BY <1>1, <1>2 DEF Handed, Woken, Back
<1>6. Cardinality(holders') = Cardinality(holders) + 1
  BY <1>1, SemFacts, FS_AddElement
<1>7. Conservation' /\ NobodyWaitsForNothing'
  BY <1>1, <1>5, <1>6, SemFacts DEF IInv, TypeOK, Conservation, NobodyWaitsForNothing
<1> QED BY <1>2, <1>3, <1>4, <1>7 DEF IInv, WaitInv

LEMMA TakeWaitIInv ==
  ASSUME IInv, NEW t \in Thread, NEW limited \in Timed, TakeWait(t, limited)
  PROVE  IInv'
<1>1. /\ pc[t] = "run" /\ t \notin holders /\ value = 0 /\ Suspend(Sem, t, limited)
      /\ pc' = [pc EXCEPT ![t] = "wait"] /\ on' = [on EXCEPT ![t] = Sem]
      /\ UNCHANGED <<gone, value, holders, issued>>
  BY DEF TakeWait, Calls, Goto, semVars
<1>2. limited \in BOOLEAN /\ ~Suspended(t)
  BY <1>1, ObjectAssumption DEF IInv, Takers
<1>3. /\ WaitInv' /\ err' = [err EXCEPT ![t] = "OK"]
      /\ \A x : Suspended(x)' <=> Suspended(x) \/ x = t
  <2>1. /\ WaitInv' /\ err' = [err EXCEPT ![t] = "OK"]
        /\ \A m \in List : \A x : Linked(wait'[m], x) <=> Linked(wait[m], x) \/ (m = Sem /\ x = t)
    <3>1. WaitInv /\ Sem \in List
      BY SemFacts
    <3> QED BY <1>1, <1>2, <3>1, SuspendFacts
  <2> QED BY <2>1, SemFacts DEF Suspended
<1>4. TypeOK'
  BY <1>1, <1>3, SemFacts DEF IInv, TypeOK, CallTypeOK, WaitInv
<1>5. err \in [Thread -> {"OK", "ERROR", "ETIMEOUT"}] /\ pc \in [Thread -> {"run", "wait", "send",
        "fill", "urge", "copy", "detach", "resume", "astray"}] /\ on \in [Thread -> List]
  BY DEF IInv, TypeOK, CallTypeOK, WaitTypeOK
<1>6. Takers'
  BY <1>1, <1>3, <1>5 DEF IInv, Takers
<1>7. Handed' = Handed
  BY <1>1, <1>3, <1>5 DEF Handed, Woken, Back, IInv, Takers
<1>8. Conservation' /\ NobodyWaitsForNothing'
  BY <1>1, <1>7 DEF IInv, Conservation, NobodyWaitsForNothing
<1> QED BY <1>3, <1>4, <1>6, <1>8 DEF IInv, WaitInv

LEMMA TakeReturnIInv ==
  ASSUME IInv, NEW t \in Thread, TakeReturn(t)
  PROVE  IInv'
<1>1. /\ pc[t] = "wait" /\ ~Suspended(t)
      /\ holders' = IF err[t] = "OK" THEN holders \union {t} ELSE holders
      /\ pc' = [pc EXCEPT ![t] = "run"] /\ on' = [on EXCEPT ![t] = SomeList]
      /\ UNCHANGED <<wait, armed, err, value, issued, gone>>
  BY DEF TakeReturn, Back, Return, Goto, waitVars
<1>2. WaitInv' /\ \A x : Suspended(x)' <=> Suspended(x)
  BY <1>1, SemFacts, WaitStutter DEF waitVars, Suspended
<1>3. SomeList = Sem
  BY SemFacts DEF SomeList
<1>4. /\ pc \in [Thread -> {"run", "wait", "send", "fill", "urge", "copy", "detach", "resume", "astray"}]
      /\ on \in [Thread -> List] /\ on[t] = Sem
  BY SemFacts DEF IInv, TypeOK, CallTypeOK
<1>5. TypeOK'
  BY <1>1, <1>2, <1>3, SemFacts DEF IInv, TypeOK, CallTypeOK, WaitInv
<1>6. Takers'
  BY <1>1, <1>2, <1>3, <1>4 DEF IInv, Takers
<1>7. Handed' = Handed \ {t} /\ (t \in Handed <=> err[t] = "OK")
  BY <1>1, <1>2, <1>4 DEF Handed, Woken, Back
<1>8. t \notin holders
  BY <1>1 DEF IInv, Takers
<1>9. Cardinality(holders') + Cardinality(Handed') = Cardinality(holders) + Cardinality(Handed)
  <2>1. CASE err[t] = "OK"
    <3>1. Cardinality(holders') = Cardinality(holders) + 1
      BY <1>1, <1>8, <2>1, SemFacts, FS_AddElement
    <3>2. Cardinality(Handed') = Cardinality(Handed) - 1
      BY <1>7, <2>1, SemFacts, FS_RemoveElement
    <3> QED BY <3>1, <3>2, SemFacts
  <2>2. CASE err[t] # "OK"
    <3>1. Handed' = Handed /\ holders' = holders
      BY <1>1, <1>7, <2>2
    <3> QED BY <3>1
  <2> QED BY <2>1, <2>2
<1>10. /\ holders' \subseteq Thread /\ Handed' \subseteq Thread
       /\ Cardinality(holders') \in Nat /\ Cardinality(Handed') \in Nat
  BY <1>5, WaitAssumption, FS_Subset, FS_CardinalityType DEF TypeOK, Handed, Woken
<1>11. Conservation' /\ NobodyWaitsForNothing'
  <2>1. value \in Nat /\ value + Cardinality(holders) + Cardinality(Handed) = issued
    BY SemAssumption DEF IInv, TypeOK, Conservation
  <2>2. value' + Cardinality(holders') + Cardinality(Handed') = issued'
    BY <1>1, <1>9, <1>10, <2>1, SemFacts
  <2> QED BY <1>1, <2>2 DEF IInv, Conservation, NobodyWaitsForNothing
<1> QED BY <1>2, <1>5, <1>6, <1>11 DEF IInv, WaitInv
\* The token of a release goes to the first waiter, to the count, or, when that is full, nowhere.
LEMMA ReleaseFacts ==
  ASSUME IInv, ReleaseSection, UNCHANGED <<pc, on>>
  PROVE  /\ WaitInv' /\ err' = err /\ \A t : Suspended(t)' => Suspended(t)
         /\ value' \in 0..MaxValue /\ (value' > 0 => wait'[Sem] = <<>>)
         /\ Cardinality(Handed') \in Nat
         /\ value' + Cardinality(Handed') = value + Cardinality(Handed) + IF Full THEN 0 ELSE 1
<1>1. value \in 0..MaxValue /\ MaxValue \in Nat
  BY SemAssumption DEF IInv, TypeOK
<1>2. CASE wait[Sem] # <<>>
  <2> DEFINE h == Head(wait[Sem])
  <2>1. Resume(Sem) /\ value' = value /\ ~Full
    BY <1>2 DEF ReleaseSection, Full
  <2>2. Leave({h}) /\ err' = err
    BY <1>2, <2>1, SemFacts, ResumeFacts
  <2>3. h \in Thread /\ Suspended(h)
    BY <1>2, SemFacts, FirstFacts
  <2>4. \A t : Suspended(t)' <=> Suspended(t) /\ t # h
    BY <2>2 DEF Leave, Suspended
  <2>5. Handed' = Handed \union {h} /\ h \notin Handed
    BY <2>2, <2>3, <2>4, SemFacts DEF Handed, Woken, Back, IInv, Takers
  <2>6. Cardinality(Handed') = Cardinality(Handed) + 1
    BY <2>5, SemFacts, FS_AddElement
  <2>7. value = 0
    BY <1>1, <1>2 DEF IInv, NobodyWaitsForNothing
  <2> QED BY <1>1, <2>1, <2>2, <2>4, <2>6, <2>7, SemFacts DEF Leave
<1>3. CASE wait[Sem] = <<>>
  <2>1. /\ value' = IF value < MaxValue THEN value + 1 ELSE value
        /\ UNCHANGED <<wait, armed, err>>
    BY <1>3 DEF ReleaseSection, waitVars
  <2>2. WaitInv' /\ \A t : Suspended(t)' <=> Suspended(t)
    BY <2>1, SemFacts, WaitStutter DEF waitVars, Suspended
  <2>3. Handed' = Handed
    BY <2>1, <2>2 DEF Handed, Woken, Back
  <2>4. value' \in 0..MaxValue /\ value' = value + IF Full THEN 0 ELSE 1
    BY <1>1, <1>3, <2>1 DEF Full
  <2> QED BY <1>1, <1>3, <2>1, <2>2, <2>3, <2>4, SemFacts
<1> QED BY <1>2, <1>3

LEMMA ReleaseIInv ==
  ASSUME IInv, NEW t \in Thread, Release(t)
  PROVE  IInv'
<1>1. /\ ReleaseSection /\ UNCHANGED <<pc, on, gone>> /\ t \in holders
      /\ holders' = holders \ {t} /\ issued' = IF Full THEN issued - 1 ELSE issued
  BY DEF Release, callVars
<1>2. Cardinality(holders') = Cardinality(holders) - 1 /\ Cardinality(holders') \in Nat
  BY <1>1, SemFacts, FS_RemoveElement, FS_CardinalityType
<1>3. /\ value \in Nat /\ issued \in Nat /\ gone \in SUBSET List
      /\ value + Cardinality(holders) + Cardinality(Handed) = issued
  BY SemAssumption DEF IInv, TypeOK, CallTypeOK, Conservation
<1>4. value' \in Nat
  BY <1>1, ReleaseFacts, SemAssumption
<1>5. value' + Cardinality(holders') + Cardinality(Handed') = issued' /\ issued' \in Nat
  BY <1>1, <1>2, <1>3, <1>4, ReleaseFacts, SemFacts
<1> QED BY <1>1, <1>3, <1>5, ReleaseFacts, Quiet

LEMMA ConsumeIInv ==
  ASSUME IInv, NEW t \in Thread, Consume(t)
  PROVE  IInv'
<1>1. /\ UNCHANGED <<wait, armed, err, pc, on, gone, value>> /\ t \in holders
      /\ holders' = holders \ {t} /\ issued' = issued - 1
  BY DEF Consume, objectVars, waitVars, callVars
<1>2. Cardinality(holders') = Cardinality(holders) - 1 /\ Cardinality(holders') \in Nat
  BY <1>1, SemFacts, FS_RemoveElement, FS_CardinalityType
<1>3. /\ value \in 0..MaxValue /\ value \in Nat /\ issued \in Nat /\ gone \in SUBSET List
      /\ value + Cardinality(holders) + Cardinality(Handed) = issued
      /\ value > 0 => wait[Sem] = <<>>
  BY SemAssumption DEF IInv, TypeOK, CallTypeOK, Conservation, NobodyWaitsForNothing
<1>4. WaitInv' /\ \A x : Suspended(x)' <=> Suspended(x)
  BY <1>1, SemFacts, WaitStutter DEF waitVars, Suspended
<1>5. Handed' = Handed
  BY <1>1, <1>4 DEF Handed, Woken, Back
<1>6. value' + Cardinality(holders') + Cardinality(Handed') = issued' /\ issued' \in Nat
  BY <1>1, <1>2, <1>3, <1>5, SemFacts
<1> QED BY <1>1, <1>3, <1>4, <1>6, Quiet

LEMMA ReleaseIsrIInv ==
  ASSUME IInv, ReleaseIsr
  PROVE  IInv'
<1>1. /\ ReleaseSection /\ UNCHANGED <<pc, on, gone, holders>>
      /\ issued' = IF Full THEN issued ELSE issued + 1
  BY DEF ReleaseIsr, callVars
<1>2. /\ value \in Nat /\ issued \in Nat /\ gone \in SUBSET List
      /\ value + Cardinality(holders) + Cardinality(Handed) = issued
  BY SemAssumption DEF IInv, TypeOK, CallTypeOK, Conservation
<1>3. value' \in Nat
  BY <1>1, ReleaseFacts, SemAssumption
<1>4. value' + Cardinality(holders') + Cardinality(Handed') = issued' /\ issued' \in Nat
  BY <1>1, <1>2, <1>3, ReleaseFacts, SemFacts
<1> QED BY <1>1, <1>2, <1>4, ReleaseFacts, Quiet

LEMMA ResetIInv ==
  ASSUME IInv, NEW t \in Thread, NEW v \in Resets, Reset(t, v)
  PROVE  IInv'
<1> DEFINE W == {x \in Thread : \E l \in {Sem} : Linked(wait[l], x)}
<1>1. /\ ResumeAllFailed({Sem}) /\ value' = v /\ UNCHANGED <<holders, pc, on, gone>>
      /\ issued' = v + Cardinality(holders) + Cardinality(Handed)
  BY DEF Reset, callVars
<1>2. v \in 0..MaxValue /\ v \in Nat
  BY SemAssumption
<1>3. /\ Leave(W) /\ wait'[Sem] = <<>>
      /\ \A x \in Thread : err'[x] = IF \E l \in {Sem} : Linked(wait[l], x) THEN "ERROR" ELSE err[x]
  <2>1. WaitInv /\ {Sem} \in SUBSET List
    BY SemFacts
  <2> QED BY <1>1, <2>1, ResumeAllFacts
<1>4. \A x \in Thread : Suspended(x) <=> x \in W
  BY SemFacts
<1> HIDE DEF W
<1>5. Handed' = Handed
  <2>1. \A x \in Thread : x \in W <=> Linked(wait[Sem], x)
    BY <1>4, SemFacts
  <2>2. \A x \in Thread : err'[x] = IF x \in W THEN "ERROR" ELSE err[x]
    BY <1>3, <2>1
  <2> QED BY <1>1, <1>3, <1>4, <2>2, NobodyHanded
<1>6. \A x : ~Suspended(x)'
  BY <1>3, SemFacts DEF Suspended, Linked
<1>7. WaitInv' /\ gone' \in SUBSET List /\ holders' \in SUBSET holders
  BY <1>1, <1>3 DEF Leave, IInv, TypeOK, CallTypeOK
<1>8. value' + Cardinality(holders') + Cardinality(Handed') = issued' /\ issued' \in Nat
  BY <1>1, <1>2, <1>5, SemFacts
<1> QED BY <1>1, <1>2, <1>3, <1>6, <1>7, <1>8, Quiet
\* What happens beside the calls of the semaphore: waiters leave with an error.
LEMMA Besides ==
  ASSUME IInv, NEW W, Leave(W), UNCHANGED semVars, gone' \in SUBSET List,
         pc' \in [Thread -> {"run", "wait", "send", "fill", "urge", "copy",
                             "detach", "resume", "astray"}],
         on' \in [Thread -> List],
         \A t \in Thread : pc'[t] = "wait" <=> pc[t] = "wait",
         \A t \in Thread : Suspended(t) /\ t \in W => err'[t] # "OK",
         \A t \in Thread : ~Suspended(t) \/ t \notin W => err'[t] = err[t]
  PROVE  IInv'
<1>1. \A t : Suspended(t)' <=> Suspended(t) /\ t \notin W
  BY DEF Leave, Suspended
<1>2. UNCHANGED <<value, holders, issued>>
  BY DEF semVars
<1>3. TypeOK' /\ WaitInv'
  BY <1>2 DEF Leave, WaitInv, IInv, TypeOK, CallTypeOK
<1>4. \A t \in Thread : on[t] = Sem /\ on'[t] = Sem
  BY SemFacts DEF IInv, TypeOK, CallTypeOK
<1>5. Takers'
  BY <1>1, <1>2, <1>4, SemFacts DEF IInv, Takers
<1>6. Handed' = Handed
  BY <1>1, <1>4 DEF Handed, Woken, Back, IInv, Takers
<1>7. wait[Sem] = <<>> => wait'[Sem] = <<>>
  <2>1. wait'[Sem] \in Seq(Thread)
    BY <1>3, SemFacts DEF WaitInv, WaitTypeOK
  <2>2. \A x : ~Linked(<<>>, x)
    BY DEF Linked
  <2> QED BY <2>1, <2>2, SemFacts, HeadFacts DEF Leave
<1> QED BY <1>2, <1>3, <1>5, <1>6, <1>7 DEF IInv, WaitInv, Conservation, NobodyWaitsForNothing

LEMMA StandIInv ==
  ASSUME IInv, UNCHANGED waitVars, UNCHANGED semVars, gone' \in SUBSET List,
         pc' \in [Thread -> {"run", "wait", "send", "fill", "urge", "copy",
                             "detach", "resume", "astray"}],
         on' \in [Thread -> List],
         \A t \in Thread : pc'[t] = "wait" <=> pc[t] = "wait"
  PROVE  IInv'
<1>1. UNCHANGED <<wait, armed, err>>
  BY DEF waitVars
<1>2. Leave({})
  BY <1>1, SemFacts, WaitStutter DEF Leave, waitVars
<1> QED BY <1>1, <1>2, Besides

LEMMA TimerIInv ==
  ASSUME IInv, TimerExpires, UNCHANGED semVars
  PROVE  IInv'
<1>1. PICK t \in Thread : Timeout(t)
  BY DEF TimerExpires
<1>2. UNCHANGED <<pc, on, gone>>
  BY DEF TimerExpires, callVars
<1>3. Leave({t}) /\ err' = [err EXCEPT ![t] = "ETIMEOUT"] /\ Suspended(t)
  BY <1>1, SemFacts, TimeoutFacts
<1>4. err \in [Thread -> {"OK", "ERROR", "ETIMEOUT"}]
  BY SemFacts DEF WaitInv, WaitTypeOK
<1>5. /\ pc \in [Thread -> {"run", "wait", "send", "fill", "urge", "copy", "detach", "resume", "astray"}]
      /\ on \in [Thread -> List] /\ gone \in SUBSET List
  BY DEF IInv, TypeOK, CallTypeOK
<1> QED BY <1>2, <1>3, <1>4, <1>5, Besides

LEMMA DetachIInv ==
  ASSUME IInv, NEW t \in Thread, UNCHANGED semVars,
         Detach(t, Sem, {Sem}) \/ DetachTest(t, {}) \/ DetachResume(t)
  PROVE  IInv'
<1>1. /\ pc \in [Thread -> {"run", "wait", "send", "fill", "urge", "copy", "detach", "resume", "astray"}]
      /\ on \in [Thread -> List] /\ gone \in SUBSET List
      /\ err \in [Thread -> {"OK", "ERROR", "ETIMEOUT"}]
  BY DEF IInv, TypeOK, CallTypeOK, WaitTypeOK
<1>2. on[t] = Sem /\ SomeList = Sem
  BY <1>1, SemFacts DEF SomeList
<1>3. CASE Detach(t, Sem, {Sem})
  <2>1. UNCHANGED waitVars /\ gone' \in SUBSET List /\ pc[t] = "run"
        /\ pc' = [pc EXCEPT ![t] = "detach"] /\ on' = [on EXCEPT ![t] = Sem]
    BY <1>1, <1>3, SemFacts DEF Detach, Calls, Goto
  <2> QED BY <1>1, <2>1, SemFacts, StandIInv
<1>4. CASE DetachTest(t, {})
  <2>1. UNCHANGED waitVars /\ gone' = gone /\ pc[t] = "detach"
        /\ \E c \in {"resume", "run"} : pc' = [pc EXCEPT ![t] = c] /\ on' = [on EXCEPT ![t] = Sem]
    BY <1>2, <1>4 DEF DetachTest, Return, Goto
  <2> QED BY <1>1, <2>1, SemFacts, StandIInv
<1>5. CASE DetachResume(t)
  <2>1. /\ gone' = gone /\ pc[t] = "resume"
        /\ \E c \in {"detach", "astray"} : pc' = [pc EXCEPT ![t] = c] /\ on' = [on EXCEPT ![t] = Sem]
    BY <1>2, <1>5 DEF DetachResume, Goto
  <2>2. CASE wait[Sem] = <<>>
    <3>1. UNCHANGED waitVars
      BY <1>2, <1>5, <2>2 DEF DetachResume
    <3> QED BY <1>1, <2>1, <3>1, SemFacts, StandIInv
  <2>3. CASE wait[Sem] # <<>>
    <3> DEFINE h == Head(wait[Sem])
    <3>1. ResumeFailed(Sem)
      BY <1>2, <1>5, <2>3 DEF DetachResume
    <3>2. Leave({h}) /\ err' = [err EXCEPT ![h] = "ERROR"]
      BY <2>3, <3>1, SemFacts, ResumeFailedFacts
    <3>3. h \in Thread /\ Suspended(h)
      BY <2>3, SemFacts, FirstFacts
    <3> HIDE DEF h
    <3> QED BY <1>1, <2>1, <3>2, <3>3, SemFacts, Besides
  <2> QED BY <2>2, <2>3
<1> QED BY <1>3, <1>4, <1>5

LEMMA StepIInv == IInv /\ [Next]_vars => IInv'
<1> SUFFICES ASSUME IInv, [Next]_vars PROVE IInv'
  OBVIOUS
<1>1. CASE UNCHANGED vars
  <2>1. UNCHANGED <<pc, on, gone>> /\ UNCHANGED waitVars /\ UNCHANGED semVars
    BY <1>1 DEF vars, objectVars, callVars
  <2>2. /\ pc \in [Thread -> {"run", "wait", "send", "fill", "urge", "copy", "detach", "resume", "astray"}]
        /\ on \in [Thread -> List] /\ gone \in SUBSET List
    BY DEF IInv, TypeOK, CallTypeOK
  <2> QED BY <2>1, <2>2, StandIInv
<1>2. CASE ReleaseIsr
  BY <1>2, ReleaseIsrIInv
<1>3. CASE Outside
  BY <1>3, TimerIInv, DetachIInv DEF Outside
<1>4. ASSUME NEW t \in Thread,
             \/ TakeNow(t) \/ TakeReturn(t) \/ Release(t) \/ Consume(t)
             \/ \E limited \in Timed : TakeWait(t, limited)
             \/ \E v \in Resets : Reset(t, v)
      PROVE  IInv'
  BY <1>4, TakeNowIInv, TakeReturnIInv, ReleaseIInv, ConsumeIInv, TakeWaitIInv, ResetIInv
<1> QED BY <1>1, <1>2, <1>3, <1>4 DEF Next

\* ipc.c: whatever releases, timeouts, resets and detaches come between the wake and the return
\* of rt_sem_take, no token is lost or made, and nobody waits while there is one.
THEOREM TokensConserved == Spec => [](Conservation /\ NobodyWaitsForNothing /\ OneReason)
<1>1. IInv => Conservation /\ NobodyWaitsForNothing /\ OneReason
  BY DEF IInv
<1> QED BY <1>1, InitIInv, StepIInv, PTL DEF Spec

\* The same of the whole run: the steps of the other parts do not touch the semaphore.
THEOREM SemaphoreIsExact == PartsSpec => []SemaphoreExact
<1>1. PartsInit => Init
  BY DEF PartsInit
<1>2. [PartsNext]_partsVars => [Next]_vars
  <2> SUFFICES ASSUME [PartsNext]_partsVars PROVE [Next]_vars
    OBVIOUS
  <2>1. CASE UNCHANGED partsVars
    BY <2>1 DEF partsVars, semaphore
  <2>2. CASE PartsNext
    BY <2>2 DEF PartsNext, OthersStand, semaphore
  <2> QED BY <2>1, <2>2
<1>3. IInv => SemaphoreExact
  BY DEF IInv, SemaphoreExact
<1> QED BY <1>1, <1>2, <1>3, InitIInv, StepIInv, PTL DEF PartsSpec
-----------------------------------------------------------------------------
(* The loop of NEMU *)

Flags == mie \in BOOLEAN /\ mpie \in BOOLEAN

LEMMA ExecStep ==
  ASSUME Flags, Exec!Next
  PROVE  Flags' /\ Exec!Arch!Next
<1>1. CASE Exec!Interrupt
  <2>1. mie = TRUE
    BY <1>1 DEF Exec!Interrupt, Exec!Taken, Flags
  <2>2. Flags' /\ Exec!Arch!Interrupt
    BY <1>1, <2>1 DEF Exec!Interrupt, Exec!Arch!Interrupt, Flags
  <2> QED BY <2>2 DEF Exec!Arch!Next
<1>2. CASE Exec!Plain \/ Exec!Store
  <2>1. /\ cpuPc' \in {(cpuPc + 1) % Size} \union Target
        /\ UNCHANGED <<mepc, mie, mpie>>
    BY <1>2 DEF Exec!Plain, Exec!Store, Exec!Next1, Exec!csrs
  <2>2. Flags' /\ Exec!Arch!Execute
    BY <2>1 DEF Exec!Arch!Execute, Exec!Arch!Next1, Flags
  <2> QED BY <2>2 DEF Exec!Arch!Next
<1>3. CASE Exec!WriteCsr
  <2>1. cpuPc' = (cpuPc + 1) % Size
    BY <1>3 DEF Exec!WriteCsr, Exec!Next1
  <2>2. \/ mie' \in BOOLEAN /\ mpie' \in BOOLEAN /\ mepc' = mepc
        \/ mepc' \in 0 .. Size - 1 /\ UNCHANGED <<mie, mpie>>
        \/ UNCHANGED <<mepc, mie, mpie>>
    BY <1>3 DEF Exec!WriteCsr, Exec!Addr
  <2>3. Exec!Arch!WriteStatus \/ Exec!Arch!WriteEpc \/ Exec!Arch!Execute
    BY <2>1, <2>2 DEF Exec!Arch!WriteStatus, Exec!Arch!WriteEpc, Exec!Arch!Execute,
         Exec!Arch!Next1, Exec!Arch!Addr
  <2>4. Flags'
    BY <2>2 DEF Flags
  <2> QED BY <2>3, <2>4 DEF Exec!Arch!Next
<1>4. CASE Exec!Mret
  <2>1. mpie = TRUE
    BY <1>4 DEF Exec!Mret, Flags
  <2>2. Flags' /\ Exec!Arch!Return
    BY <1>4, <2>1 DEF Exec!Mret, Exec!Arch!Return, Flags
  <2> QED BY <2>2 DEF Exec!Arch!Next
<1> QED BY <1>1, <1>2, <1>3, <1>4 DEF Exec!Next

\* cpu-exec.c, intr.c: whatever the timer, the flags and the program do, the loop of NEMU is the
\* machine of PaArch, which the core is too.
THEOREM NemuImplementsArch == PartsSpec => NemuIsArch
<1>1. PartsInit => Exec!Arch!Init /\ Flags
  BY DEF PartsInit, Exec!Init, Exec!Arch!Init, Flags
<1>2. Flags /\ [PartsNext]_partsVars => Flags' /\ [Exec!Arch!Next]_Exec!Arch!vars
  <2> SUFFICES ASSUME Flags, [PartsNext]_partsVars
               PROVE  Flags' /\ [Exec!Arch!Next]_Exec!Arch!vars
    OBVIOUS
  <2>1. CASE UNCHANGED exec
    BY <2>1 DEF exec, Exec!Arch!vars, Flags
  <2>2. CASE PartsNext /\ part = "exec"
    BY <2>2, ExecStep DEF PartsNext
  <2> QED BY <2>1, <2>2 DEF partsVars, PartsNext, OthersStand
<1> QED BY <1>1, <1>2, PTL DEF PartsSpec, NemuIsArch, Exec!IsArch, Exec!Arch!Spec
-----------------------------------------------------------------------------
(* The timer of NEMU *)

TimerOfNemu == [cr : BOOLEAN, psc : Nat, load : Nat, count : Nat, clkCnt : Nat]

\* A timer that has fired counts on from what it was loaded with: phase says how far it is.
CountInv ==
  /\ mip = pending
  /\ nemuTimer \in TimerOfNemu
  /\ sinceTick # None =>
       /\ sinceTick \in Nat /\ nemuTimer.clkCnt <= nemuTimer.psc
       /\ sinceTick + 1 + nemuTimer.count * (nemuTimer.psc + 1)
            + (nemuTimer.psc - nemuTimer.clkCnt) = Exec!Period

\* The distance to the next tick.
LEMMA Distance ==
  ASSUME NEW n \in Nat, NEW p \in Nat, NEW m \in Nat
  PROVE  /\ n * (p + 1) \in Nat /\ (n * (p + 1) = 0 <=> n = 0)
         /\ n # 0 => (n - 1) * (p + 1) = n * (p + 1) - (p + 1)
         /\ (p + 1) * (n + 1) = n * (p + 1) + p + 1
<1>1. n * (p + 1) \in Nat
  OBVIOUS
<1>2. n # 0 => n * (p + 1) > 0
  OBVIOUS
<1>3. n # 0 => (n - 1) * (p + 1) = n * (p + 1) - (p + 1)
  OBVIOUS
<1>4. (p + 1) * (n + 1) = n * (p + 1) + p + 1
  OBVIOUS
<1> QED BY <1>1, <1>2, <1>3, <1>4

LEMMA CountUpdate ==
  ASSUME PartsAssumption, CountInv, NEW t, NEW flag, NEW bit, flag = bit,
         t \in TimerOfNemu,
         Exec!Update(t, flag, bit)
  PROVE  CountInv'
<1>1. PICK comes \in BOOLEAN :
        /\ nemuTimer' = IF comes THEN Exec!Updated(t) ELSE t
        /\ pending' = (flag \/ (comes /\ Exec!Fires(t))) /\ mip' = (bit \/ (comes /\ Exec!Fires(t)))
        /\ sinceTick' = CASE comes /\ Exec!Fires(t) -> 0
                          [] ~(comes /\ Exec!Fires(t)) /\ (t # nemuTimer \/ sinceTick = None) -> None
                          [] OTHER -> IF comes /\ t.cr THEN sinceTick + 1 ELSE sinceTick
  BY DEF Exec!Update
<1>2. None \notin Nat
  BY DEF PartsAssumption, Exec!ExecConstants
<1>3. nemuTimer' \in TimerOfNemu /\ t.psc \in Nat /\ t.load \in Nat /\ t.count \in Nat /\ t.clkCnt \in Nat
  <2>1. t.cr \in BOOLEAN /\ t.psc \in Nat /\ t.load \in Nat /\ t.count \in Nat /\ t.clkCnt \in Nat
    BY DEF TimerOfNemu
  <2>2. Exec!Fires(t) <=> t.cr /\ t.clkCnt >= t.psc /\ t.count = 0
    BY DEF Exec!Fires, Exec!Counts
  <2>3. Exec!Updated(t) \in TimerOfNemu
    <3> DEFINE k == IF Exec!Counts(t) THEN 0 ELSE t.clkCnt + 1
               c == CASE Exec!Fires(t) -> t.load
                      [] Exec!Counts(t) /\ ~Exec!Fires(t) -> t.count - 1
                      [] OTHER -> t.count
    <3>1. k \in Nat /\ c \in Nat
      BY <2>1, <2>2 DEF Exec!Counts
    <3>2. Exec!Updated(t) = IF ~t.cr THEN t ELSE [t EXCEPT !.clkCnt = k, !.count = c]
      BY DEF Exec!Updated
    <3> HIDE DEF k, c
    <3> QED BY <3>1, <3>2 DEF TimerOfNemu
  <2> QED BY <1>1, <2>1, <2>3
<1>4. CASE comes /\ Exec!Fires(t)
  <2>1. /\ sinceTick' = 0 /\ nemuTimer'.clkCnt = 0 /\ nemuTimer'.count = t.load
        /\ nemuTimer'.psc = t.psc /\ nemuTimer'.load = t.load
    BY <1>1, <1>4 DEF TimerOfNemu, Exec!Updated, Exec!Fires, Exec!Counts
  <2>2. t.load * (t.psc + 1) \in Nat /\ (t.psc + 1) * (t.load + 1) = t.load * (t.psc + 1) + t.psc + 1
    BY <1>3, Distance
  <2>3. 0 + 1 + t.load * (t.psc + 1) + (t.psc - 0) = (t.psc + 1) * (t.load + 1)
    BY <1>3, <2>2
  <2> QED BY <1>1, <1>3, <2>1, <2>3 DEF CountInv, Exec!Period
<1>5. CASE ~(comes /\ Exec!Fires(t)) /\ (t # nemuTimer \/ sinceTick = None)
  BY <1>1, <1>3, <1>5 DEF CountInv
<1>6. CASE ~(comes /\ Exec!Fires(t)) /\ t = nemuTimer /\ sinceTick # None
  <2>1. /\ sinceTick' = IF comes /\ t.cr THEN sinceTick + 1 ELSE sinceTick
        /\ sinceTick \in Nat /\ t.clkCnt <= t.psc
        /\ sinceTick + 1 + t.count * (t.psc + 1) + (t.psc - t.clkCnt) = (t.psc + 1) * (t.load + 1)
    BY <1>1, <1>2, <1>6 DEF CountInv, Exec!Period
  <2>2. CASE ~comes \/ ~t.cr
    <3>1. nemuTimer' = nemuTimer /\ sinceTick' = sinceTick
      BY <1>1, <1>6, <2>1, <2>2 DEF Exec!Updated
    <3> QED BY <1>1, <1>3, <1>6, <2>1, <3>1 DEF CountInv, Exec!Period
  <2>3. CASE comes /\ t.cr /\ t.clkCnt < t.psc
    <3>1. /\ nemuTimer'.clkCnt = t.clkCnt + 1 /\ nemuTimer'.count = t.count
          /\ nemuTimer'.psc = t.psc /\ nemuTimer'.load = t.load
      BY <1>1, <1>3, <2>3 DEF TimerOfNemu, Exec!Updated, Exec!Fires, Exec!Counts
    <3>2. t.count * (t.psc + 1) \in Nat
      BY <1>3, Distance
    <3>3. sinceTick' + 1 + t.count * (t.psc + 1) + (t.psc - (t.clkCnt + 1)) = (t.psc + 1) * (t.load + 1)
      BY <1>3, <2>1, <2>3, <3>2
    <3> QED BY <1>1, <1>3, <1>6, <2>1, <2>3, <3>1, <3>3 DEF CountInv, Exec!Period
  <2>4. CASE comes /\ t.cr /\ t.clkCnt = t.psc
    <3>1. t.count # 0
      BY <1>3, <1>6, <2>4 DEF Exec!Fires, Exec!Counts
    <3>2. /\ nemuTimer'.clkCnt = 0 /\ nemuTimer'.count = t.count - 1
          /\ nemuTimer'.psc = t.psc /\ nemuTimer'.load = t.load
      BY <1>1, <1>3, <2>4, <3>1 DEF TimerOfNemu, Exec!Updated, Exec!Fires, Exec!Counts
    <3>3. t.count * (t.psc + 1) \in Nat /\ (t.count - 1) * (t.psc + 1) = t.count * (t.psc + 1) - (t.psc + 1)
      BY <1>3, <3>1, Distance
    <3>4. sinceTick' + 1 + (t.count - 1) * (t.psc + 1) + (t.psc - 0) = (t.psc + 1) * (t.load + 1)
      <4> DEFINE N == t.count * (t.psc + 1)
                 M == (t.count - 1) * (t.psc + 1)
                 P == (t.psc + 1) * (t.load + 1)
      <4>1. N \in Nat /\ M = N - (t.psc + 1) /\ P \in Nat
        BY <1>3, <3>3
      <4>2. sinceTick' = sinceTick + 1 /\ sinceTick \in Nat /\ sinceTick + 1 + N + (t.psc - t.clkCnt) = P
        BY <2>1, <2>4
      <4> HIDE DEF N, M, P
      <4>3. sinceTick' + 1 + M + (t.psc - 0) = P
        BY <1>3, <2>4, <4>1, <4>2
      <4> QED BY <4>3 DEF N, M, P
    <3> QED BY <1>1, <1>3, <1>6, <2>1, <2>4, <3>2, <3>4 DEF CountInv, Exec!Period
  <2>5. t.clkCnt < t.psc \/ t.clkCnt = t.psc
    <3>1. t.clkCnt <= t.psc
      BY <2>1
    <3> QED BY <1>3, <3>1
  <2> QED BY <2>2, <2>3, <2>4, <2>5
<1> QED BY <1>4, <1>5, <1>6

LEMMA CountStep ==
  ASSUME PartsAssumption, CountInv, Exec!Next
  PROVE  CountInv'
<1>1. nemuTimer \in TimerOfNemu
  BY DEF CountInv
<1>2. PICK t, flag : Exec!Update(t, flag, flag) /\ t \in TimerOfNemu
  <2>1. CASE Exec!Interrupt
    BY <1>1, <2>1 DEF Exec!Interrupt
  <2>2. CASE Exec!Plain \/ Exec!WriteCsr \/ Exec!Mret
    BY <1>1, <2>2 DEF Exec!Plain, Exec!WriteCsr, Exec!Mret, CountInv
  <2>3. CASE Exec!Store
    <3>1. PICK register \in {"cr", "psc", "load", "count"}, v \in RegisterValues :
            Exec!Update(Exec!Stored(register, v), pending, mip)
      BY <2>3 DEF Exec!Store
    <3>2. v \in Nat
      BY DEF PartsAssumption, Exec!ExecConstants
    <3>3. Exec!Stored(register, v) \in TimerOfNemu
      BY <1>1, <3>2 DEF Exec!Stored, TimerOfNemu
    <3> QED BY <3>1, <3>3 DEF CountInv
  <2> QED BY <2>1, <2>2, <2>3 DEF Exec!Next
<1> QED BY <1>2, CountUpdate

LEMMA CountStart ==
  ASSUME Exec!Init
  PROVE  CountInv
BY DEF Exec!Init, CountInv, TimerOfNemu

LEMMA CountSays ==
  ASSUME CountInv
  PROVE  Exec!TicksExact
<1>1. ASSUME sinceTick # None
      PROVE  /\ sinceTick < Exec!Period
             /\ nemuTimer.cr => (Exec!Fires(nemuTimer) <=> sinceTick + 1 = Exec!Period)
  <2>1. /\ nemuTimer.count \in Nat /\ nemuTimer.psc \in Nat /\ nemuTimer.clkCnt \in Nat
        /\ sinceTick \in Nat /\ nemuTimer.clkCnt <= nemuTimer.psc
        /\ sinceTick + 1 + nemuTimer.count * (nemuTimer.psc + 1)
             + (nemuTimer.psc - nemuTimer.clkCnt) = Exec!Period
    BY <1>1 DEF CountInv, TimerOfNemu
  <2>2. /\ nemuTimer.count * (nemuTimer.psc + 1) \in Nat
        /\ (nemuTimer.count * (nemuTimer.psc + 1) = 0 <=> nemuTimer.count = 0)
    BY <2>1, Distance
  <2>3. sinceTick < Exec!Period
    BY <2>1, <2>2
  <2>4. nemuTimer.count = 0 /\ nemuTimer.clkCnt >= nemuTimer.psc <=> sinceTick + 1 = Exec!Period
    BY <2>1, <2>2
  <2> QED BY <2>3, <2>4 DEF Exec!Fires, Exec!Counts
<1> QED BY <1>1 DEF CountInv, Exec!TicksExact

-----------------------------------------------------------------------------
(* The UART of NEMU *)

\* A key that has been taken is the one in rxd, until the driver has loaded it.
KeyInv ==
  /\ driver \in {"run", "poll", "sent", "look", "clear"}
  /\ hasData \in BOOLEAN /\ rxFlag = hasData
  /\ driver = "look" => hasData
  /\ driver = "clear" => ~hasData /\ keys = <<driverData>>
  /\ driver # "clear" => keys = IF hasData THEN <<nemuRxd>> ELSE <<>>

LEMMA KeyStep ==
  ASSUME KeyInv, NUart!Next
  PROVE  KeyInv'
<1>1. ASSUME NEW key, NUart!Update(key)
      PROVE  KeyInv'
  <2>1. driver # "clear" /\ ~hasData /\ keys = <<>>
    BY <1>1 DEF NUart!Update, KeyInv
  <2>2. keys' = <<key>>
    BY <1>1, <2>1 DEF NUart!Update
  <2> QED BY <1>1, <2>1, <2>2 DEF NUart!Update, KeyInv
<1>2. CASE NUart!SendWrite \/ NUart!SendPoll \/ NUart!SendClear \/ NUart!ReadFlag
  BY <1>2 DEF NUart!SendWrite, NUart!SendPoll, NUart!SendClear, NUart!ReadFlag, NUart!Goes,
       NUart!receiver, KeyInv
<1>3. CASE NUart!ReadData
  BY <1>3 DEF NUart!ReadData, NUart!Goes, KeyInv
<1>4. CASE NUart!ReadClear
  <2>1. keys = <<driverData>>
    BY <1>4 DEF NUart!ReadClear, NUart!Goes, KeyInv
  <2>2. keys' = <<>>
    BY <1>4, <2>1 DEF NUart!ReadClear
  <2> QED BY <1>4, <2>2 DEF NUart!ReadClear, NUart!Goes, KeyInv
<1> QED BY <1>1, <1>2, <1>3, <1>4 DEF NUart!Next

LEMMA KeyStart ==
  ASSUME NUart!Init
  PROVE  KeyInv
BY DEF NUart!Init, KeyInv

LEMMA KeySays ==
  ASSUME KeyInv
  PROVE  NUart!KeysRead
BY DEF KeyInv, NUart!KeysRead

-----------------------------------------------------------------------------
(* The watchpoints of NEMU *)

Pool == 0..(Places - 1)

WatchInv ==
  /\ mode \in {"prompt", "go", "run"}
  /\ head \in Seq(Pool) /\ free \in Seq(Pool) /\ used \in SUBSET Pool
  /\ DOMAIN num = Pool /\ DOMAIN exprs = Pool
  /\ Watch!WatchExact

LEMMA WatchLists ==
  /\ \A l, n : Watch!Linked(l, n) = Linked(l, n) /\ Watch!Unlink(l, n) = Unlink(l, n)
  /\ \A l, n : Watch!LinkFirst(l, n) = LinkFirst(l, n)
  /\ \A l : Watch!Once(l) = Once(l)
  /\ Watch!WP = Pool
<1>1. \A l, n : Watch!Linked(l, n) = Linked(l, n)
  BY Zenon DEF Watch!Linked, Linked
<1>2. \A l, n : Watch!Unlink(l, n) = Unlink(l, n)
  BY Zenon DEF Watch!Unlink, Unlink, Watch!CutOut, CutOut, Watch!Position, Position, Watch!Linked, Linked
<1>3. \A l, n : Watch!LinkFirst(l, n) = LinkFirst(l, n)
  BY Zenon DEF Watch!LinkFirst, LinkFirst
<1>4. \A l : Watch!Once(l) = Once(l)
  BY Zenon DEF Watch!Once, Once
<1> QED BY <1>1, <1>2, <1>3, <1>4 DEF Watch!WP, Pool

\* WatchExact in the terms of RtList.
WatchPlaces ==
  /\ Once(head) /\ Once(free)
  /\ \A p \in Pool : (p \in used <=> Linked(head, p)) /\ (Linked(head, p) <=> ~Linked(free, p))
  /\ mode = "run" => \A p \in used : num[p] = val[exprs[p]]

LEMMA WatchIs == Watch!WatchExact <=> WatchPlaces
<1>1. \A p : (Watch!Linked(head, p) # Watch!Linked(free, p)) <=> (Linked(head, p) <=> ~Linked(free, p))
  BY WatchLists, Zenon DEF Linked
<1>2. \A p : Watch!Linked(head, p) <=> Linked(head, p)
  BY WatchLists, Zenon
<1>3. (Watch!Once(head) <=> Once(head)) /\ (Watch!Once(free) <=> Once(free)) /\ Watch!WP = Pool
  BY WatchLists, Zenon
<1> QED BY <1>1, <1>2, <1>3, Zenon DEF Watch!WatchExact, WatchPlaces

LEMMA WatchStart ==
  ASSUME PartsAssumption, Watch!Init
  PROVE  WatchInv
<1>1. Places \in Nat \ {0} /\ Expr # {}
  BY DEF PartsAssumption, Watch!WatchConstants
<1>2. /\ mode = "prompt" /\ head = <<>> /\ free = [i \in 1..Places |-> i - 1] /\ used = {}
      /\ exprs = [p \in Pool |-> CHOOSE e \in Expr : TRUE]
      /\ num = [p \in Pool |-> CHOOSE v \in {0, 1} : TRUE]
  BY DEF Watch!Init, Watch!WP, Pool
<1>3. free \in Seq(Pool) /\ DOMAIN free = 1..Places /\ \A i \in 1..Places : free[i] = i - 1
  BY <1>1, <1>2 DEF Pool
<1>4. \A p \in Pool : Linked(free, p) /\ ~Linked(head, p)
  <2>1. ASSUME NEW p \in Pool PROVE Linked(free, p)
    <3>1. p + 1 \in 1..Places /\ free[p + 1] = p
      BY <1>1, <1>3 DEF Pool
    <3> QED BY <1>3, <3>1 DEF Linked
  <2> QED BY <1>2, <2>1 DEF Linked
<1>5. Once(head) /\ Once(free)
  BY <1>2, <1>3 DEF Once
<1>6. WatchPlaces
  BY <1>2, <1>4, <1>5 DEF WatchPlaces
<1> QED BY <1>2, <1>3, <1>6, WatchIs DEF WatchInv

LEMMA WatchStep ==
  ASSUME WatchInv, Watch!Next
  PROVE  WatchInv'
<1>1. /\ head \in Seq(Pool) /\ free \in Seq(Pool) /\ Once(head) /\ Once(free)
      /\ \A p \in Pool : (p \in used <=> Linked(head, p)) /\ (Linked(head, p) <=> ~Linked(free, p))
      /\ used \in SUBSET Pool /\ DOMAIN num = Pool /\ DOMAIN exprs = Pool
  BY WatchIs DEF WatchInv, WatchPlaces
<1>2. (Watch!WatchExact <=> WatchPlaces)'
  BY WatchIs, PTL
<1>3. ASSUME NEW e \in Expr, Watch!Add(e)
      PROVE  WatchInv'
  <2>1. /\ mode = "prompt" /\ mode' = "prompt" /\ val' = val /\ free # <<>>
        /\ head' = LinkFirst(head, Head(free)) /\ free' = Tail(free)
        /\ used' = used \union {Head(free)}
        /\ exprs' = [exprs EXCEPT ![Head(free)] = e] /\ num' = [num EXCEPT ![Head(free)] = val[e]]
    BY <1>3, WatchLists DEF Watch!Add
  <2>2. /\ Head(free) \in Pool /\ Linked(free, Head(free)) /\ ~Linked(head, Head(free))
    BY <1>1, <2>1, HeadFacts
  <2>3. /\ free' \in Seq(Pool) /\ Once(free')
        /\ \A m : Linked(free', m) <=> Linked(free, m) /\ m # Head(free)
    BY <1>1, <2>1, TailFacts
  <2>4. /\ head' \in Seq(Pool) /\ Once(head')
        /\ \A m : Linked(head', m) <=> Linked(head, m) \/ m = Head(free)
    BY <1>1, <2>1, <2>2, LinkFirstFacts
  <2>5. WatchPlaces'
    BY <1>1, <2>1, <2>2, <2>3, <2>4 DEF WatchPlaces
  <2> QED BY <1>1, <1>2, <2>1, <2>2, <2>3, <2>4, <2>5 DEF WatchInv
<1>4. ASSUME NEW p \in Watch!WP, Watch!Delete(p)
      PROVE  WatchInv'
  <2>1. /\ mode = "prompt" /\ mode' = "prompt" /\ p \in used /\ p \in Pool
        /\ head' = Unlink(head, p) /\ free' = LinkFirst(free, p)
        /\ used' = used \ {p} /\ UNCHANGED <<exprs, num>>
    BY <1>4, WatchLists DEF Watch!Delete
  <2>2. /\ head' \in Seq(Pool) /\ Once(head')
        /\ \A m : Linked(head', m) <=> Linked(head, m) /\ m # p
    BY <1>1, <2>1, UnlinkFacts
  <2>3. /\ free' \in Seq(Pool) /\ Once(free')
        /\ \A m : Linked(free', m) <=> Linked(free, m) \/ m = p
    BY <1>1, <2>1, LinkFirstFacts
  <2>4. WatchPlaces'
    BY <1>1, <2>1, <2>2, <2>3 DEF WatchPlaces
  <2> QED BY <1>1, <1>2, <2>1, <2>2, <2>3, <2>4 DEF WatchInv
<1>5. CASE Watch!Go \/ Watch!Interrupt \/ Watch!Pause
  <2>1. mode' \in {"prompt", "go"} /\ UNCHANGED <<head, free, used, exprs, num>>
    BY <1>5 DEF Watch!Go, Watch!Interrupt, Watch!Pause, Watch!pool
  <2>2. WatchPlaces'
    BY <1>1, <2>1 DEF WatchPlaces
  <2> QED BY <1>1, <1>2, <2>1, <2>2 DEF WatchInv
<1>6. CASE Watch!Instruction
  <2> DEFINE changed == {i \in DOMAIN head : num[head[i]] # val'[exprs[head[i]]]}
             first == head[CHOOSE i \in changed : \A j \in changed : i <= j]
  <2>1. UNCHANGED <<head, free, used, exprs>>
    BY <1>6 DEF Watch!Instruction, Watch!pool
  <2>2. CASE changed = {}
    <3>1. mode' = "run" /\ num' = num
      BY <1>6, <2>2 DEF Watch!Instruction
    <3>2. ASSUME NEW p \in used PROVE num[p] = val'[exprs[p]]
      <4>1. PICK i \in DOMAIN head : head[i] = p
        BY <1>1 DEF Linked
      <4> QED BY <2>2, <4>1
    <3>3. WatchPlaces'
      BY <1>1, <2>1, <3>1, <3>2 DEF WatchPlaces
    <3> QED BY <1>1, <1>2, <2>1, <3>1, <3>3 DEF WatchInv
  <2>3. CASE changed # {}
    <3>1. mode' = "prompt" /\ num' = [num EXCEPT ![first] = val'[exprs[first]]]
      BY <1>6, <2>3 DEF Watch!Instruction
    <3>2. WatchPlaces'
      BY <1>1, <2>1, <3>1 DEF WatchPlaces
    <3> QED BY <1>1, <1>2, <2>1, <3>1, <3>2 DEF WatchInv
  <2> QED BY <2>2, <2>3
<1> QED BY <1>3, <1>4, <1>5, <1>6 DEF Watch!Next

Simulator == CountInv /\ KeyInv /\ WatchInv

\* hwdev_timer.c, hwdev_uart.c, watchpoint.c: whenever the host lets an update of the devices
\* happen, the ticks come at equal distances; a key that comes between accesses of the driver
\* is neither lost nor read twice; and a watchpoint is free or used, never both.
THEOREM SimulatorIsExact == PartsSpec => []SimulatorExact
<1>1. PartsInit => Simulator
  BY CountStart, KeyStart, WatchStart, PartsAssumption DEF PartsInit, Simulator
<1>2. Simulator /\ [PartsNext]_partsVars => Simulator'
  <2> SUFFICES ASSUME Simulator, [PartsNext]_partsVars PROVE Simulator'
    OBVIOUS
  <2>1. UNCHANGED exec => CountInv'
    BY DEF exec, Simulator, CountInv, Exec!Period
  <2>2. UNCHANGED nemuUart => KeyInv'
    BY DEF nemuUart, Simulator, KeyInv
  <2>3. UNCHANGED watch => WatchInv'
    <3> SUFFICES ASSUME UNCHANGED watch PROVE WatchInv'
      OBVIOUS
    <3>1. (Watch!WatchExact <=> WatchPlaces)'
      BY WatchIs, PTL
    <3>2. WatchPlaces'
      BY WatchIs DEF Simulator, WatchInv, WatchPlaces, watch
    <3> QED BY <3>1, <3>2 DEF Simulator, WatchInv, watch
  <2>4. part = "exec" /\ PartsNext => CountInv'
    BY CountStep, PartsAssumption DEF PartsNext, Simulator
  <2>5. part = "nemu uart" /\ PartsNext => KeyInv'
    BY KeyStep DEF PartsNext, Simulator
  <2>6. part = "watch" /\ PartsNext => WatchInv'
    BY WatchStep DEF PartsNext, Simulator
  <2>7. /\ UNCHANGED exec \/ (part = "exec" /\ PartsNext)
        /\ UNCHANGED nemuUart \/ (part = "nemu uart" /\ PartsNext)
        /\ UNCHANGED watch \/ (part = "watch" /\ PartsNext)
    BY DEF partsVars, PartsNext, OthersStand
  <2>8. CountInv' /\ KeyInv' /\ WatchInv'
    BY <2>1, <2>2, <2>3, <2>4, <2>5, <2>6, <2>7
  <2> QED BY <2>8 DEF Simulator
<1>3. Simulator => SimulatorExact
  BY CountSays, KeySays DEF Simulator, WatchInv, SimulatorExact
<1> QED BY <1>1, <1>2, <1>3, PTL DEF PartsSpec

-----------------------------------------------------------------------------
(* The timer of the SoC *)

\* The clock in which the counter has been loaded: the prescaler has not waited for it.
FirstLoad == IF psc = 0 THEN 0 ELSE 1

TimerTypeOK ==
  /\ cr \in BOOLEAN /\ timerSr \in BOOLEAN /\ timeup \in BOOLEAN /\ written \in BOOLEAN
  /\ psc \in Nat /\ load \in Nat /\ counter \in Nat /\ clkCnt \in Nat
  /\ phase \in Nat \union {None}

\* What the counters say of the phase: how many clocks it is to the next zero.
Running ==
  /\ step = "run" /\ load # 0
  /\ clkCnt <= psc /\ (counter = 0 => clkCnt = 0)
  /\ timeup => counter = load /\ clkCnt = FirstLoad
  /\ timerSr => phase # None

Phased ==
  /\ phase < TickTimer!Period
  /\ timeup => phase + 1 = TickTimer!Period
  /\ ~timeup => phase + 2 + counter * (psc + 1) = TickTimer!Period + clkCnt
  /\ timerSr => phase = 0 \/ (written /\ phase = 1)
  /\ ~written /\ phase = 0 => timerSr

TimerInv ==
  /\ TimerTypeOK /\ load # 1
  /\ ~cr => phase = None
  /\ ~cr /\ ~written => counter = 0 /\ clkCnt = 0 /\ ~timeup /\ ~timerSr
  /\ cr => Running
  /\ phase # None => Phased

LEMMA TimerStart ==
  ASSUME PartsAssumption, TickTimer!Init
  PROVE  TimerInv
<1>1. /\ cr = FALSE /\ timerSr = FALSE /\ psc = 0 /\ load = 0 /\ counter = 0 /\ clkCnt = 0
      /\ timeup = FALSE /\ written = FALSE /\ phase = None
  BY DEF TickTimer!Init
<1>2. TimerTypeOK
  BY <1>1 DEF TimerTypeOK
<1>3. ~cr /\ phase = None /\ load # 1 /\ counter = 0 /\ clkCnt = 0 /\ ~timeup /\ ~timerSr
  BY <1>1
<1> QED BY <1>2, <1>3 DEF TimerInv

LEMMA TimerSays ==
  ASSUME TimerInv
  PROVE  TickTimer!TicksOnTime
<1>1. CASE phase = None
  BY <1>1 DEF TickTimer!TicksOnTime
<1>2. CASE phase # None
  BY <1>2 DEF TickTimer!TicksOnTime, TimerInv, TimerTypeOK, Phased
<1> QED BY <1>1, <1>2

\* What the step does besides counting.
Moved ==
  /\ cr' \in BOOLEAN /\ timerSr' \in BOOLEAN /\ psc' \in Nat /\ load' \in Nat /\ load' # 1
  /\ cr' => step' = "run" /\ load' # 0
  /\ cr /\ cr' => UNCHANGED <<psc, load>>
  /\ written' \in BOOLEAN
  /\ ~written' => cr' = cr /\ UNCHANGED <<psc, load>> /\ timerSr' = (~timerSr /\ cr /\ timeup)
  /\ written' => ~written /\ (timerSr' => timerSr)

LEMMA TimerMoves ==
  ASSUME PartsAssumption, TimerInv, TickTimer!Next
  PROVE  Moved /\ TickTimer!Counters /\ TickTimer!Seen(written')
<1>1. CASE TickTimer!Elsewhere /\ TickTimer!Seen(FALSE)
  BY <1>1 DEF TickTimer!Elsewhere, TickTimer!Quiet, TickTimer!Seen, Moved, TimerInv, TimerTypeOK, Running
<1>2. CASE TickTimer!Driver /\ TickTimer!Seen(TRUE)
  <2>1. written' = TRUE /\ written = FALSE
    BY <1>2 DEF TickTimer!Driver, TickTimer!Seen, TimerInv, TimerTypeOK
  <2>2. TickTimer!Counters
    BY <1>2 DEF TickTimer!Driver, TickTimer!InitStop, TickTimer!InitClear, TickTimer!ClearFlag,
         TickTimer!InitPsc, TickTimer!InitLoad, TickTimer!Control, TickTimer!Writes
  <2>3. ASSUME TickTimer!InitStop \/ TickTimer!InitClear \/ TickTimer!ClearFlag
        PROVE  Moved
    <3>1. CASE TickTimer!InitStop
      BY <2>1, <3>1 DEF TickTimer!InitStop, Moved, TimerInv, TimerTypeOK
    <3>2. CASE TickTimer!InitClear
      BY <2>1, <3>2 DEF TickTimer!InitClear, TickTimer!Writes, Moved, TimerInv, TimerTypeOK, Running
    <3>3. CASE TickTimer!ClearFlag
      BY <2>1, <3>3 DEF TickTimer!ClearFlag, TickTimer!Writes, Moved, TimerInv, TimerTypeOK, Running
    <3> QED BY <2>3, <3>1, <3>2, <3>3
  <2>4. ASSUME NEW p \in Prescales, TickTimer!InitPsc(p)
        PROVE  Moved
    <3>1. p \in Nat
      BY DEF PartsAssumption, TickTimer!TimerConstants
    <3> QED BY <2>1, <2>4, <3>1 DEF TickTimer!InitPsc, TickTimer!Writes, Moved, TimerInv,
               TimerTypeOK, Running
  <2>5. ASSUME NEW v \in Loads, TickTimer!InitLoad(v)
        PROVE  Moved
    <3>1. v \in Nat \ {0, 1}
      BY DEF PartsAssumption, TickTimer!TimerConstants
    <3> QED BY <2>1, <2>5, <3>1 DEF TickTimer!InitLoad, TickTimer!Writes, Moved, TimerInv,
               TimerTypeOK, Running
  <2>6. ASSUME NEW en \in BOOLEAN, TickTimer!Control(en)
        PROVE  Moved
    BY <2>1, <2>6 DEF TickTimer!Control, TickTimer!Writes, Moved, TimerInv, TimerTypeOK, Running
  <2>7. Moved
    BY <1>2, <2>3, <2>4, <2>5, <2>6 DEF TickTimer!Driver
  <2> QED BY <1>2, <2>1, <2>2, <2>7
<1> QED BY <1>1, <1>2 DEF TickTimer!Next

LEMMA TimerStep ==
  ASSUME PartsAssumption, TimerInv, TickTimer!Next
  PROVE  TimerInv'
<1>1. Moved /\ TickTimer!Counters /\ TickTimer!Seen(written')
  BY TimerMoves
<1>2. None \notin Nat
  BY DEF PartsAssumption, TickTimer!TimerConstants
<1>3. /\ clkCnt' = IF cr /\ clkCnt # psc THEN clkCnt + 1 ELSE 0
      /\ timeup' = (cr /\ ~timeup /\ counter = 0)
      /\ counter' = CASE cr /\ counter = 0 -> load
                      [] cr /\ counter # 0 /\ clkCnt = psc -> counter - 1
                      [] cr /\ counter # 0 /\ clkCnt # psc -> counter
                      [] OTHER -> 0
      /\ phase' = CASE ~cr' -> None
                    [] cr' /\ phase = None -> IF timerSr' THEN 0 ELSE None
                    [] OTHER -> (phase + 1) % TickTimer!Period
  BY <1>1 DEF TickTimer!Counters, TickTimer!Seen
<1>4. /\ cr \in BOOLEAN /\ timerSr \in BOOLEAN /\ timeup \in BOOLEAN /\ written \in BOOLEAN
      /\ psc \in Nat /\ load \in Nat /\ counter \in Nat /\ clkCnt \in Nat
  BY DEF TimerInv, TimerTypeOK
<1>5. clkCnt' \in Nat /\ counter' \in Nat /\ timeup' \in BOOLEAN
  BY <1>3, <1>4
<1>6. CASE ~cr'
  <2>1. phase' = None
    BY <1>3, <1>6
  <2>2. ~written' => ~cr
    BY <1>1, <1>4, <1>6 DEF Moved
  <2>3. ~written' => counter' = 0 /\ clkCnt' = 0 /\ ~timeup' /\ ~timerSr'
    BY <1>1, <1>3, <1>4, <2>2 DEF Moved
  <2> QED BY <1>1, <1>5, <1>6, <2>1, <2>3 DEF Moved, TimerInv, TimerTypeOK
<1>7. CASE cr' /\ ~cr
  <2>1. written' /\ ~written
    BY <1>1, <1>7 DEF Moved
  <2>2. phase = None /\ ~timerSr
    BY <1>7, <2>1 DEF TimerInv
  <2>3. ~timerSr' /\ phase' = None
    BY <1>1, <1>3, <1>7, <2>1, <2>2 DEF Moved
  <2>4. counter' = 0 /\ clkCnt' = 0 /\ ~timeup'
    BY <1>3, <1>7
  <2> QED BY <1>1, <1>5, <1>7, <2>3, <2>4 DEF Moved, TimerInv, TimerTypeOK, Running
<1>8. CASE cr' /\ cr
  <2>1. Running /\ psc' = psc /\ load' = load /\ load >= 2
    BY <1>1, <1>4, <1>8 DEF Moved, TimerInv
  <2>2. TickTimer!Period' = TickTimer!Period /\ FirstLoad' = FirstLoad
    BY <2>1 DEF TickTimer!Period, FirstLoad
  <2>3. clkCnt' <= psc /\ (counter' = 0 => clkCnt' = 0)
    BY <1>3, <1>4, <1>8, <2>1 DEF Running
  <2>4. timeup' => counter' = load /\ clkCnt' = FirstLoad
    <3> SUFFICES ASSUME timeup' PROVE counter' = load /\ clkCnt' = FirstLoad
      OBVIOUS
    <3>1. counter = 0
      BY <1>3
    <3>2. clkCnt = 0
      BY <2>1, <3>1 DEF Running
    <3> QED BY <1>3, <1>8, <3>1, <3>2 DEF FirstLoad
  <2>5. timeup => counter # 0
    BY <2>1 DEF Running
  <2> DEFINE N == counter * (psc + 1)
             L == load * (psc + 1)
             T == TickTimer!Period
  <2>6. /\ N \in Nat /\ L \in Nat /\ L >= 2 * psc + 2
        /\ counter' * (psc' + 1) = CASE counter = 0 -> L
                                     [] counter # 0 /\ clkCnt = psc -> N - (psc + 1)
                                     [] OTHER -> N
        /\ counter = 0 => N = 0
        /\ counter = load => N = L
    <3>1. N \in Nat /\ L \in Nat /\ (counter = 0 => N = 0)
      BY <1>4, Distance
    <3>2. L >= 2 * psc + 2
      <4>1. load - 2 \in Nat
        BY <1>4, <2>1
      <4>2. (load - 2) * (psc + 1) \in Nat
        BY <1>4, <4>1, Distance
      <4>3. load * (psc + 1) = (load - 2) * (psc + 1) + 2 * psc + 2
        BY <1>4, <4>1
      <4> QED BY <1>4, <4>2, <4>3
    <3>3. counter # 0 => (counter - 1) * (psc + 1) = N - (psc + 1)
      BY <1>4, Distance
    <3>4. counter' = CASE counter = 0 -> load
                       [] counter # 0 /\ clkCnt = psc -> counter - 1
                       [] OTHER -> counter
      BY <1>3, <1>8
    <3>5. psc' + 1 = psc + 1
      BY <2>1
    <3>6. counter' * (psc' + 1) = CASE counter = 0 -> L
                                    [] counter # 0 /\ clkCnt = psc -> N - (psc + 1)
                                    [] OTHER -> N
      <4>1. CASE counter = 0
        BY <3>4, <3>5, <4>1
      <4>2. CASE counter # 0 /\ clkCnt = psc
        BY <3>3, <3>4, <3>5, <4>2
      <4>3. CASE counter # 0 /\ clkCnt # psc
        BY <3>4, <3>5, <4>3
      <4> HIDE DEF N, L
      <4> QED BY <4>1, <4>2, <4>3
    <3>7. counter = load => N = L
      OBVIOUS
    <3> HIDE DEF N, L
    <3> QED BY <3>1, <3>2, <3>6, <3>7
  <2>7. T \in Nat /\ T >= 3 /\ T = (IF psc = 0 THEN L + 1 ELSE L)
    <3>1. psc = 0 => L = load
      BY <1>4
    <3>2. T = (IF psc = 0 THEN L + 1 ELSE L)
      <4>1. CASE psc = 0
        BY <3>1, <4>1 DEF TickTimer!Period
      <4>2. CASE psc # 0
        BY <4>2 DEF TickTimer!Period
      <4> QED BY <4>1, <4>2
    <3>3. L \in Nat /\ L >= 2 * psc + 2
      BY <2>6
    <3> HIDE DEF T, L
    <3> QED BY <1>4, <3>2, <3>3
  <2>8. clkCnt <= psc /\ (counter = 0 => clkCnt = 0) /\ (timeup => counter = load /\ clkCnt = FirstLoad)
        /\ (timerSr => phase # None)
    BY <2>1 DEF Running
  <2>9. CASE phase = None
    <3>1. ~timerSr /\ phase' = (IF timerSr' THEN 0 ELSE None)
      BY <1>3, <1>8, <2>8, <2>9
    <3>2. CASE ~timerSr'
      BY <1>1, <1>2, <1>5, <1>8, <2>1, <2>2, <2>3, <2>4, <3>1, <3>2 DEF Moved, TimerInv, TimerTypeOK, Running
    <3>3. CASE timerSr'
      <4>1. ~written' /\ timeup /\ ~timeup' /\ phase' = 0
        BY <1>1, <1>3, <1>4, <3>1, <3>3 DEF Moved
      <4>2. 0 + 2 + counter' * (psc' + 1) = T + clkCnt'
        <5>1. CASE psc = 0
          BY <1>3, <1>4, <1>8, <2>1, <2>5, <2>6, <2>7, <2>8, <4>1, <5>1 DEF FirstLoad
        <5>2. CASE psc # 0
          BY <1>3, <1>4, <1>8, <2>1, <2>5, <2>6, <2>7, <2>8, <4>1, <5>2 DEF FirstLoad
        <5> QED BY <5>1, <5>2
      <4>3. Phased'
        BY <2>2, <2>7, <3>3, <4>1, <4>2 DEF Phased
      <4>4. Running' /\ TimerTypeOK'
        BY <1>1, <1>2, <1>5, <1>8, <2>1, <2>2, <2>3, <2>4, <4>1 DEF Running, Moved, TimerTypeOK
      <4> QED BY <1>1, <1>8, <4>3, <4>4 DEF TimerInv, Moved
    <3> QED BY <1>1, <3>2, <3>3 DEF Moved
  <2>10. CASE phase # None
    <3>1. /\ phase \in Nat /\ phase < T
          /\ timeup => phase + 1 = T
          /\ ~timeup => phase + 2 + N = T + clkCnt
          /\ timerSr => phase = 0 \/ (written /\ phase = 1)
          /\ ~written /\ phase = 0 => timerSr
      BY <2>10 DEF TimerInv, TimerTypeOK, Phased
    <3>2. phase' = (phase + 1) % T
      BY <1>3, <1>8, <2>10
    <3>3. phase' = IF timeup THEN 0 ELSE phase + 1
      <4>1. CASE timeup
        BY <2>7, <3>1, <3>2, <4>1
      <4>2. CASE ~timeup
        <5>1. phase + 1 < T
          BY <1>4, <2>6, <2>7, <2>8, <3>1, <4>2
        <5> HIDE DEF T
        <5> QED BY <2>7, <3>1, <3>2, <4>2, <5>1
      <4> QED BY <4>1, <4>2
    <3>4. timeup' => phase' + 1 = T
      BY <1>3, <1>4, <2>6, <2>7, <2>8, <3>1, <3>3
    <3>5. ~timeup' => phase' + 2 + counter' * (psc' + 1) = T + clkCnt'
      <4> DEFINE M == counter' * (psc' + 1)
      <4>1. M = CASE counter = 0 -> L
                  [] counter # 0 /\ clkCnt = psc -> N - (psc + 1)
                  [] OTHER -> N
        BY <2>6
      <4>2. clkCnt' = IF clkCnt # psc THEN clkCnt + 1 ELSE 0
        BY <1>3, <1>8
      <4>3. timeup' = (~timeup /\ counter = 0)
        BY <1>3, <1>8
      <4> HIDE DEF M, N, L, T
      <4>4. CASE timeup
        <5>1. counter # 0 /\ N = L /\ clkCnt = (IF psc = 0 THEN 0 ELSE 1)
          BY <2>5, <2>6, <2>8, <4>4 DEF FirstLoad
        <5> QED BY <1>4, <2>6, <2>7, <3>1, <3>3, <4>1, <4>2, <4>4, <5>1
      <4>5. CASE ~timeup /\ counter # 0
        BY <1>4, <2>6, <2>7, <2>8, <3>1, <3>3, <4>1, <4>2, <4>5
      <4>6. timeup' \/ timeup \/ (~timeup /\ counter # 0)
        BY <1>4, <4>3
      <4> QED BY <4>4, <4>5, <4>6
    <3>6. timerSr' => phase' = 0 \/ (written' /\ phase' = 1)
      <4>1. CASE ~written'
        BY <1>1, <1>4, <3>3, <4>1 DEF Moved
      <4>2. CASE written'
        BY <1>1, <2>7, <3>1, <3>3, <4>2 DEF Moved
      <4> QED BY <4>1, <4>2
    <3>7. ~written' /\ phase' = 0 => timerSr'
      <4> SUFFICES ASSUME ~written', phase' = 0 PROVE timerSr'
        OBVIOUS
      <4>1. timeup /\ phase + 1 = T
        BY <3>1, <3>3
      <4>2. ~timerSr
        BY <2>7, <3>1, <4>1
      <4> QED BY <1>1, <1>8, <4>1, <4>2 DEF Moved
    <3>8. phase' \in Nat /\ phase' < T
      <4> HIDE DEF T
      <4> QED BY <2>7, <3>1, <3>3, <3>2
    <3>9. Phased'
      BY <2>2, <3>4, <3>5, <3>6, <3>7, <3>8 DEF Phased
    <3>10. Running' /\ TimerTypeOK'
      BY <1>1, <1>2, <1>5, <1>8, <2>1, <2>2, <2>3, <2>4, <3>8 DEF Running, Moved, TimerTypeOK
    <3> QED BY <1>1, <1>8, <3>9, <3>10 DEF TimerInv, Moved
  <2> QED BY <2>9, <2>10
<1> QED BY <1>6, <1>7, <1>8
-----------------------------------------------------------------------------
(* The UART of the SoC *)

\* A bit of the line that a byte goes over: five ones, the start bit, the byte, ones.
Line(b, i) == CASE i = 5 -> 0 [] i = 6 -> b[1] [] i = 7 -> b[2] [] OTHER -> 1

LEMMA LineBits ==
  ASSUME NEW b \in [1..2 -> 0..1]
  PROVE  /\ \A i \in Nat : Line(b, i) \in 0..1
         /\ Line(b, 5) = 0 /\ Line(b, 6) = b[1] /\ Line(b, 7) = b[2]
         /\ \A i \in Nat : i < 5 \/ i > 7 => Line(b, i) = 1
BY DEF Line

LEMMA AByte ==
  ASSUME NEW b \in [1..2 -> 0..1]
  PROVE  b \in Seq(0..1) /\ Len(b) = 2
<1>1. b \in Seq(0..1)
  BY SeqDef
<1>2. DOMAIN b = 1..2 /\ DOMAIN b = 1..Len(b) /\ Len(b) \in Nat
  BY <1>1, LenProperties
<1> QED BY <1>1, <1>2

LEMMA ShiftFacts ==
  ASSUME NEW s \in Seq(0..1), Len(s) >= 1, NEW x \in 0..1
  PROVE  /\ Uart!ShiftIn(s, x) \in Seq(0..1) /\ Len(Uart!ShiftIn(s, x)) = Len(s)
         /\ \A i \in 1..Len(s) :
              Uart!ShiftIn(s, x)[i] = IF i = Len(s) THEN x ELSE s[i + 1]
<1>1. s # <<>> /\ Len(s) \in Nat
  BY EmptySeq
<1>2. /\ Tail(s) \in Seq(0..1) /\ Len(Tail(s)) = Len(s) - 1
      /\ \A i \in 1..Len(Tail(s)) : Tail(s)[i] = s[i + 1]
  BY <1>1, HeadTailProperties
<1> DEFINE t == Tail(s)
           u == Append(t, x)
<1>3. t \in Seq(0..1) /\ Len(t) = Len(s) - 1 /\ \A i \in 1..(Len(s) - 1) : t[i] = s[i + 1]
  BY <1>2
<1>4. Uart!ShiftIn(s, x) = u
  BY DEF Uart!ShiftIn
<1> HIDE DEF t
<1>5. /\ u \in Seq(0..1) /\ Len(u) = Len(t) + 1
      /\ \A i \in 1..Len(t) : u[i] = t[i]
      /\ u[Len(t) + 1] = x
  BY <1>3, AppendProperties
<1> HIDE DEF u
<1>6. ASSUME NEW i \in 1..Len(s)
      PROVE  u[i] = IF i = Len(s) THEN x ELSE s[i + 1]
  BY <1>1, <1>3, <1>5
<1> QED BY <1>1, <1>3, <1>4, <1>5, <1>6

LEMMA FrameFacts ==
  ASSUME NEW b \in [1..2 -> 0..1]
  PROVE  /\ <<0>> \o b \o <<1>> \in Seq(0..1) /\ Len(<<0>> \o b \o <<1>>) = 4
         /\ \A i \in 1..4 : (<<0>> \o b \o <<1>>)[i] = Line(b, 4 + i)
<1>1. b \in Seq(0..1) /\ Len(b) = 2
  BY AByte
<1>2. <<0>> \in Seq(0..1) /\ Len(<<0>>) = 1 /\ <<0>>[1] = 0
  OBVIOUS
<1>3. <<1>> \in Seq(0..1) /\ Len(<<1>>) = 1 /\ <<1>>[1] = 1
  OBVIOUS
<1>4. /\ <<0>> \o b \in Seq(0..1) /\ Len(<<0>> \o b) = 3
      /\ \A i \in 1..3 : (<<0>> \o b)[i] = IF i <= 1 THEN <<0>>[i] ELSE b[i - 1]
  <2> DEFINE z == <<0>>
  <2>1. z \in Seq(0..1) /\ Len(z) = 1
    BY <1>2
  <2> HIDE DEF z
  <2>2. /\ z \o b \in Seq(0..1) /\ Len(z \o b) = 3
        /\ \A i \in 1..3 : (z \o b)[i] = IF i <= 1 THEN z[i] ELSE b[i - 1]
    BY <1>1, <2>1, ConcatProperties
  <2> QED BY <2>2 DEF z
<1>5. /\ <<0>> \o b \o <<1>> \in Seq(0..1) /\ Len(<<0>> \o b \o <<1>>) = 4
      /\ \A i \in 1..4 : (<<0>> \o b \o <<1>>)[i]
                           = IF i <= 3 THEN (<<0>> \o b)[i] ELSE <<1>>[i - 3]
  <2> DEFINE e == <<0>> \o b
             o == <<1>>
  <2>1. e \in Seq(0..1) /\ Len(e) = 3 /\ o \in Seq(0..1) /\ Len(o) = 1
    BY <1>3, <1>4
  <2> HIDE DEF e, o
  <2>2. /\ e \o o \in Seq(0..1) /\ Len(e \o o) = Len(e) + Len(o)
        /\ \A i \in 1..(Len(e) + Len(o)) :
             (e \o o)[i] = IF i <= Len(e) THEN e[i] ELSE o[i - Len(e)]
    BY <2>1, ConcatProperties
  <2>3. /\ e \o o \in Seq(0..1) /\ Len(e \o o) = 4
        /\ \A i \in 1..4 : (e \o o)[i] = IF i <= 3 THEN e[i] ELSE o[i - 3]
    BY <2>1, <2>2
  <2> QED BY <2>3 DEF e, o
<1>6. ASSUME NEW i \in 1..4
      PROVE  (<<0>> \o b \o <<1>>)[i] = Line(b, 4 + i)
  <2> DEFINE f == <<0>> \o b \o <<1>>
             e == <<0>> \o b
             z == <<0>>
             o == <<1>>
  <2>0. /\ z[1] = 0 /\ o[1] = 1
        /\ \A k \in 1..3 : e[k] = IF k <= 1 THEN z[k] ELSE b[k - 1]
        /\ \A k \in 1..4 : f[k] = IF k <= 3 THEN e[k] ELSE o[k - 3]
    BY <1>2, <1>3, <1>4, <1>5
  <2> HIDE DEF f, e, z, o
  <2> SUFFICES f[i] = Line(b, 4 + i)
    BY DEF f
  <2>1. CASE i = 1
    BY <2>0, <2>1 DEF Line
  <2>2. CASE i = 2
    BY <2>0, <2>2 DEF Line
  <2>3. CASE i = 3
    BY <2>0, <2>3 DEF Line
  <2>4. CASE i = 4
    BY <2>0, <2>4 DEF Line
  <2> QED BY <2>1, <2>2, <2>3, <2>4
<1> QED BY <1>5, <1>6

LEMMA SentFrame ==
  ASSUME NEW b \in [1..2 -> 0..1]
  PROVE  LET pipe == Uart!Ones(4) \o <<0>> \o b \o <<1>>
         IN /\ pipe \in Seq(0..1) /\ Len(pipe) = 8
            /\ \A i \in 1..8 : pipe[i] = Line(b, i)
<1> DEFINE ones == Uart!Ones(4)
           front == ones \o <<0>>
           most == front \o b
<1>1. b \in Seq(0..1) /\ Len(b) = 2
  BY AByte
<1>2. <<0>> \in Seq(0..1) /\ Len(<<0>>) = 1 /\ <<0>>[1] = 0
  OBVIOUS
<1>3. <<1>> \in Seq(0..1) /\ Len(<<1>>) = 1 /\ <<1>>[1] = 1
  OBVIOUS
<1>4. ones \in Seq(0..1) /\ Len(ones) = 4 /\ \A i \in 1..4 : ones[i] = 1
  BY DEF Uart!Ones
<1>5. /\ front \in Seq(0..1) /\ Len(front) = 5
      /\ \A i \in 1..5 : front[i] = IF i <= 4 THEN ones[i] ELSE <<0>>[i - 4]
  <2> DEFINE last == <<0>>
  <2>1. last \in Seq(0..1) /\ ones \in Seq(0..1)
    BY <1>2, <1>4
  <2> HIDE DEF ones, last
  <2>2. /\ ones \o last \in Seq(0..1) /\ Len(ones \o last) = Len(ones) + Len(last)
        /\ \A i \in 1..Len(ones) + Len(last) :
             (ones \o last)[i] = IF i <= Len(ones) THEN ones[i] ELSE last[i - Len(ones)]
    BY <2>1, ConcatProperties
  <2> QED BY <1>2, <1>4, <2>2 DEF last
<1>6. /\ most \in Seq(0..1) /\ Len(most) = 7
      /\ \A i \in 1..7 : most[i] = IF i <= 5 THEN front[i] ELSE b[i - 5]
  <2> DEFINE last == b
  <2>1. last \in Seq(0..1) /\ front \in Seq(0..1)
    BY <1>1, <1>5
  <2> HIDE DEF front, last
  <2>2. /\ front \o last \in Seq(0..1) /\ Len(front \o last) = Len(front) + Len(last)
        /\ \A i \in 1..Len(front) + Len(last) :
             (front \o last)[i] = IF i <= Len(front) THEN front[i] ELSE last[i - Len(front)]
    BY <2>1, ConcatProperties
  <2> QED BY <1>1, <1>5, <2>2 DEF last
<1>7. /\ most \o <<1>> \in Seq(0..1) /\ Len(most \o <<1>>) = 8
      /\ \A i \in 1..8 : (most \o <<1>>)[i] = IF i <= 7 THEN most[i] ELSE <<1>>[i - 7]
  <2> DEFINE last == <<1>>
  <2>1. last \in Seq(0..1) /\ most \in Seq(0..1)
    BY <1>3, <1>6
  <2> HIDE DEF most, last
  <2>2. /\ most \o last \in Seq(0..1) /\ Len(most \o last) = Len(most) + Len(last)
        /\ \A i \in 1..Len(most) + Len(last) :
             (most \o last)[i] = IF i <= Len(most) THEN most[i] ELSE last[i - Len(most)]
    BY <2>1, ConcatProperties
  <2> QED BY <1>3, <1>6, <2>2 DEF last
<1> DEFINE all == most \o <<1>>
<1>8. ASSUME NEW i \in 1..8
      PROVE  all[i] = Line(b, i)
  <2> HIDE DEF all, most, front, ones
  <2>1. CASE i <= 4
    BY <1>4, <1>5, <1>6, <1>7, <2>1 DEF Line, all
  <2>2. CASE i = 5
    BY <1>2, <1>5, <1>6, <1>7, <2>2 DEF Line, all
  <2>3. CASE i \in 6..7
    BY <1>6, <1>7, <2>3 DEF Line, all
  <2>4. CASE i = 8
    BY <1>3, <1>7, <2>4 DEF Line, all
  <2> QED BY <2>1, <2>2, <2>3, <2>4
<1> QED BY <1>7, <1>8

\* The flags that a write of the status register clears.
LEMMA FlagBits ==
  ASSUME NEW i \in 0..1, NEW j \in 0..1
  PROVE  LET d == <<i, j>> \o Uart!Ones(0) IN d[1] = i /\ d[2] = j
<1>1. <<i, j>> \in Seq(0..1) /\ Len(<<i, j>>) = 2 /\ <<i, j>>[1] = i /\ <<i, j>>[2] = j
  OBVIOUS
<1>2. Uart!Ones(0) \in Seq(0..1) /\ Len(Uart!Ones(0)) = 0
  BY DEF Uart!Ones
<1>3. \A n \in 1..2 : (<<i, j>> \o Uart!Ones(0))[n]
                        = IF n <= 2 THEN <<i, j>>[n] ELSE Uart!Ones(0)[n - 2]
  BY <1>1, <1>2, ConcatProperties
<1> QED BY <1>1, <1>3
-----------------------------------------------------------------------------
LineTypeOK == wire \in Seq(0..1) /\ wireCnt \in 0..Cycle

\* The rest of the frame on its way in, of n bits.
Coming(n) == Len(wire) = n /\ \A i \in 1..n : wire[i] = Line(unread, 8 - n + i)

\* No frame, or the end of its stop bit.
LineHigh == Len(wire) <= 1 /\ (Len(wire) = 1 => wire[1] = 1)

RxQuiet == rxState = "IDLE" /\ rxCnt = 0 /\ rxPipe[2] = 1

\* The receiver samples a bit half a bit behind its beginning.
Lag == Cycle \div 2 + 2

\* The receiver counts c towards the sample of the bit behind the first of the last n.
Sampling(n) ==
  /\ rxCnt \in 0..Cycle
  /\ \/ Coming(n) /\ wireCnt = Lag + rxCnt
     \/ Coming(n - 1) /\ wireCnt + Cycle + 1 = Lag + rxCnt

Received == unread # None /\ RxQuiet /\ LineHigh /\ sr.rx = 1 /\ rxd = unread

Receives ==
  \/ RxQuiet /\ sr.rx = 0 /\ Coming(4) /\ wireCnt = 0
  \/ /\ rxState = "START" /\ sr.rx = 0 /\ rxCnt \in 0..(Cycle \div 2)
     /\ rxPipe[2] = 1 /\ Coming(4) /\ wireCnt = rxCnt + 1
  \/ rxState = "RUN" /\ sr.rx = 0 /\ Sampling(4) /\ rxPipe[1] = 1 /\ rxPipe[2] = 0
  \/ rxState = "RUN" /\ sr.rx = 0 /\ Sampling(3) /\ rxPipe[1] = 0 /\ rxPipe[2] = unread[1]
  \/ rxState = "END" /\ Sampling(2) /\ rxPipe[1] = unread[1] /\ rxPipe[2] = unread[2]
  \/ Received

PipeOK == rxPipe \in Seq(0..1) /\ Len(rxPipe) = 2
FlagsOK == sr \in [tx : 0..1, rx : 0..1]

LEMMA CycleFacts ==
  ASSUME PartsAssumption
  PROVE  /\ Cycle \in Nat /\ Cycle >= 1
         /\ Cycle \div 2 \in Nat /\ Cycle \div 2 + 1 <= Cycle
         /\ Byte \subseteq [1..2 -> 0..1] /\ None \notin Byte
<1>1. Cycle \in Nat /\ Cycle # 0
  BY DEF PartsAssumption, Uart!UartConstants
<1>2. Cycle \div 2 \in Nat /\ 2 * (Cycle \div 2) <= Cycle
  BY <1>1
<1> QED BY <1>1, <1>2 DEF PartsAssumption, Uart!UartConstants

\* The line as the device drives it.
LEMMA LineStep ==
  ASSUME PartsAssumption, LineTypeOK, Uart!FarSends \/ Uart!FarWaits, unread' = unread
  PROVE  /\ LineTypeOK'
         /\ \A n \in 1..4 : Coming(n) =>
              /\ Uart!padRxd = Line(unread, 9 - n)
              /\ wireCnt < Cycle => Coming(n)' /\ wireCnt' = wireCnt + 1
              /\ wireCnt = Cycle => Coming(n - 1)' /\ wireCnt' = 0
<1>1. Cycle \in Nat /\ Cycle >= 1
  BY CycleFacts
<1>2. wire \in Seq(0..1) /\ wireCnt \in 0..Cycle /\ Len(wire) \in Nat /\ (wire = <<>> <=> Len(wire) = 0)
  BY EmptySeq, LenProperties DEF LineTypeOK
<1>3. CASE wire = <<>>
  <2>1. wire' = wire /\ wireCnt' = wireCnt /\ Uart!padRxd = 1
    BY <1>3 DEF Uart!FarSends, Uart!FarWaits, Uart!padRxd
  <2>2. \A n \in 1..4 : ~Coming(n)
    BY <1>2, <1>3 DEF Coming
  <2> QED BY <2>1, <2>2 DEF LineTypeOK
<1>4. CASE wire # <<>>
  <2>1. /\ wireCnt' = (wireCnt + 1) % (Cycle + 1)
        /\ wire' = IF wireCnt = Cycle THEN Tail(wire) ELSE wire
    BY <1>4 DEF Uart!FarSends, Uart!FarWaits
  <2>2. wireCnt' = IF wireCnt = Cycle THEN 0 ELSE wireCnt + 1
    BY <1>1, <1>2, <2>1
  <2>3. /\ Tail(wire) \in Seq(0..1) /\ Len(Tail(wire)) = Len(wire) - 1
        /\ \A i \in 1..(Len(wire) - 1) : Tail(wire)[i] = wire[i + 1]
    BY <1>2, <1>4, HeadTailProperties
  <2>4. Uart!padRxd = wire[1]
    BY <1>2, <1>4 DEF Uart!padRxd
  <2>5. LineTypeOK'
    BY <1>1, <1>2, <2>1, <2>2, <2>3 DEF LineTypeOK
  <2>6. ASSUME NEW n \in 1..4, Coming(n)
        PROVE  /\ Uart!padRxd = Line(unread, 9 - n)
               /\ wireCnt < Cycle => Coming(n)' /\ wireCnt' = wireCnt + 1
               /\ wireCnt = Cycle => Coming(n - 1)' /\ wireCnt' = 0
    <3>1. Len(wire) = n /\ \A i \in 1..n : wire[i] = Line(unread, 8 - n + i)
      BY <2>6 DEF Coming
    <3>2. Uart!padRxd = Line(unread, 9 - n)
      <4>1. 1 \in 1..n /\ 8 - n + 1 = 9 - n
        OBVIOUS
      <4> QED BY <2>4, <3>1, <4>1
    <3>3. wireCnt < Cycle => Coming(n)' /\ wireCnt' = wireCnt + 1
      BY <1>1, <1>2, <2>1, <2>2, <2>6 DEF Coming
    <3>4. ASSUME wireCnt = Cycle PROVE Coming(n - 1)'
      <4> DEFINE t == Tail(wire)
      <4>1. wire' = t /\ Len(t) = n - 1 /\ \A i \in 1..(n - 1) : t[i] = wire[i + 1]
        BY <2>1, <2>3, <3>1, <3>4
      <4> HIDE DEF t
      <4>2. ASSUME NEW i \in 1..(n - 1) PROVE t[i] = Line(unread, 8 - (n - 1) + i)
        <5>1. i + 1 \in 1..n /\ 8 - (n - 1) + i = 8 - n + (i + 1)
          OBVIOUS
        <5>2. t[i] = Line(unread, 8 - n + (i + 1))
          BY <3>1, <4>1, <5>1
        <5> QED BY <5>1, <5>2
      <4> QED BY <4>1, <4>2 DEF Coming
    <3> QED BY <2>2, <3>2, <3>3, <3>4
  <2> QED BY <2>5, <2>6
<1> QED BY <1>3, <1>4

LEMMA LineQuiet ==
  ASSUME PartsAssumption, LineTypeOK, LineHigh, Uart!FarSends \/ Uart!FarWaits
  PROVE  LineTypeOK' /\ LineHigh' /\ Uart!padRxd = 1
<1>1. Cycle \in Nat /\ Cycle >= 1
  BY CycleFacts
<1>2. wire \in Seq(0..1) /\ wireCnt \in 0..Cycle /\ Len(wire) \in Nat /\ (wire = <<>> <=> Len(wire) = 0)
  BY EmptySeq, LenProperties DEF LineTypeOK
<1>3. CASE wire = <<>>
  <2>1. wire' = wire /\ wireCnt' = wireCnt /\ Uart!padRxd = 1
    BY <1>3 DEF Uart!FarSends, Uart!FarWaits, Uart!padRxd
  <2> QED BY <2>1 DEF LineTypeOK, LineHigh
<1>4. CASE wire # <<>>
  <2>1. /\ wireCnt' = (wireCnt + 1) % (Cycle + 1)
        /\ wire' = IF wireCnt = Cycle THEN Tail(wire) ELSE wire
    BY <1>4 DEF Uart!FarSends, Uart!FarWaits
  <2>2. wireCnt' = IF wireCnt = Cycle THEN 0 ELSE wireCnt + 1
    BY <1>1, <1>2, <2>1
  <2>3. Tail(wire) \in Seq(0..1) /\ Len(Tail(wire)) = Len(wire) - 1
    BY <1>2, <1>4, HeadTailProperties
  <2>4. Uart!padRxd = wire[1]
    BY <1>2, <1>4 DEF Uart!padRxd
  <2> QED BY <1>1, <1>2, <2>1, <2>2, <2>3, <2>4 DEF LineTypeOK, LineHigh
<1> QED BY <1>3, <1>4

LEMMA PipeStep ==
  ASSUME PipeOK, NEW x \in 0..1
  PROVE  LET p == Uart!ShiftIn(rxPipe, x)
         IN p \in Seq(0..1) /\ Len(p) = 2 /\ p[1] = rxPipe[2] /\ p[2] = x
<1>1. rxPipe \in Seq(0..1) /\ Len(rxPipe) = 2 /\ Len(rxPipe) >= 1
  BY DEF PipeOK
<1>2. /\ Uart!ShiftIn(rxPipe, x) \in Seq(0..1) /\ Len(Uart!ShiftIn(rxPipe, x)) = Len(rxPipe)
      /\ \A i \in 1..Len(rxPipe) :
           Uart!ShiftIn(rxPipe, x)[i] = IF i = Len(rxPipe) THEN x ELSE rxPipe[i + 1]
  BY <1>1, ShiftFacts
<1> QED BY <1>1, <1>2

LEMMA SamplingStep ==
  ASSUME PartsAssumption, LineTypeOK, Uart!FarSends \/ Uart!FarWaits, unread' = unread,
         NEW n \in 2..4, Sampling(n)
  PROVE  /\ rxCnt < Cycle /\ rxCnt' = rxCnt + 1 => Sampling(n)'
         /\ rxCnt = Cycle => Uart!padRxd = Line(unread, 10 - n)
         /\ rxCnt = Cycle /\ rxCnt' = 0 => Sampling(n - 1)'
<1>1. /\ Cycle \in Nat /\ Cycle >= 1 /\ Lag \in Nat /\ Lag >= 2 /\ Lag <= Cycle + 1
      /\ wireCnt \in 0..Cycle /\ rxCnt \in 0..Cycle /\ Lag' = Lag
  BY CycleFacts DEF LineTypeOK, Sampling, Lag
<1>2. CASE Coming(n) /\ wireCnt = Lag + rxCnt
  <2>1. rxCnt < Cycle
    BY <1>1, <1>2
  <2>2. /\ wireCnt < Cycle => Coming(n)' /\ wireCnt' = wireCnt + 1
        /\ wireCnt = Cycle => Coming(n - 1)' /\ wireCnt' = 0
    BY <1>2, LineStep
  <2>3. ASSUME rxCnt' = rxCnt + 1 PROVE Sampling(n)'
    <3>1. CASE wireCnt < Cycle
      <4>1. Coming(n)' /\ wireCnt' = Lag + rxCnt' /\ rxCnt' \in 0..Cycle
        BY <1>1, <1>2, <2>1, <2>2, <2>3, <3>1
      <4> QED BY <1>1, <4>1 DEF Sampling
    <3>2. CASE wireCnt = Cycle
      <4>1. Coming(n - 1)' /\ wireCnt' + Cycle + 1 = Lag + rxCnt' /\ rxCnt' \in 0..Cycle
        BY <1>1, <1>2, <2>1, <2>2, <2>3, <3>2
      <4> QED BY <1>1, <4>1 DEF Sampling
    <3> QED BY <1>1, <3>1, <3>2
  <2> QED BY <1>1, <2>1, <2>3
<1>3. CASE Coming(n - 1) /\ wireCnt + Cycle + 1 = Lag + rxCnt
  <2>1. n - 1 \in 1..4 /\ 9 - (n - 1) = 10 - n /\ (n - 1) - 1 = n - 2
    OBVIOUS
  <2>2. /\ Uart!padRxd = Line(unread, 10 - n)
        /\ wireCnt < Cycle => Coming(n - 1)' /\ wireCnt' = wireCnt + 1
        /\ wireCnt = Cycle => Coming(n - 2)' /\ wireCnt' = 0
    <3> DEFINE m == n - 1
    <3>1. m \in 1..4 /\ 9 - m = 10 - n /\ m - 1 = n - 2 /\ Coming(m)
      BY <1>3, <2>1
    <3> HIDE DEF m
    <3>2. /\ Uart!padRxd = Line(unread, 9 - m)
          /\ wireCnt < Cycle => Coming(m)' /\ wireCnt' = wireCnt + 1
          /\ wireCnt = Cycle => Coming(m - 1)' /\ wireCnt' = 0
      BY <3>1, LineStep
    <3>3. m = n - 1
      BY DEF m
    <3> QED BY <3>1, <3>2, <3>3
  <2>3. ASSUME rxCnt < Cycle, rxCnt' = rxCnt + 1 PROVE Sampling(n)'
    <3>1. wireCnt < Cycle
      BY <1>1, <1>3, <2>3
    <3>2. Coming(n - 1)' /\ wireCnt' + Cycle + 1 = Lag + rxCnt' /\ rxCnt' \in 0..Cycle
      BY <1>1, <1>3, <2>2, <2>3, <3>1
    <3> QED BY <1>1, <3>2 DEF Sampling
  <2>4. ASSUME rxCnt = Cycle, rxCnt' = 0 PROVE Sampling(n - 1)'
    <3>1. wireCnt + 1 = Lag
      BY <1>1, <1>3, <2>4
    <3>2. CASE wireCnt < Cycle
      <4>1. Coming(n - 1)' /\ wireCnt' = Lag + rxCnt' /\ rxCnt' \in 0..Cycle
        BY <1>1, <2>2, <2>4, <3>1, <3>2
      <4> QED BY <1>1, <4>1 DEF Sampling
    <3>3. CASE wireCnt = Cycle
      <4>1. Coming((n - 1) - 1)' /\ wireCnt' + Cycle + 1 = Lag + rxCnt' /\ rxCnt' \in 0..Cycle
        BY <1>1, <2>1, <2>2, <2>4, <3>1, <3>3
      <4> QED BY <1>1, <4>1 DEF Sampling
    <3> QED BY <1>1, <3>2, <3>3
  <2> QED BY <2>2, <2>3, <2>4
<1> QED BY <1>2, <1>3 DEF Sampling

\* The receiver's registers, in a clock without a write.
RxRegisters ==
  /\ FlagsOK'
  /\ rxState = "END" => sr'.rx = 1 /\ rxd' = rxPipe
  /\ rxState # "END" => sr'.rx = sr.rx /\ rxd' = rxd

LEMMA RxQuietStep ==
  ASSUME PartsAssumption, PipeOK, RxQuiet, Uart!Receiver, Uart!padRxd = 1
  PROVE  RxQuiet' /\ PipeOK'
<1>1. ~Uart!rxTimeup
  BY CycleFacts DEF RxQuiet, Uart!rxTimeup
<1> QED BY <1>1 DEF RxQuiet, Uart!Receiver, Uart!RxState, PipeOK

LEMMA ReceivedStep ==
  ASSUME PartsAssumption, LineTypeOK, PipeOK, Received, Uart!Receiver,
         Uart!FarSends \/ Uart!FarWaits, unread' = unread, RxRegisters
  PROVE  Received' /\ PipeOK'
<1>1. Uart!padRxd = 1 /\ LineHigh'
  BY LineQuiet DEF Received
<1>2. RxQuiet' /\ PipeOK'
  BY <1>1, RxQuietStep DEF Received
<1>3. sr'.rx = 1 /\ rxd' = unread
  BY DEF Received, RxQuiet, RxRegisters
<1> QED BY <1>1, <1>2, <1>3 DEF Received

LEMMA RxStep ==
  ASSUME PartsAssumption, LineTypeOK, PipeOK, unread # None, unread \in [1..2 -> 0..1], Receives,
         Uart!Receiver, Uart!FarSends \/ Uart!FarWaits, unread' = unread, RxRegisters
  PROVE  Receives' /\ PipeOK'
<1>1. /\ Cycle \in Nat /\ Cycle >= 1 /\ Cycle \div 2 \in Nat /\ Cycle \div 2 + 1 <= Cycle
      /\ wireCnt \in 0..Cycle
  BY CycleFacts DEF LineTypeOK
<1>2. /\ \A i \in Nat : Line(unread, i) \in 0..1
      /\ Line(unread, 5) = 0 /\ Line(unread, 6) = unread[1] /\ Line(unread, 7) = unread[2]
      /\ \A i \in Nat : i < 5 \/ i > 7 => Line(unread, i) = 1
  BY LineBits
<1>3. ASSUME Uart!padRxd \in 0..1, Uart!rxTimeup, rxState \in {"START", "RUN"}
      PROVE  PipeOK' /\ rxPipe'[1] = rxPipe[2] /\ rxPipe'[2] = Uart!padRxd
  BY <1>3, PipeStep DEF Uart!Receiver, PipeOK
<1>4. ASSUME ~(Uart!rxTimeup /\ rxState \in {"START", "RUN"})
      PROVE  PipeOK' /\ (~Uart!rxTimeup => rxPipe' = rxPipe)
  <2>1. Uart!Ones(2) \in Seq(0..1) /\ Len(Uart!Ones(2)) = 2
    BY DEF Uart!Ones
  <2>2. CASE Uart!rxTimeup /\ rxState \in {"IDLE", "END"}
    BY <2>1, <2>2 DEF Uart!Receiver, PipeOK
  <2>3. CASE ~(Uart!rxTimeup /\ rxState \in {"IDLE", "END"})
    BY <1>4, <2>3 DEF Uart!Receiver, PipeOK
  <2> QED BY <2>2, <2>3
<1>5. CASE RxQuiet /\ sr.rx = 0 /\ Coming(4) /\ wireCnt = 0
  <2>1. Uart!padRxd = 0 /\ Coming(4)' /\ wireCnt' = 1
    BY <1>1, <1>2, <1>5, LineStep
  <2>2. rxState = "IDLE" /\ rxState' = "START" /\ rxCnt' = 0 /\ ~Uart!rxTimeup
    BY <1>1, <1>5, <2>1 DEF RxQuiet, Uart!Receiver, Uart!RxState, Uart!rxTimeup
  <2>3. PipeOK' /\ rxPipe' = rxPipe /\ sr'.rx = 0
    BY <1>4, <1>5, <2>2 DEF RxRegisters
  <2> QED BY <1>1, <1>5, <2>1, <2>2, <2>3 DEF Receives, RxQuiet
<1>6. CASE /\ rxState = "START" /\ sr.rx = 0 /\ rxCnt \in 0..(Cycle \div 2)
           /\ rxPipe[2] = 1 /\ Coming(4) /\ wireCnt = rxCnt + 1
  <2>1. /\ Uart!padRxd = 0 /\ sr'.rx = 0
        /\ wireCnt < Cycle => Coming(4)' /\ wireCnt' = wireCnt + 1
        /\ wireCnt = Cycle => Coming(3)' /\ wireCnt' = 0
    BY <1>2, <1>6, LineStep DEF RxRegisters
  <2>2. CASE rxCnt < Cycle \div 2
    <3>1. rxState' = "START" /\ rxCnt' = rxCnt + 1 /\ ~Uart!rxTimeup
      BY <1>1, <1>6, <2>2 DEF Uart!Receiver, Uart!RxState, Uart!rxTimeup
    <3>2. Coming(4)' /\ wireCnt' = rxCnt' + 1 /\ rxCnt' \in 0..(Cycle \div 2)
      BY <1>1, <1>6, <2>1, <2>2, <3>1
    <3> QED BY <1>4, <1>6, <2>1, <3>1, <3>2 DEF Receives
  <2>3. CASE rxCnt = Cycle \div 2
    <3>1. rxState' = "RUN" /\ rxCnt' = 0 /\ Uart!rxTimeup
      BY <1>1, <1>6, <2>1, <2>3 DEF Uart!Receiver, Uart!RxState, Uart!rxTimeup
    <3>2. PipeOK' /\ rxPipe'[1] = 1 /\ rxPipe'[2] = 0
      BY <1>3, <1>6, <2>1, <3>1
    <3>3. Sampling(4)'
      <4>1. CASE wireCnt < Cycle
        BY <1>1, <1>6, <2>1, <2>3, <3>1, <4>1 DEF Sampling, Lag
      <4>2. CASE wireCnt = Cycle
        <5>1. Coming(4 - 1)' /\ wireCnt' + Cycle + 1 = Lag' + rxCnt' /\ rxCnt' \in 0..Cycle
          BY <1>1, <1>6, <2>1, <2>3, <3>1, <4>2 DEF Lag
        <5> QED BY <5>1 DEF Sampling
      <4> QED BY <1>1, <4>1, <4>2
    <3> QED BY <2>1, <3>1, <3>2, <3>3 DEF Receives
  <2> QED BY <1>1, <1>6, <2>2, <2>3
<1>7. ASSUME NEW n \in 2..4, Sampling(n), rxState \in {"RUN", "END"}
      PROVE  /\ rxCnt < Cycle => /\ ~Uart!rxTimeup /\ rxState' = rxState /\ Sampling(n)'
                                /\ rxPipe' = rxPipe /\ PipeOK'
             /\ rxCnt = Cycle => /\ Uart!rxTimeup /\ Uart!padRxd = Line(unread, 10 - n)
                                /\ Sampling(n - 1)' /\ rxCnt' = 0
             /\ rxCnt < Cycle \/ rxCnt = Cycle
  <2>1. rxCnt \in 0..Cycle
    BY <1>7 DEF Sampling
  <2>2. Uart!rxTimeup <=> rxCnt = Cycle
    BY <1>7 DEF Uart!rxTimeup
  <2>3. rxCnt' = IF rxCnt = Cycle THEN 0 ELSE rxCnt + 1
    BY <1>7, <2>2 DEF Uart!Receiver
  <2>4. ~Uart!rxTimeup => rxState' = rxState
    BY <1>7 DEF Uart!Receiver, Uart!RxState
  <2>5. rxCnt < Cycle => Sampling(n)'
    BY <1>1, <1>7, <2>1, <2>3, SamplingStep
  <2>6. rxCnt = Cycle => Uart!padRxd = Line(unread, 10 - n) /\ Sampling(n - 1)'
    BY <1>1, <1>7, <2>1, <2>3, SamplingStep
  <2>7. rxCnt < Cycle => ~Uart!rxTimeup
    BY <1>1, <2>1, <2>2
  <2>8. rxCnt < Cycle \/ rxCnt = Cycle
    BY <1>1, <2>1
  <2> QED BY <1>4, <2>2, <2>3, <2>4, <2>5, <2>6, <2>7, <2>8
<1>8. CASE rxState = "RUN" /\ sr.rx = 0 /\ Sampling(4) /\ rxPipe[1] = 1 /\ rxPipe[2] = 0
  <2>1. sr'.rx = 0
    BY <1>8 DEF RxRegisters
  <2>2. CASE rxCnt < Cycle
    BY <1>7, <1>8, <2>1, <2>2 DEF Receives
  <2>3. CASE rxCnt = Cycle
    <3>1. Uart!rxTimeup /\ Uart!padRxd = unread[1] /\ Sampling(3)' /\ rxCnt' = 0
      BY <1>2, <1>7, <1>8, <2>3
    <3>2. rxState' = "RUN"
      BY <1>8 DEF Uart!Receiver, Uart!RxState
    <3>3. PipeOK' /\ rxPipe'[1] = 0 /\ rxPipe'[2] = unread[1]
      BY <1>3, <1>8, <3>1
    <3> QED BY <2>1, <3>1, <3>2, <3>3 DEF Receives
  <2> QED BY <1>7, <1>8, <2>2, <2>3
<1>9. CASE rxState = "RUN" /\ sr.rx = 0 /\ Sampling(3) /\ rxPipe[1] = 0 /\ rxPipe[2] = unread[1]
  <2>1. sr'.rx = 0
    BY <1>9 DEF RxRegisters
  <2>2. CASE rxCnt < Cycle
    BY <1>7, <1>9, <2>1, <2>2 DEF Receives
  <2>3. CASE rxCnt = Cycle
    <3>1. Uart!rxTimeup /\ Uart!padRxd = unread[2] /\ Sampling(2)' /\ rxCnt' = 0
      BY <1>2, <1>7, <1>9, <2>3
    <3>2. rxState' = "END"
      BY <1>9, <3>1 DEF Uart!Receiver, Uart!RxState
    <3>3. PipeOK' /\ rxPipe'[1] = unread[1] /\ rxPipe'[2] = unread[2]
      BY <1>3, <1>9, <3>1
    <3> QED BY <3>1, <3>2, <3>3 DEF Receives
  <2> QED BY <1>7, <1>9, <2>2, <2>3
<1>10. CASE rxState = "END" /\ Sampling(2) /\ rxPipe[1] = unread[1] /\ rxPipe[2] = unread[2]
  <2>1. sr'.rx = 1 /\ rxd' = rxPipe
    BY <1>10 DEF RxRegisters
  <2>2. CASE rxCnt < Cycle
    BY <1>7, <1>10, <2>2 DEF Receives
  <2>3. CASE rxCnt = Cycle
    <3>1. Uart!rxTimeup /\ Sampling(1)' /\ rxCnt' = 0
      BY <1>7, <1>10, <2>3
    <3>2. rxState' = "IDLE" /\ PipeOK'
      BY <1>4, <1>10, <3>1 DEF Uart!Receiver, Uart!RxState
    <3>5. rxPipe'[2] = 1
      BY <1>10, <3>1 DEF Uart!Receiver, Uart!Ones
    <3>3. rxPipe = unread
      BY <1>10 DEF PipeOK
    <3>4. LineHigh'
      <4>1. Coming(1)' \/ Coming(0)'
        BY <3>1 DEF Sampling
      <4>2. Line(unread, 8) = 1
        BY <1>2
      <4> QED BY <4>1, <4>2 DEF Coming, LineHigh
    <3> QED BY <2>1, <3>1, <3>2, <3>3, <3>4, <3>5 DEF Receives, Received, RxQuiet
  <2> QED BY <1>7, <1>10, <2>2, <2>3
<1>11. CASE Received
  BY <1>11, ReceivedStep DEF Receives
<1> QED BY <1>5, <1>6, <1>8, <1>9, <1>10, <1>11 DEF Receives
-----------------------------------------------------------------------------
TxQuiet == txState = "IDLE" /\ ~txStart

\* The transmitter has shifted n bits of the line, and n bits have been on the line.
Shifted(n) == txPipe \in Seq(0..1) /\ Len(txPipe) = 8 /\ \A i \in 1..8 : txPipe[i] = Line(byte, n + i)
SentBits(n) == sent \in Seq(0..1) /\ Len(sent) = n /\ \A i \in 1..n : sent[i] = Line(byte, 4 + i)

Transmitted == TxQuiet /\ sr.tx = 1 /\ SentBits(5)

Transmits ==
  \/ txState \in {"IDLE", "START"} /\ txStart /\ sr.tx = 0 /\ SentBits(0)
  \/ /\ txState = "RUN" /\ sr.tx = 0
     /\ \E n \in 0..4 : Shifted(n) /\ SentBits(n)
     /\ txStart => txCnt = 0
  \/ txState = "END" /\ ~txStart /\ SentBits(5)
  \/ Transmitted

\* The transmitter's registers, in a clock without a write.
TxRegisters ==
  /\ FlagsOK' /\ txd' = txd
  /\ txState = "END" => sr'.tx = 1
  /\ txState # "END" => sr'.tx = sr.tx

LEMMA TransmittedStep ==
  ASSUME Transmitted, TxRegisters, Uart!Sent, byte' = byte, NEW a, Uart!Transmitter(a), ~a.we
  PROVE  Transmitted'
<1>1. txState' = "IDLE" /\ txStart' = FALSE
  BY DEF Uart!Transmitter, Uart!TxStart, Uart!TxState, Transmitted, TxQuiet
<1>2. sent' = sent /\ sr'.tx = 1
  BY DEF Uart!Sent, TxRegisters, Transmitted, TxQuiet
<1>3. SentBits(5)'
  BY <1>2 DEF SentBits, Transmitted
<1> QED BY <1>1, <1>2, <1>3 DEF Transmitted, TxQuiet

LEMMA TxStep ==
  ASSUME PartsAssumption, txCnt \in 0..Cycle, txStart \in BOOLEAN, byte # None, byte \in [1..2 -> 0..1],
         txd = byte, Transmits, TxRegisters, Uart!Sent, byte' = byte,
         NEW a, Uart!Transmitter(a), ~a.we
  PROVE  Transmits' /\ txCnt' \in 0..Cycle /\ txStart' \in BOOLEAN
<1>1. Cycle \in Nat /\ Cycle >= 1
  BY CycleFacts
<1>2. /\ \A i \in Nat : Line(byte, i) \in 0..1
      /\ Line(byte, 5) = 0
      /\ \A i \in Nat : i < 5 \/ i > 7 => Line(byte, i) = 1
  BY LineBits
<1>3. txCnt' = (IF txCnt = Cycle THEN 0 ELSE txCnt + 1) /\ (Uart!txTimeup <=> txCnt = Cycle)
  BY DEF Uart!Transmitter, Uart!txTimeup
<1>4. txCnt' \in 0..Cycle
  BY <1>1, <1>3
<1>5. txStart' = (txState # "RUN" /\ txStart)
  <2>1. CASE txState = "IDLE"
    BY <2>1 DEF Uart!Transmitter, Uart!TxStart
  <2>2. CASE txState # "IDLE"
    BY <2>2 DEF Uart!Transmitter, Uart!TxStart
  <2> QED BY <2>1, <2>2
<1>6. Uart!TxState
  BY DEF Uart!Transmitter
<1>7. CASE txState = "IDLE" /\ txStart /\ sr.tx = 0 /\ SentBits(0)
  <2>1. txState' \in {"IDLE", "START"}
    BY <1>6, <1>7 DEF Uart!TxState
  <2>2. sent' = sent /\ txStart' = TRUE /\ sr'.tx = 0
    BY <1>5, <1>7 DEF Uart!Sent, TxRegisters
  <2> QED BY <1>4, <1>7, <2>1, <2>2 DEF Transmits, SentBits
<1>8. CASE txState = "START" /\ txStart /\ sr.tx = 0 /\ SentBits(0)
  <2>1. sent' = sent /\ txStart' = TRUE /\ sr'.tx = 0
    BY <1>5, <1>8 DEF Uart!Sent, TxRegisters
  <2>2. CASE txCnt # Cycle
    <3>1. txState' = "START"
      BY <1>3, <1>6, <1>8, <2>2 DEF Uart!TxState
    <3> QED BY <1>4, <1>8, <2>1, <3>1 DEF Transmits, SentBits
  <2>3. CASE txCnt = Cycle
    <3>1. txState' = "RUN" /\ txCnt' = 0
      BY <1>3, <1>6, <1>8, <2>3 DEF Uart!TxState
    <3>2. txPipe' = Uart!Ones(4) \o <<0>> \o byte \o <<1>>
      BY <1>3, <1>8, <2>3 DEF Uart!Transmitter
    <3>3. Shifted(0)'
      <4> DEFINE p == Uart!Ones(4) \o <<0>> \o byte \o <<1>>
      <4>1. p \in Seq(0..1) /\ Len(p) = 8 /\ \A i \in 1..8 : p[i] = Line(byte, i)
        BY SentFrame
      <4>2. txPipe' = p
        BY <3>2
      <4> HIDE DEF p
      <4>3. \A i \in 1..8 : 0 + i = i
        OBVIOUS
      <4> QED BY <4>1, <4>2, <4>3 DEF Shifted
    <3>4. SentBits(0)'
      BY <1>8, <2>1 DEF SentBits
    <3> QED BY <1>4, <2>1, <3>1, <3>3, <3>4 DEF Transmits
  <2> QED BY <2>2, <2>3
<1>9. ASSUME txState = "RUN", sr.tx = 0, NEW n \in 0..4, Shifted(n), SentBits(n),
             txStart => txCnt = 0
      PROVE  Transmits' /\ txCnt' \in 0..Cycle /\ txStart' \in BOOLEAN
  <2>1. txStart' = FALSE /\ sr'.tx = 0
    BY <1>5, <1>9 DEF TxRegisters
  <2>2. CASE txCnt # Cycle
    <3>1. txState' = "RUN" /\ txPipe' = txPipe /\ sent' = sent
      BY <1>3, <1>6, <1>9, <2>2 DEF Uart!TxState, Uart!Transmitter, Uart!Sent
    <3>2. Shifted(n)' /\ SentBits(n)'
      BY <1>9, <3>1 DEF Shifted, SentBits
    <3> QED BY <1>4, <2>1, <3>1, <3>2 DEF Transmits
  <2>3. CASE txCnt = Cycle
    <3>1. ~txStart
      BY <1>1, <1>9, <2>3
    <3>2. /\ txPipe' = Uart!ShiftIn(txPipe, 1) /\ sent' = Append(sent, txPipe[5])
          /\ txState' = IF txPipe[1] = 0 THEN "END" ELSE "RUN"
      BY <1>3, <1>6, <1>9, <2>3, <3>1 DEF Uart!TxState, Uart!Transmitter, Uart!Sent, Uart!padTxd
    <3>3. txPipe[1] = Line(byte, n + 1) /\ txPipe[5] = Line(byte, 5 + n) /\ txPipe[5] \in 0..1
      BY <1>2, <1>9 DEF Shifted
    <3>4. SentBits(n + 1)'
      <4> DEFINE s == Append(sent, txPipe[5])
      <4>1. /\ s \in Seq(0..1) /\ Len(s) = Len(sent) + 1
            /\ \A i \in 1..Len(sent) : s[i] = sent[i]
            /\ s[Len(sent) + 1] = txPipe[5]
        BY <1>9, <3>3, AppendProperties DEF SentBits
      <4>2. sent' = s
        BY <3>2
      <4> HIDE DEF s
      <4>3. ASSUME NEW i \in 1..(n + 1) PROVE s[i] = Line(byte, 4 + i)
        <5>1. CASE i <= n
          BY <1>9, <4>1, <5>1 DEF SentBits
        <5>2. CASE i = n + 1
          <6>1. 4 + i = 5 + n
            BY <5>2
          <6> QED BY <1>9, <3>3, <4>1, <5>2, <6>1 DEF SentBits
        <5> QED BY <5>1, <5>2
      <4> QED BY <1>9, <4>1, <4>2, <4>3 DEF SentBits
    <3>5. CASE n = 4
      <4>1. txState' = "END"
        BY <1>2, <3>2, <3>3, <3>5
      <4>2. SentBits(5)'
        BY <3>4, <3>5 DEF SentBits
      <4> QED BY <1>4, <2>1, <4>1, <4>2 DEF Transmits
    <3>6. CASE n < 4
      <4>1. txState' = "RUN"
        BY <1>2, <3>2, <3>3, <3>6
      <4>2. Shifted(n + 1)'
        <5> DEFINE p == Uart!ShiftIn(txPipe, 1)
        <5>1. /\ p \in Seq(0..1) /\ Len(p) = Len(txPipe)
              /\ \A i \in 1..Len(txPipe) : p[i] = IF i = Len(txPipe) THEN 1 ELSE txPipe[i + 1]
          <6>1. txPipe \in Seq(0..1) /\ Len(txPipe) >= 1 /\ 1 \in 0..1
            BY <1>9 DEF Shifted
          <6> QED BY <6>1, ShiftFacts
        <5>2. txPipe' = p
          BY <3>2
        <5> HIDE DEF p
        <5>3. ASSUME NEW i \in 1..8 PROVE p[i] = Line(byte, (n + 1) + i)
          <6>1. CASE i = 8
            BY <1>2, <1>9, <5>1, <6>1 DEF Shifted
          <6>2. CASE i < 8
            <7>1. i + 1 \in 1..8 /\ n + (i + 1) = (n + 1) + i
              BY <6>2
            <7>2. p[i] = txPipe[i + 1] /\ txPipe[i + 1] = Line(byte, n + (i + 1))
              BY <1>9, <5>1, <6>2, <7>1 DEF Shifted
            <7> QED BY <7>1, <7>2
          <6> QED BY <6>1, <6>2
        <5> QED BY <1>9, <5>1, <5>2, <5>3 DEF Shifted
      <4>3. n + 1 \in 0..4
        BY <3>6
      <4> QED BY <1>4, <2>1, <3>4, <4>1, <4>2, <4>3 DEF Transmits
    <3> QED BY <3>5, <3>6
  <2> QED BY <2>2, <2>3
<1>10. CASE txState = "END" /\ ~txStart /\ SentBits(5)
  <2>1. txState' = (IF txCnt = Cycle THEN "IDLE" ELSE "END") /\ txStart' = FALSE
    BY <1>3, <1>5, <1>6, <1>10 DEF Uart!TxState
  <2>2. sent' = sent /\ sr'.tx = 1
    BY <1>10 DEF Uart!Sent, TxRegisters
  <2>3. SentBits(5)'
    BY <1>10, <2>2 DEF SentBits
  <2> QED BY <1>4, <2>1, <2>2, <2>3 DEF Transmits, Transmitted, TxQuiet
<1>11. CASE Transmitted
  BY <1>4, <1>5, <1>11, TransmittedStep DEF Transmits
<1> QED BY <1>7, <1>8, <1>9, <1>10, <1>11 DEF Transmits
-----------------------------------------------------------------------------
UartInv ==
  /\ LineTypeOK /\ PipeOK /\ FlagsOK /\ txCnt \in 0..Cycle /\ txStart \in BOOLEAN
  /\ byte = None => TxQuiet /\ sr.tx = 0 /\ op \in {"run", "look", "clear"}
  /\ byte # None => /\ byte \in Byte /\ txd = byte /\ Transmits /\ op \in {"poll", "polled"}
                    /\ unread = None /\ wire = <<>>
  /\ unread = None => RxQuiet /\ LineHigh /\ sr.rx = 0
  /\ unread # None => unread \in Byte /\ Receives
  /\ op = "look" /\ data[2] = 1 => Received
  /\ op = "clear" => Received /\ data = unread
  /\ op = "polled" /\ data[1] = 1 => Transmitted

LEMMA UartStart ==
  ASSUME PartsAssumption, Uart!Init
  PROVE  UartInv
<1>1. Cycle \in Nat /\ None \notin Byte
  BY CycleFacts
<1>2. /\ txCnt = 0 /\ txState = "IDLE" /\ txStart = FALSE /\ rxCnt = 0 /\ rxState = "IDLE"
      /\ rxPipe = Uart!Ones(2) /\ sr = [tx |-> 0, rx |-> 0] /\ op = "run" /\ byte = None
      /\ wire = <<>> /\ wireCnt = 0 /\ unread = None
  BY DEF Uart!Init
<1>3. PipeOK /\ rxPipe[2] = 1
  BY <1>2 DEF Uart!Ones, PipeOK
<1>4. LineTypeOK /\ LineHigh /\ FlagsOK
  BY <1>1, <1>2, EmptySeq DEF LineTypeOK, LineHigh, FlagsOK
<1>5. TxQuiet /\ sr.tx = 0 /\ sr.rx = 0 /\ RxQuiet /\ op = "run" /\ byte = None /\ unread = None
  BY <1>2, <1>3 DEF TxQuiet, RxQuiet
<1>6. txCnt \in 0..Cycle /\ txStart \in BOOLEAN
  <2>1. txCnt = 0 /\ txStart = FALSE
    BY <1>2
  <2>2. txCnt \in 0..Cycle
    BY <1>1, <2>1
  <2> QED BY <2>1, <2>2
<1> QED BY <1>3, <1>4, <1>5, <1>6 DEF UartInv

\* The core does not send: the transmitter is quiet, and the receiver goes on.
LEMMA Listening ==
  ASSUME PartsAssumption, UartInv, byte = None, byte' = None, NEW a, Uart!Uart(a),
         a.we \in BOOLEAN, ~(a.we /\ a.addr = "TXD"),
         a.we => Received /\ a.addr = "SR" /\ a.data[1] = 0 /\ a.data[2] = 1
  PROVE  /\ FlagsOK' /\ TxQuiet' /\ sr'.tx = 0 /\ txCnt' \in 0..Cycle /\ txStart' \in BOOLEAN
         /\ ~a.we => RxRegisters
         /\ a.we => sr'.rx = 0
<1>1. txState = "IDLE" /\ txStart = FALSE /\ sr.tx = 0 /\ FlagsOK /\ txCnt \in 0..Cycle
  BY DEF UartInv, TxQuiet
<1>2. Cycle \in Nat /\ Cycle >= 1
  BY CycleFacts
<1>3. txCnt' \in 0..Cycle /\ txStart' = FALSE /\ txState' = "IDLE"
  <2>1. Uart!Transmitter(a)
    BY DEF Uart!Uart
  <2>2. txCnt' = IF txCnt = Cycle THEN 0 ELSE txCnt + 1
    BY <2>1 DEF Uart!Transmitter, Uart!txTimeup
  <2>3. txStart' = (txStart \/ (a.we /\ a.addr = "TXD"))
    BY <1>1, <2>1 DEF Uart!Transmitter, Uart!TxStart
  <2>4. txState' = "IDLE"
    BY <1>1, <2>1 DEF Uart!Transmitter, Uart!TxState
  <2>5. txCnt' \in 0..Cycle
    BY <1>1, <1>2, <2>2
  <2> QED BY <1>1, <2>3, <2>4, <2>5
<1>4. Uart!Registers(a)
  BY DEF Uart!Uart
<1>5. CASE rxState = "END"
  <2>1. ~a.we
    BY <1>5 DEF Received, RxQuiet
  <2>2. rxd' = rxPipe /\ sr' = [tx |-> IF a.addr = "SR" THEN Uart!Cleared(sr.tx, a.data[1]) ELSE sr.tx, rx |-> 1]
    BY <1>1, <1>4, <1>5 DEF Uart!Registers
  <2>3. sr' = [tx |-> 0, rx |-> 1]
    BY <1>1, <2>2 DEF Uart!Cleared
  <2>4. FlagsOK' /\ sr'.tx = 0 /\ sr'.rx = 1
    BY <2>3 DEF FlagsOK
  <2> QED BY <1>3, <1>5, <2>1, <2>2, <2>4 DEF TxQuiet, RxRegisters
<1>6. CASE rxState # "END" /\ ~a.we
  <2>1. rxd' = rxd /\ sr' = sr
    BY <1>1, <1>4, <1>6 DEF Uart!Registers
  <2> QED BY <1>1, <1>3, <1>6, <2>1 DEF TxQuiet, FlagsOK, RxRegisters
<1>7. CASE rxState # "END" /\ a.we
  <2>1. sr' = [tx |-> Uart!Cleared(sr.tx, a.data[1]), rx |-> Uart!Cleared(sr.rx, a.data[2])]
    BY <1>1, <1>4, <1>7 DEF Uart!Registers
  <2>2. sr' = [tx |-> 0, rx |-> 0]
    BY <1>1, <1>7, <2>1 DEF Uart!Cleared
  <2>3. FlagsOK' /\ sr'.tx = 0 /\ sr'.rx = 0
    BY <2>2 DEF FlagsOK
  <2> QED BY <1>3, <1>7, <2>3 DEF TxQuiet
<1> QED BY <1>5, <1>6, <1>7

\* The core sends: the receiver is quiet, and the transmitter goes on.
LEMMA Sending ==
  ASSUME PartsAssumption, UartInv, byte # None, byte' = byte, NEW a, Uart!Uart(a), ~a.we, Uart!Sent
  PROVE  /\ FlagsOK' /\ Transmits' /\ txd' = byte /\ sr'.rx = 0
         /\ txCnt' \in 0..Cycle /\ txStart' \in BOOLEAN
         /\ Transmitted => Transmitted'
<1>1. /\ byte \in [1..2 -> 0..1] /\ rxState = "IDLE" /\ sr.rx = 0 /\ FlagsOK /\ txd = byte /\ Transmits
      /\ txCnt \in 0..Cycle /\ txStart \in BOOLEAN
  BY CycleFacts DEF UartInv, RxQuiet
<1>2. Uart!Registers(a) /\ Uart!Transmitter(a)
  BY DEF Uart!Uart
<1>3. TxRegisters /\ sr'.rx = 0
  <2>1. CASE txState = "END"
    <3>1. /\ txd' = txd
          /\ sr' = [tx |-> 1, rx |-> IF a.addr = "SR" THEN Uart!Cleared(sr.rx, a.data[2]) ELSE sr.rx]
      BY <1>2, <2>1 DEF Uart!Registers
    <3>2. sr' = [tx |-> 1, rx |-> 0]
      BY <1>1, <3>1 DEF Uart!Cleared
    <3>3. FlagsOK' /\ sr'.tx = 1 /\ sr'.rx = 0
      BY <3>2 DEF FlagsOK
    <3> QED BY <2>1, <3>1, <3>3 DEF TxRegisters
  <2>2. CASE txState # "END"
    <3>1. txd' = txd /\ sr' = sr
      BY <1>1, <1>2, <2>2 DEF Uart!Registers
    <3> QED BY <1>1, <2>2, <3>1 DEF TxRegisters, FlagsOK
  <2> QED BY <2>1, <2>2
<1>4. Transmits' /\ txCnt' \in 0..Cycle /\ txStart' \in BOOLEAN
  BY <1>1, <1>2, <1>3, TxStep
<1>5. Transmitted => Transmitted'
  BY <1>2, <1>3, TransmittedStep
<1> QED BY <1>1, <1>3, <1>4, <1>5 DEF TxRegisters

\* A line that stays high leaves the receiver quiet.
LEMMA Silence ==
  ASSUME PartsAssumption, LineTypeOK, PipeOK, RxQuiet, LineHigh, Uart!Receiver,
         Uart!FarSends \/ Uart!FarWaits
  PROVE  LineTypeOK' /\ LineHigh' /\ RxQuiet' /\ PipeOK'
BY LineQuiet, RxQuietStep

\* A frame begins.
LEMMA Begins ==
  ASSUME PartsAssumption, UartInv, Uart!Receiver, NEW b \in Byte, Uart!FarStarts(b), unread' = b,
         sr'.rx = 0
  PROVE  /\ unread = None /\ byte' = None /\ LineTypeOK' /\ PipeOK'
         /\ unread' # None /\ unread' \in Byte /\ Receives'
<1>1. /\ unread = None /\ byte' = None /\ wire = <<>> /\ wireCnt' = 0
      /\ wire' = <<0>> \o b \o <<1>> /\ Cycle \in Nat /\ b \in [1..2 -> 0..1] /\ b # None
  BY CycleFacts DEF Uart!FarStarts
<1>2. RxQuiet' /\ PipeOK'
  BY <1>1, RxQuietStep DEF UartInv, Uart!padRxd
<1>3. LineTypeOK' /\ Coming(4)'
  <2> DEFINE f == <<0>> \o b \o <<1>>
  <2>1. f \in Seq(0..1) /\ Len(f) = 4 /\ \A i \in 1..4 : f[i] = Line(b, 4 + i)
    BY <1>1, FrameFacts
  <2>2. wire' = f
    BY <1>1
  <2> HIDE DEF f
  <2>3. \A i \in 1..4 : 8 - 4 + i = 4 + i
    OBVIOUS
  <2>4. LineTypeOK'
    <3>1. wireCnt' \in 0..Cycle
      BY <1>1
    <3> QED BY <2>1, <2>2, <3>1 DEF LineTypeOK
  <2> QED BY <2>1, <2>2, <2>3, <2>4 DEF Coming
<1> QED BY <1>1, <1>2, <1>3 DEF Receives

LEMMA FarStep ==
  ASSUME UartInv, Uart!Clock
  PROVE  \/ /\ Uart!FarSends \/ Uart!FarWaits
            /\ unread' = IF op = "clear" /\ op' = "run" THEN None ELSE unread
         \/ \E b \in Byte : Uart!FarStarts(b) /\ unread' = b
BY DEF Uart!Clock, Uart!Reads

\* What is in the register of the device that the core has just read.
LEMMA ReadsFlags ==
  ASSUME NEW a, Uart!Uart(a), a.rd, a.addr = "SR"
  PROVE  /\ data'[1] = 1 => txState = "IDLE" /\ sr.tx = 1
         /\ data'[2] = 1 => rxState = "IDLE" /\ sr.rx = 1
<1>1. data' = <<Uart!Flag(txState = "IDLE", sr.tx), Uart!Flag(rxState = "IDLE", sr.rx)>>
  BY DEF Uart!Uart, Uart!Data
<1> QED BY <1>1 DEF Uart!Flag

LEMMA ReadsByte ==
  ASSUME NEW a, Uart!Uart(a)
  PROVE  /\ ~a.rd => data' = data
         /\ a.rd /\ a.addr = "RXD" => data' = rxd
<1>1. Uart!Data(a)
  BY DEF Uart!Uart
<1> QED BY <1>1 DEF Uart!Data

\* What the driver does in a clock.
Reading(a) ==
  /\ ~(a.we /\ a.addr = "TXD") /\ a.we \in BOOLEAN
  /\ \/ ~a.we /\ ~a.rd /\ op' = op
     \/ ~a.we /\ a.rd /\ a.addr = "SR" /\ op = "run" /\ op' = "look"
     \/ ~a.we /\ ~a.rd /\ op = "look" /\ op' = "run"
     \/ ~a.we /\ a.rd /\ a.addr = "RXD" /\ op = "look" /\ op' = "clear" /\ data[2] = 1
     \/ a.we /\ a.addr = "SR" /\ a.data[1] = 0 /\ a.data[2] = 1 /\ op = "clear" /\ op' = "run"

Polling(a) ==
  /\ ~a.we
  /\ \/ ~a.rd /\ op' = op
     \/ a.rd /\ a.addr = "SR" /\ op \in {"poll", "polled"} /\ op' = "polled"

\* What a clock may do to the registers: a read, a poll, or one of the writes of the driver.
LEMMA DriverMoves ==
  ASSUME PartsAssumption, UartInv, Uart!Clock
  PROVE  \/ \E a : byte = None /\ byte' = None /\ Uart!Uart(a) /\ Reading(a)
         \/ \E a : byte # None /\ byte' = byte /\ Uart!Uart(a) /\ Polling(a) /\ Uart!Sent
         \/ \E b \in Byte : Uart!SendWrite(b)
         \/ Uart!SendClear
<1>1. CASE Uart!Elsewhere
  <2>1. PICK a : /\ Uart!Uart(a) /\ a.we = FALSE /\ a.rd = FALSE
                 /\ Uart!Sent /\ op' = op /\ byte' = byte
    BY <1>1 DEF Uart!Elsewhere, Uart!NoAccess, Uart!Other
  <2> QED BY <2>1 DEF Reading, Polling
<1>2. CASE Uart!SendPoll \/ Uart!SendPollAgain
  <2>1. PICK a : /\ Uart!Uart(a) /\ a.we = FALSE /\ a.rd = TRUE /\ a.addr = "SR"
                 /\ Uart!Sent /\ op \in {"poll", "polled"} /\ op' = "polled" /\ byte' = byte
    BY <1>2 DEF Uart!SendPoll, Uart!SendPollAgain, Uart!Core, Uart!Read
  <2> QED BY <2>1 DEF Polling, UartInv
<1>3. CASE Uart!ReadPoll
  <2>1. PICK a : /\ Uart!Uart(a) /\ a.we = FALSE /\ a.rd = TRUE /\ a.addr = "SR"
                 /\ op = "run" /\ op' = "look" /\ byte' = byte
    BY <1>3 DEF Uart!ReadPoll, Uart!Core, Uart!Read
  <2> QED BY <2>1 DEF Reading, UartInv
<1>4. CASE Uart!ReadNothing
  <2>1. PICK a : /\ Uart!Uart(a) /\ a.we = FALSE /\ a.rd = FALSE
                 /\ op = "look" /\ op' = "run" /\ byte' = byte
    BY <1>4 DEF Uart!ReadNothing, Uart!Core, Uart!NoAccess, Uart!Other
  <2> QED BY <2>1 DEF Reading, UartInv
<1>5. CASE Uart!ReadData
  <2>1. PICK a : /\ Uart!Uart(a) /\ a.we = FALSE /\ a.rd = TRUE /\ a.addr = "RXD" /\ data[2] = 1
                 /\ op = "look" /\ op' = "clear" /\ byte' = byte
    BY <1>5 DEF Uart!ReadData, Uart!Core, Uart!Read
  <2> QED BY <2>1 DEF Reading, UartInv
<1>6. CASE Uart!ReadClear
  <2> DEFINE d == <<0, 1>> \o Uart!Ones(0)
  <2>1. d[1] = 0 /\ d[2] = 1
    BY FlagBits
  <2>2. Uart!Core("clear", "run", Uart!Write("SR", d)) /\ byte' = byte
    BY <1>6 DEF Uart!ReadClear
  <2> HIDE DEF d
  <2>3. PICK a : /\ Uart!Uart(a) /\ a.we = TRUE /\ a.addr = "SR" /\ a.data = d
                 /\ op = "clear" /\ op' = "run" /\ byte' = byte
    BY <2>2 DEF Uart!Core, Uart!Write
  <2> QED BY <2>1, <2>3 DEF Reading, UartInv
<1> QED BY <1>1, <1>2, <1>3, <1>4, <1>5, <1>6 DEF Uart!Clock

\* What a clock leaves of the invariant when the core does not send.
LEMMA ReadingStep ==
  ASSUME PartsAssumption, UartInv, Uart!Clock, NEW a, byte = None, byte' = None,
         Uart!Uart(a), Reading(a)
  PROVE  UartInv'
<1>1. /\ LineTypeOK /\ PipeOK /\ op \in {"run", "look", "clear"}
      /\ unread = None => RxQuiet /\ LineHigh /\ sr.rx = 0
      /\ unread # None => unread \in Byte /\ unread \in [1..2 -> 0..1] /\ Receives
      /\ op = "look" /\ data[2] = 1 => Received
      /\ op = "clear" => Received /\ data = unread
  BY CycleFacts DEF UartInv
<1>2. Uart!Receiver
  BY DEF Uart!Uart
<1>3. Received => unread # None
  BY DEF Received
<1>4. a.we => Received /\ a.addr = "SR" /\ a.data[1] = 0 /\ a.data[2] = 1
  BY <1>1 DEF Reading
<1>5. /\ FlagsOK' /\ TxQuiet' /\ sr'.tx = 0 /\ txCnt' \in 0..Cycle /\ txStart' \in BOOLEAN
      /\ ~a.we => RxRegisters
      /\ a.we => sr'.rx = 0
  BY <1>4, Listening DEF Reading
<1>6. op' \in {"run", "look", "clear"} /\ op' # "poll" /\ op' # "polled"
  BY <1>1 DEF Reading
<1>7. /\ op' = "look" /\ data'[2] = 1 =>
           \/ Received
           \/ rxState = "IDLE" /\ sr.rx = 1
      /\ op' = "clear" => Received /\ data' = unread
  <2>1. CASE ~a.rd /\ op' = op
    BY <1>1, <2>1, ReadsByte
  <2>2. CASE a.rd /\ a.addr = "SR" /\ op' = "look"
    BY <2>2, ReadsFlags
  <2>3. CASE a.rd /\ a.addr = "RXD" /\ op = "look" /\ op' = "clear" /\ data[2] = 1
    BY <1>1, <2>3, ReadsByte DEF Received
  <2>4. CASE op' = "run"
    BY <2>4
  <2> QED BY <2>1, <2>2, <2>3, <2>4 DEF Reading
<1>8. Receives /\ rxState = "IDLE" /\ sr.rx = 1 => Received
  BY DEF Receives
<1>9. CASE unread = None
  <2>1. ~a.we
    BY <1>3, <1>4, <1>9
  <2>2. sr'.rx = 0
    BY <1>1, <1>5, <1>9, <2>1 DEF RxRegisters, RxQuiet
  <2>3. op' # "clear" /\ ~(op' = "look" /\ data'[2] = 1)
    BY <1>1, <1>3, <1>7, <1>9
  <2>4. CASE \E b \in Byte : Uart!FarStarts(b) /\ unread' = b
    <3>1. LineTypeOK' /\ PipeOK' /\ unread' # None /\ unread' \in Byte /\ Receives'
      BY <1>2, <2>2, <2>4, Begins
    <3> QED BY <1>5, <1>6, <2>3, <3>1 DEF UartInv
  <2>5. CASE Uart!FarSends \/ Uart!FarWaits
    <3>1. LineTypeOK' /\ LineHigh' /\ RxQuiet' /\ PipeOK'
      BY <1>1, <1>2, <1>9, <2>5, Silence
    <3>2. unread' = None
      BY <1>9, <2>5, FarStep DEF Uart!FarStarts, Uart!FarSends, Uart!FarWaits
    <3> QED BY <1>5, <1>6, <2>2, <2>3, <3>1, <3>2 DEF UartInv
  <2> QED BY <2>4, <2>5, FarStep
<1>10. CASE unread # None
  <2>1. /\ Uart!FarSends \/ Uart!FarWaits
        /\ unread' = IF op = "clear" /\ op' = "run" THEN None ELSE unread
    BY <1>10, FarStep DEF Uart!FarStarts
  <2>2. CASE a.we
    <3>1. unread' = None /\ op' = "run" /\ sr'.rx = 0
      BY <1>5, <2>1, <2>2 DEF Reading
    <3>2. LineTypeOK' /\ LineHigh' /\ RxQuiet' /\ PipeOK'
      BY <1>1, <1>2, <1>4, <2>1, <2>2, Silence DEF Received
    <3> QED BY <1>5, <1>6, <3>1, <3>2 DEF UartInv
  <2>3. CASE ~a.we
    <3>1. unread' = unread /\ RxRegisters
      BY <1>5, <2>1, <2>3 DEF Reading
    <3>2. Receives' /\ PipeOK'
      BY <1>1, <1>2, <1>10, <2>1, <3>1, RxStep
    <3>3. Received => Received'
      BY <1>1, <1>2, <2>1, <3>1, ReceivedStep
    <3>4. LineTypeOK'
      BY <1>1, <2>1, <3>1, LineStep
    <3>5. op' = "look" /\ data'[2] = 1 => Received'
      BY <1>1, <1>7, <1>8, <1>10, <3>3
    <3>6. op' = "clear" => Received' /\ data' = unread'
      BY <1>7, <3>1, <3>3
    <3> QED BY <1>1, <1>5, <1>6, <1>10, <3>1, <3>2, <3>4, <3>5, <3>6 DEF UartInv
  <2> QED BY <1>4, <2>2, <2>3 DEF Reading
<1> QED BY <1>9, <1>10

LEMMA PollingStep ==
  ASSUME PartsAssumption, UartInv, Uart!Clock, NEW a, byte # None, byte' = byte,
         Uart!Uart(a), Polling(a), Uart!Sent
  PROVE  UartInv'
<1>1. /\ LineTypeOK /\ PipeOK /\ byte \in Byte /\ unread = None /\ wire = <<>> /\ RxQuiet /\ LineHigh
      /\ Transmits /\ op \in {"poll", "polled"}
  BY DEF UartInv
<1>2. /\ FlagsOK' /\ Transmits' /\ txd' = byte /\ sr'.rx = 0
      /\ txCnt' \in 0..Cycle /\ txStart' \in BOOLEAN
      /\ Transmitted => Transmitted'
  BY Sending DEF Polling
<1>3. Uart!FarWaits /\ unread' = None /\ wire' = <<>>
  <2>1. ~\E b \in Byte : Uart!FarStarts(b)
    BY DEF Uart!FarStarts
  <2> QED BY <1>1, <2>1, FarStep DEF Uart!FarSends, Uart!FarWaits
<1>4. LineTypeOK' /\ LineHigh' /\ RxQuiet' /\ PipeOK'
  BY <1>1, <1>3, Silence DEF Uart!Uart
<1>5. op' \in {"poll", "polled"}
  BY <1>1 DEF Polling
<1>6. ASSUME op' = "polled", data'[1] = 1 PROVE Transmitted
  <2>1. CASE ~a.rd /\ op' = op
    BY <1>6, <2>1, ReadsByte DEF UartInv
  <2>2. CASE a.rd /\ a.addr = "SR"
    <3>1. txState = "IDLE" /\ sr.tx = 1
      BY <1>6, <2>2, ReadsFlags
    <3> QED BY <1>1, <3>1 DEF Transmits
  <2> QED BY <2>1, <2>2 DEF Polling
<1> QED BY <1>1, <1>2, <1>3, <1>4, <1>5, <1>6 DEF UartInv

LEMMA WritingStep ==
  ASSUME PartsAssumption, UartInv, Uart!Clock, NEW b \in Byte, Uart!SendWrite(b)
  PROVE  UartInv'
<1>1. /\ wire = <<>> /\ unread = None /\ op = "run" /\ op' = "poll" /\ byte' = b /\ sent' = <<>>
      /\ Uart!Uart(Uart!Write("TXD", b)) /\ b # None
  BY CycleFacts DEF Uart!SendWrite, Uart!Core
<1>2. /\ LineTypeOK /\ PipeOK /\ RxQuiet /\ LineHigh /\ sr.rx = 0 /\ FlagsOK
      /\ TxQuiet /\ sr.tx = 0 /\ txCnt \in 0..Cycle /\ txStart = FALSE
  BY <1>1 DEF UartInv, TxQuiet
<1>3. PICK a : /\ Uart!Uart(a) /\ a.we = TRUE /\ a.addr = "TXD" /\ a.data = b
  BY <1>1 DEF Uart!Write
<1>4. Uart!FarWaits /\ unread' = None /\ wire' = <<>>
  <2>1. ~\E d \in Byte : Uart!FarStarts(d)
    BY <1>1 DEF Uart!FarStarts
  <2> QED BY <1>1, <2>1, FarStep DEF Uart!FarSends, Uart!FarWaits
<1>5. LineTypeOK' /\ LineHigh' /\ RxQuiet' /\ PipeOK'
  BY <1>2, <1>3, <1>4, Silence DEF Uart!Uart
<1>6. txd' = b /\ sr' = sr
  BY <1>2, <1>3 DEF Uart!Uart, Uart!Registers, TxQuiet, RxQuiet
<1>7. txStart' = TRUE /\ txState' = "IDLE" /\ txCnt' \in 0..Cycle
  <2>1. Uart!Transmitter(a)
    BY <1>3 DEF Uart!Uart
  <2>2. txCnt' = IF txCnt = Cycle THEN 0 ELSE txCnt + 1
    BY <2>1 DEF Uart!Transmitter, Uart!txTimeup
  <2>3. txCnt' \in 0..Cycle
    BY <1>2, <2>2, CycleFacts
  <2>4. txStart' = TRUE
    BY <1>2, <1>3, <2>1 DEF Uart!Transmitter, Uart!TxStart, TxQuiet
  <2>5. txState' = "IDLE"
    BY <1>2, <2>1 DEF Uart!Transmitter, Uart!TxState, TxQuiet
  <2> QED BY <2>3, <2>4, <2>5
<1>8. SentBits(0)'
  BY <1>1, EmptySeq DEF SentBits
<1>9. Transmits' /\ FlagsOK' /\ sr'.rx = 0
  BY <1>2, <1>6, <1>7, <1>8 DEF Transmits, FlagsOK
<1> QED BY <1>1, <1>4, <1>5, <1>6, <1>7, <1>9 DEF UartInv

LEMMA ClearingStep ==
  ASSUME PartsAssumption, UartInv, Uart!Clock, Uart!SendClear
  PROVE  UartInv'
<1> DEFINE d == <<1, 0>> \o Uart!Ones(0)
<1>1. d[1] = 1 /\ d[2] = 0
  BY FlagBits
<1>2. /\ op = "polled" /\ op' = "run" /\ byte' = None /\ data[1] = 1
      /\ Uart!Uart(Uart!Write("SR", d))
  BY DEF Uart!SendClear, Uart!Core
<1> HIDE DEF d
<1>3. PICK a : Uart!Uart(a) /\ a.we = TRUE /\ a.addr = "SR" /\ a.data[1] = 1 /\ a.data[2] = 0
  BY <1>1, <1>2 DEF Uart!Write
<1>4. /\ LineTypeOK /\ PipeOK /\ RxQuiet /\ LineHigh /\ sr.rx = 0 /\ FlagsOK /\ unread = None
      /\ Transmitted /\ TxQuiet /\ txCnt \in 0..Cycle
  BY <1>2 DEF UartInv, Transmitted
<1>5. sr'.tx = 0 /\ sr'.rx = 0 /\ FlagsOK'
  <2>1. sr' = [tx |-> Uart!Cleared(sr.tx, a.data[1]), rx |-> Uart!Cleared(sr.rx, a.data[2])]
    BY <1>3, <1>4 DEF Uart!Uart, Uart!Registers, TxQuiet, RxQuiet
  <2>2. sr' = [tx |-> 0, rx |-> 0]
    BY <1>3, <1>4, <2>1 DEF Uart!Cleared
  <2> QED BY <2>2 DEF FlagsOK
<1>6. TxQuiet' /\ txStart' \in BOOLEAN /\ txCnt' \in 0..Cycle
  <2>1. Uart!Transmitter(a)
    BY <1>3 DEF Uart!Uart
  <2>2. txCnt' = IF txCnt = Cycle THEN 0 ELSE txCnt + 1
    BY <2>1 DEF Uart!Transmitter, Uart!txTimeup
  <2>3. txCnt' \in 0..Cycle
    BY <1>4, <2>2, CycleFacts
  <2>4. txStart = FALSE
    BY <1>4 DEF UartInv, TxQuiet
  <2>5. txStart' = FALSE
    BY <1>3, <1>4, <2>1, <2>4 DEF Uart!Transmitter, Uart!TxStart, TxQuiet
  <2>6. txState' = "IDLE"
    BY <1>4, <2>1 DEF Uart!Transmitter, Uart!TxState, TxQuiet
  <2> QED BY <2>3, <2>5, <2>6 DEF TxQuiet
<1>7. Uart!Receiver
  BY <1>3 DEF Uart!Uart
<1>8. CASE \E b \in Byte : Uart!FarStarts(b) /\ unread' = b
  <2>1. LineTypeOK' /\ PipeOK' /\ unread' # None /\ unread' \in Byte /\ Receives'
    BY <1>5, <1>7, <1>8, Begins
  <2> QED BY <1>2, <1>5, <1>6, <2>1 DEF UartInv
<1>9. CASE Uart!FarSends \/ Uart!FarWaits
  <2>1. LineTypeOK' /\ LineHigh' /\ RxQuiet' /\ PipeOK'
    BY <1>4, <1>7, <1>9, Silence
  <2>2. unread' = None
    BY <1>2, <1>4, <1>9, FarStep DEF Uart!FarStarts, Uart!FarSends, Uart!FarWaits
  <2> QED BY <1>2, <1>5, <1>6, <2>1, <2>2 DEF UartInv
<1> QED BY <1>8, <1>9, FarStep

LEMMA UartStep ==
  ASSUME PartsAssumption, UartInv, Uart!Clock
  PROVE  UartInv'
BY DriverMoves, ReadingStep, PollingStep, WritingStep, ClearingStep

LEMMA UartSays ==
  ASSUME PartsAssumption, UartInv
  PROVE  Uart!ReceivedFlagged /\ Uart!ReadsWhatCame /\ Uart!SentWhole
<1>1. Uart!ReceivedFlagged
  <2> SUFFICES ASSUME unread # None, wire = <<>>, rxState = "IDLE" PROVE sr.rx = 1
    BY DEF Uart!ReceivedFlagged
  <2>1. Receives /\ Len(wire) = 0
    BY EmptySeq DEF UartInv
  <2> QED BY <2>1 DEF Receives, Coming, Received
<1>2. Uart!ReadsWhatCame
  BY DEF Uart!ReadsWhatCame, UartInv
<1>3. Uart!SentWhole
  <2> SUFFICES ASSUME op = "polled", data[1] = 1
               PROVE  Len(sent) >= 4 /\ SubSeq(sent, 1, 4) = <<0>> \o byte \o <<1>>
    BY DEF Uart!SentWhole
  <2>1. byte \in [1..2 -> 0..1] /\ SentBits(5)
    BY CycleFacts DEF UartInv, Transmitted
  <2> DEFINE f == <<0>> \o byte \o <<1>>
             s == SubSeq(sent, 1, 4)
  <2>2. f \in Seq(0..1) /\ Len(f) = 4 /\ \A i \in 1..4 : f[i] = Line(byte, 4 + i)
    BY <2>1, FrameFacts
  <2>3. /\ sent \in Seq(0..1) /\ Len(sent) = 5 /\ \A i \in 1..5 : sent[i] = Line(byte, 4 + i)
    BY <2>1 DEF SentBits
  <2>6. ASSUME NEW i \in 1..4 PROVE sent[i] \in 0..1
    BY <2>1, <2>3, LineBits
  <2>4. s \in Seq(0..1) /\ Len(s) = 4 /\ \A i \in 1..4 : s[i] = sent[i]
    <3>1. /\ s \in Seq(0..1) /\ Len(s) = (IF 1 <= 4 THEN 4 - 1 + 1 ELSE 0)
          /\ \A i \in 1..(4 - 1 + 1) : s[i] = sent[1 + i - 1]
      BY <2>6, SubSeqProperties
    <3>2. \A i \in 1..4 : 1 + i - 1 = i
      OBVIOUS
    <3> HIDE DEF s
    <3> QED BY <3>1, <3>2
  <2> HIDE DEF f, s
  <2>5. s = f
    BY <2>2, <2>3, <2>4, SeqEqual
  <2> QED BY <2>3, <2>5 DEF f, s
<1> QED BY <1>1, <1>2, <1>3
-----------------------------------------------------------------------------
(* Loads and stores *)

LEMMA SizesDiffer ==
  /\ Memory!ByteSize # Memory!HalfSize /\ Memory!ByteSize # Memory!WordSize
  /\ Memory!HalfSize # Memory!WordSize
  /\ Memory!ByteSize \union {} = Memory!ByteSize /\ Memory!HalfSize \union {} = Memory!HalfSize
  /\ {} \union Memory!ByteSize = Memory!ByteSize /\ {} \union Memory!HalfSize = Memory!HalfSize
  /\ Memory!WordSize = {}
<1>1. "byte" # "half"
  OBVIOUS
<1> QED BY <1>1 DEF Memory!ByteSize, Memory!HalfSize, Memory!WordSize

\* The size and the address of an access that is aligned.
Aligned(f) ==
  \/ f.size = Memory!ByteSize /\ f.at \in 0..3
  \/ f.size = Memory!HalfSize /\ f.at \in {0, 2}
  \/ f.size = Memory!WordSize /\ f.at = 0

MemInv ==
  /\ tcm \in Memory!Word /\ memory = tcm
  /\ memEx = Memory!Bubble \/ memEx \in Memory!HighMuls
       \/ (memEx.op = "load" /\ Aligned(memEx) /\ memEx.unsigned \in BOOLEAN)
       \/ (memEx.op = "store" /\ Aligned(memEx) /\ memEx.data \in Memory!Word /\ copied = Memory!Bubble)
  /\ copied.op = "load" => /\ Aligned(copied) /\ copied.unsigned \in BOOLEAN /\ memEx = Memory!Bubble
                           /\ douta \in Memory!Word /\ loaded = Memory!LoadedFrom(douta, copied)
  /\ copied = Memory!Bubble \/ copied \in Memory!HighMuls \/ (copied.op \in {"load", "store"} /\ memEx = Memory!Bubble)

LEMMA FunctionKinds ==
  /\ Memory!Bubble.op = "other" /\ Memory!Bubble.size = {} /\ Memory!Bubble.unsigned = FALSE
  /\ \A f \in Memory!HighMuls : f.op = "mul"
  /\ \A f \in Memory!LoadFuncs : f.op = "load" /\ f.unsigned \in BOOLEAN /\ f.size \in Memory!Sizes
  /\ \A f \in Memory!StoreFuncs : f.op = "store" /\ f.data \in Memory!Word /\ f.size \in Memory!Sizes
<1>1. Memory!Bubble.op = "other" /\ Memory!Bubble.size = {} /\ Memory!Bubble.unsigned = FALSE
  BY DEF Memory!Bubble, Memory!Func, Memory!WordSize
<1>2. \A f \in Memory!HighMuls : f.op = "mul"
  BY DEF Memory!HighMuls, Memory!Func
<1>3. \A f \in Memory!LoadFuncs : f.op = "load" /\ f.unsigned \in BOOLEAN /\ f.size \in Memory!Sizes
  BY DEF Memory!LoadFuncs, Memory!Func
<1>4. \A f \in Memory!StoreFuncs : f.op = "store" /\ f.data \in Memory!Word /\ f.size \in Memory!Sizes
  BY DEF Memory!StoreFuncs, Memory!Func
<1> QED BY <1>1, <1>2, <1>3, <1>4

LEMMA ExtentFacts ==
  ASSUME NEW f, Aligned(f)
  PROVE  /\ f.size = Memory!ByteSize => Memory!Extent(f) = {f.at}
         /\ f.size = Memory!HalfSize => Memory!Extent(f) = {f.at, f.at + 1}
         /\ f.size = Memory!WordSize => Memory!Extent(f) = 0..3
         /\ f.at \in 0..3
<1>1. f.at \in 0..3 /\ (f.size = Memory!WordSize => f.at = 0)
  BY SizesDiffer DEF Aligned
<1>2. CASE f.size = Memory!ByteSize
  <2>1. Memory!Extent(f) = f.at .. f.at + 0
    BY <1>2, SizesDiffer DEF Memory!Extent
  <2> QED BY <1>1, <1>2, <2>1, SizesDiffer
<1>3. CASE f.size = Memory!HalfSize
  <2>1. Memory!Extent(f) = f.at .. f.at + 1
    BY <1>3, SizesDiffer DEF Memory!Extent
  <2> QED BY <1>1, <1>3, <2>1, SizesDiffer
<1>4. CASE f.size = Memory!WordSize
  <2>1. Memory!Extent(f) = f.at .. f.at + 3
    BY <1>4, SizesDiffer DEF Memory!Extent
  <2> QED BY <1>1, <1>4, <2>1, SizesDiffer
<1> QED BY <1>1, <1>2, <1>3, <1>4

LEMMA StoreRight ==
  ASSUME memEx.op = "store", Aligned(memEx), memEx.data \in Memory!Word, copied.size = {},
         tcm \in Memory!Word
  PROVE  Memory!Written = Memory!StoredTo(tcm, memEx) /\ Memory!Written \in Memory!Word
<1> DEFINE f == memEx
<1>1. Memory!SubopSize = f.size /\ Memory!MemAddr = f.at
  BY SizesDiffer DEF Memory!SubopSize, Memory!MemAddr, Memory!MemEn, Aligned
<1>2. f.at \in 0..3 /\ f.data \in [0..3 -> 0..1] /\ tcm \in [0..3 -> 0..1]
  BY SizesDiffer DEF Aligned, Memory!Word, Memory!Lane
<1>3. ASSUME NEW i \in 0..3
      PROVE  (IF i \in Memory!AddrMask THEN Memory!StoreData[i] ELSE tcm[i])
               = IF i \in Memory!Extent(f) THEN f.data[i - f.at] ELSE tcm[i]
  <2>1. CASE f.size = Memory!ByteSize
    <3>1. Memory!Extent(f) = {f.at} /\ Memory!AddrMask = {f.at}
      BY <1>1, <1>2, <2>1, ExtentFacts, SizesDiffer DEF Memory!AddrMask
    <3>2. Memory!StoreData[i] = IF i < f.at THEN 0 ELSE f.data[i - f.at]
      BY <1>1, <2>1, SizesDiffer DEF Memory!StoreData, Memory!Lane
    <3> QED BY <1>2, <3>1, <3>2
  <2>2. CASE f.size = Memory!HalfSize
    <3>1. /\ Memory!Extent(f) = {f.at, f.at + 1} /\ Memory!AddrMask = {f.at, f.at + 1}
          /\ 2 * (f.at \div 2) = f.at
      BY <1>1, <1>2, <2>2, ExtentFacts, SizesDiffer DEF Memory!AddrMask, Aligned
    <3>2. Memory!StoreData[i] = IF i < f.at THEN 0 ELSE f.data[i - f.at]
      BY <1>1, <2>2, <3>1, SizesDiffer DEF Memory!StoreData, Memory!Lane
    <3> QED BY <1>2, <3>1, <3>2
  <2>3. CASE f.size = Memory!WordSize
    <3>1. /\ Memory!Extent(f) = 0..3 /\ Memory!AddrMask = 0..3 /\ f.at = 0
      BY <1>1, <1>2, <2>3, ExtentFacts, SizesDiffer DEF Memory!AddrMask, Aligned, Memory!Lane
    <3>2. Memory!StoreData = f.data
      BY <1>1, <2>3, SizesDiffer DEF Memory!StoreData
    <3> QED BY <1>2, <3>1, <3>2
  <2> QED BY <2>1, <2>2, <2>3 DEF Aligned
<1>4. Memory!Written = [i \in 0..3 |-> IF i \in Memory!AddrMask THEN Memory!StoreData[i] ELSE tcm[i]]
  BY DEF Memory!Written, Memory!Lane
<1>5. Memory!StoredTo(tcm, f) = [i \in 0..3 |-> IF i \in Memory!Extent(f) THEN f.data[i - f.at] ELSE tcm[i]]
  BY DEF Memory!StoredTo, Memory!Lane
<1>6. ASSUME NEW i \in 0..3, i \in Memory!Extent(f)
      PROVE  f.data[i - f.at] \in 0..1
  <2>1. i - f.at \in 0..3
    BY <1>2, <1>6, ExtentFacts, SizesDiffer DEF Aligned
  <2> QED BY <1>2, <2>1
<1>7. Memory!StoredTo(tcm, f) \in Memory!Word
  BY <1>2, <1>5, <1>6 DEF Memory!Word, Memory!Lane
<1> QED BY <1>3, <1>4, <1>5, <1>7

LEMMA LoadRight ==
  ASSUME copied.op = "load", Aligned(copied), copied.unsigned \in BOOLEAN, memEx = Memory!Bubble,
         douta \in Memory!Word
  PROVE  Memory!LoadData = Memory!LoadedFrom(douta, copied)
<1> DEFINE f == copied
           top == CHOOSE i \in Memory!Extent(f) : \A j \in Memory!Extent(f) : j <= i
<1>1. Memory!SubopSize = f.size /\ Memory!MemAddr = f.at /\ (Memory!SubopUnsigned <=> f.unsigned)
  BY FunctionKinds, SizesDiffer DEF Memory!SubopSize, Memory!SubopUnsigned, Memory!MemAddr,
     Memory!MemEn, Aligned
<1>2. f.at \in 0..3 /\ douta \in [0..3 -> 0..1]
  BY SizesDiffer DEF Aligned, Memory!Word, Memory!Lane
<1>3. Memory!LoadedFrom(douta, f) =
        [i \in 0..3 |-> CASE f.at + i \in Memory!Extent(f) -> douta[f.at + i]
                          [] f.at + i \notin Memory!Extent(f) /\ f.unsigned -> 0
                          [] f.at + i \notin Memory!Extent(f) /\ ~f.unsigned -> douta[top]]
  BY DEF Memory!LoadedFrom, Memory!Lane
<1>4. CASE f.size = Memory!ByteSize
  <2>1. Memory!Extent(f) = {f.at}
    BY <1>4, ExtentFacts
  <2>2. top = f.at
    BY <1>2, <2>1
  <2>3. Memory!LoadData =
          [i \in 0..3 |-> CASE f.at + i <= f.at -> douta[f.at + i]
                            [] f.at + i > f.at /\ f.unsigned -> 0
                            [] f.at + i > f.at /\ ~f.unsigned -> douta[f.at]]
    <3>1. Memory!LoadData =
            [i \in 0..3 |-> CASE Memory!MemAddr + i <= Memory!MemAddr -> douta[Memory!MemAddr + i]
                              [] Memory!MemAddr + i > Memory!MemAddr /\ Memory!SubopUnsigned -> 0
                              [] Memory!MemAddr + i > Memory!MemAddr /\ ~Memory!SubopUnsigned ->
                                   douta[Memory!MemAddr]]
      BY <1>1, <1>4, SizesDiffer DEF Memory!LoadData, Memory!Lane
    <3> QED BY <1>1, <3>1
  <2> HIDE DEF top
  <2> QED BY <1>2, <1>3, <2>1, <2>2, <2>3
<1>5. CASE f.size = Memory!HalfSize
  <2>1. Memory!Extent(f) = {f.at, f.at + 1} /\ f.at \in {0, 2} /\ 2 * (f.at \div 2) = f.at
    BY <1>5, ExtentFacts, SizesDiffer DEF Aligned
  <2>2. top = f.at + 1
    BY <1>2, <2>1
  <2>3. Memory!LoadData =
          [i \in 0..3 |-> CASE f.at + i <= f.at + 1 -> douta[f.at + i]
                            [] f.at + i > f.at + 1 /\ f.unsigned -> 0
                            [] f.at + i > f.at + 1 /\ ~f.unsigned -> douta[f.at + 1]]
    BY <1>1, <1>5, <2>1, SizesDiffer DEF Memory!LoadData, Memory!Lane
  <2> HIDE DEF top
  <2> QED BY <1>2, <1>3, <2>1, <2>2, <2>3
<1>6. CASE f.size = Memory!WordSize
  <2>1. Memory!Extent(f) = 0..3 /\ f.at = 0
    BY <1>6, ExtentFacts, SizesDiffer DEF Aligned
  <2>2. Memory!LoadData = douta
    BY <1>1, <1>6, SizesDiffer DEF Memory!LoadData
  <2> HIDE DEF top
  <2> QED BY <1>2, <1>3, <2>1, <2>2
<1> QED BY <1>4, <1>5, <1>6 DEF Aligned

LEMMA MemStart ==
  ASSUME Memory!Init
  PROVE  MemInv
BY FunctionKinds DEF Memory!Init, MemInv

LEMMA MemStep ==
  ASSUME MemInv, Memory!Clock
  PROVE  MemInv'
<1>1. /\ tcm' = Memory!Written /\ douta' = Memory!Written /\ copied' = memEx
      /\ memEx' \in IF Memory!MemEn(memEx) THEN {Memory!Bubble} ELSE Memory!Instructions
      /\ memEx.op # "mul" \/ memEx'.op # "store"
      /\ memory' = IF memEx.op = "store" THEN Memory!StoredTo(memory, memEx) ELSE memory
      /\ loaded' = IF memEx.op = "load" THEN Memory!LoadedFrom(memory, memEx) ELSE Memory!Zero
  BY DEF Memory!Clock
<1>2. tcm' \in Memory!Word /\ memory' = tcm' /\ (memEx.op # "store" => tcm' = tcm)
  <2>1. CASE memEx.op = "store"
    <3>1. Aligned(memEx) /\ memEx.data \in Memory!Word /\ copied = Memory!Bubble
      BY <2>1, FunctionKinds DEF MemInv
    <3> QED BY <1>1, <2>1, <3>1, FunctionKinds, StoreRight DEF MemInv
  <2>2. CASE memEx.op # "store"
    <3>1. Memory!Written = tcm
      BY <2>2 DEF Memory!Written, MemInv, Memory!Word
    <3> QED BY <1>1, <2>2, <3>1 DEF MemInv
  <2> QED BY <2>1, <2>2
<1>3. ASSUME NEW f \in Memory!Instructions
      PROVE  \/ f = Memory!Bubble \/ f \in Memory!HighMuls
             \/ f.op = "load" /\ Aligned(f) /\ f.unsigned \in BOOLEAN
             \/ f.op = "store" /\ Aligned(f) /\ f.data \in Memory!Word
  <2>1. CASE f \in Memory!LoadFuncs \union Memory!StoreFuncs /\ f.at \in Memory!Aligned(f.size)
    <3>1. f.size \in {Memory!ByteSize, Memory!HalfSize, Memory!WordSize}
      BY <2>1, FunctionKinds DEF Memory!Sizes
    <3>2. Aligned(f)
      BY <2>1, <3>1, SizesDiffer DEF Memory!Aligned, Aligned, Memory!Lane
    <3> QED BY <2>1, <3>2, FunctionKinds
  <2> QED BY <2>1 DEF Memory!Instructions
<1>4. memEx.op \in {"load", "store"} => memEx' = Memory!Bubble
  BY <1>1 DEF Memory!MemEn
<1>5. memEx.op \in {"load", "store"} \/ memEx = Memory!Bubble \/ memEx \in Memory!HighMuls
  BY DEF MemInv
<1>6. memEx'.op = "store" => copied' = Memory!Bubble
  BY <1>1, <1>4, <1>5, FunctionKinds
<1>7. \/ memEx' = Memory!Bubble \/ memEx' \in Memory!HighMuls
      \/ memEx'.op = "load" /\ Aligned(memEx') /\ memEx'.unsigned \in BOOLEAN
      \/ memEx'.op = "store" /\ Aligned(memEx') /\ memEx'.data \in Memory!Word
  BY <1>1, <1>3
<1>8. copied'.op = "load" => /\ Aligned(copied') /\ copied'.unsigned \in BOOLEAN /\ memEx' = Memory!Bubble
                             /\ douta' \in Memory!Word /\ loaded' = Memory!LoadedFrom(douta', copied')
  <2> SUFFICES ASSUME memEx.op = "load"
               PROVE  /\ Aligned(memEx) /\ memEx.unsigned \in BOOLEAN /\ memEx' = Memory!Bubble
                      /\ douta' \in Memory!Word /\ loaded' = Memory!LoadedFrom(douta', memEx)
    BY <1>1
  <2>1. Aligned(memEx) /\ memEx.unsigned \in BOOLEAN
    BY FunctionKinds DEF MemInv
  <2>2. douta' = tcm /\ tcm \in Memory!Word /\ memory = tcm
    BY <1>1, <1>2 DEF MemInv
  <2> QED BY <1>1, <1>4, <2>1, <2>2
<1>9. copied' = Memory!Bubble \/ copied' \in Memory!HighMuls \/ (copied'.op \in {"load", "store"} /\ memEx' = Memory!Bubble)
  BY <1>1, <1>4, <1>5
<1>10. /\ Aligned(memEx)' <=> Aligned(memEx')
       /\ Aligned(copied)' <=> Aligned(copied')
       /\ Memory!LoadedFrom(douta, copied)' = Memory!LoadedFrom(douta', copied')
  BY DEF Aligned, Memory!LoadedFrom, Memory!Extent
<1> QED BY <1>2, <1>6, <1>7, <1>8, <1>9, <1>10 DEF MemInv

LEMMA MemSays ==
  ASSUME MemInv
  PROVE  Memory!MemoryExact
BY LoadRight DEF MemInv, Memory!MemoryExact, Memory!Returns

Peripherals == UartInv /\ TimerInv /\ MemInv

\* pa_perips_uart.v, pa_perips_timer.v, pa_core_mau.v and pa_perips_tcm.v with the drivers:
\* a frame is received or sent whole, whatever the driver polls and clears in between; the
\* ticks keep their distance whenever the driver writes the flag; and a load returns what was
\* stored last, whatever was executed right before and behind it.
THEOREM PeripheralsAreExact == PartsSpec => []PeripheralsExact
<1>1. PartsInit => Peripherals
  BY UartStart, TimerStart, MemStart, PartsAssumption DEF PartsInit, Peripherals
<1>2. Peripherals /\ [PartsNext]_partsVars => Peripherals'
  <2> SUFFICES ASSUME Peripherals, [PartsNext]_partsVars PROVE Peripherals'
    OBVIOUS
  <2>1. ASSUME UNCHANGED uart PROVE UartInv'
    BY <2>1 DEF uart, Peripherals, UartInv, LineTypeOK, PipeOK, FlagsOK, TxQuiet, RxQuiet, LineHigh,
         Receives, Sampling, Coming, Lag, Received, Transmits, Shifted, SentBits, Transmitted
  <2>2. ASSUME UNCHANGED tickTimer PROVE TimerInv'
    BY <2>2 DEF tickTimer, Peripherals, TimerInv, TimerTypeOK, Running, Phased, FirstLoad, TickTimer!Period
  <2>3. ASSUME UNCHANGED coreMemory PROVE MemInv'
    BY <2>3 DEF coreMemory, Peripherals, MemInv, Aligned, Memory!LoadedFrom, Memory!Extent
  <2>4. part = "uart" /\ PartsNext => UartInv'
    BY UartStep, PartsAssumption DEF PartsNext, Peripherals
  <2>5. part = "tick timer" /\ PartsNext => TimerInv'
    BY TimerStep, PartsAssumption DEF PartsNext, Peripherals
  <2>6. part = "memory" /\ PartsNext => MemInv'
    BY MemStep DEF PartsNext, Peripherals
  <2>7. /\ UNCHANGED uart \/ (part = "uart" /\ PartsNext)
        /\ UNCHANGED tickTimer \/ (part = "tick timer" /\ PartsNext)
        /\ UNCHANGED coreMemory \/ (part = "memory" /\ PartsNext)
    BY DEF partsVars, PartsNext, OthersStand
  <2>8. UartInv' /\ TimerInv' /\ MemInv'
    BY <2>1, <2>2, <2>3, <2>4, <2>5, <2>6, <2>7
  <2> QED BY <2>8 DEF Peripherals
<1>3. Peripherals => PeripheralsExact
  BY UartSays, TimerSays, MemSays, PartsAssumption DEF Peripherals, PeripheralsExact
<1> QED BY <1>1, <1>2, <1>3, PTL DEF PartsSpec

-----------------------------------------------------------------------------
(* The software timers *)

TickRange == 0..(TickMod - 1)
Half == Timers!HalfTick

\* The ticks that are left.
TicksLeft(t) == Timers!Diff(due[t], tick)

LEMMA TimerLists ==
  /\ \A l, n : Timers!Linked(l, n) = Linked(l, n) /\ Timers!Unlink(l, n) = Unlink(l, n)
  /\ \A l, n : Timers!LinkFirst(l, n) = LinkFirst(l, n)
  /\ \A l, n, S : Timers!LinkBefore(l, n, S) = LinkBefore(l, n, S)
<1>1. \A l, n : Timers!Linked(l, n) = Linked(l, n)
  BY Zenon DEF Timers!Linked, Linked
<1>2. \A l, n : Timers!Unlink(l, n) = Unlink(l, n)
  BY Zenon DEF Timers!Unlink, Unlink, Timers!CutOut, CutOut, Timers!Position, Position, Timers!Linked, Linked
<1>3. \A l, n : Timers!LinkFirst(l, n) = LinkFirst(l, n)
  BY Zenon DEF Timers!LinkFirst, LinkFirst
<1>4. \A l, n, S : Timers!LinkBefore(l, n, S) = LinkBefore(l, n, S)
  BY Zenon DEF Timers!LinkBefore, LinkBefore, Timers!PutIn, PutIn, Timers!FirstOf, FirstOf
<1> QED BY <1>1, <1>2, <1>3, <1>4

SettingsOK ==
  /\ tick \in TickRange /\ due \in [Timer -> TickRange] /\ time \in [Timer -> Times]
  /\ active \in SUBSET Timer /\ periodic \in SUBSET Timer /\ checking \in BOOLEAN
  /\ handler \in Timer \union {None} /\ stopping \in Timer \union {None}

\* The list is in the order of the ticks that are left, none of which is too far ahead; a
\* timer that should have expired is on it during the check only.
InTime ==
  /\ list \in Seq(Timer) /\ Once(list)
  /\ \A t \in Timer : Linked(list, t) =>
       t \in active /\ TicksLeft(t) < Half /\ (~checking => TicksLeft(t) > 0)
  /\ \A x, y \in Timer : Before(list, x, y) => TicksLeft(x) <= TicksLeft(y)

\* The timer whose handler runs is on temp until the handler handles it.
Handling ==
  /\ temp \in {<<>>, <<handler>>}
  /\ handler = None => temp = <<>>
  /\ handler # None => checking
  /\ temp # <<>> => ~Linked(list, handler)
  /\ temp # <<>> /\ handler \in active => handler \in periodic

CalendarInv == SettingsOK /\ InTime /\ Handling

LEMMA TickConstants ==
  ASSUME PartsAssumption
  PROVE  /\ TickMod \in Nat /\ TickMod > 3 /\ Half \in Nat /\ Half > 0 /\ 2 * Half < TickMod
         /\ \A n \in Times : n \in Nat /\ 0 < n /\ n < Half
         /\ Times # {} /\ None \notin Timer /\ None \notin Nat
<1>1. /\ TickMod \in Nat /\ TickMod > 3 /\ Times \subseteq 1..(Half - 1) /\ Times # {}
      /\ None \notin Timer /\ None \notin Nat
  BY DEF PartsAssumption, Timers!TimersConstants, Half
<1>2. Half = (TickMod - 1) \div 2
  BY DEF Half, Timers!HalfTick
<1>3. Half \in Nat /\ Half > 0 /\ 2 * Half < TickMod
  BY <1>1, <1>2
<1> QED BY <1>1, <1>3

LEMMA TickDiff ==
  ASSUME PartsAssumption, NEW i \in TickRange, NEW j \in TickRange
  PROVE  /\ Timers!Diff(i, j) \in TickRange
         /\ Timers!Diff(i, j) = IF i >= j THEN i - j ELSE (i - j) + TickMod
<1>1. TickMod \in Nat /\ TickMod > 3 /\ i \in 0..(TickMod - 1) /\ j \in 0..(TickMod - 1)
  BY TickConstants DEF TickRange
<1>2. CASE i >= j
  <2>1. (i - j) % TickMod = i - j
    BY <1>1, <1>2
  <2> QED BY <2>1, <1>1, <1>2 DEF Timers!Diff, TickRange
<1>3. CASE i < j
  <2>1. (i - j) % TickMod = (i - j) + TickMod
    BY <1>1, <1>3
  <2> QED BY <2>1, <1>1, <1>3 DEF Timers!Diff, TickRange
<1> QED BY <1>1, <1>2, <1>3

LEMMA TickSum ==
  ASSUME PartsAssumption, NEW i \in TickRange, NEW n \in TickRange
  PROVE  /\ (i + n) % TickMod \in TickRange
         /\ (i + n) % TickMod = IF i + n < TickMod THEN i + n ELSE (i + n) - TickMod
<1>1. TickMod \in Nat /\ TickMod > 3 /\ i \in 0..(TickMod - 1) /\ n \in 0..(TickMod - 1)
  BY TickConstants DEF TickRange
<1>2. CASE i + n < TickMod
  <2>1. (i + n) % TickMod = i + n
    BY <1>1, <1>2
  <2> QED BY <2>1, <1>1, <1>2 DEF TickRange
<1>3. CASE i + n >= TickMod
  <2>1. (i + n) % TickMod = (i + n) - TickMod
    BY <1>1, <1>3
  <2> QED BY <2>1, <1>1, <1>3 DEF TickRange
<1> QED BY <1>1, <1>2, <1>3

LEMMA RemainsFacts ==
  ASSUME PartsAssumption, SettingsOK, NEW u \in Timer
  PROVE  /\ due[u] \in TickRange /\ tick \in TickRange
         /\ TicksLeft(u) \in TickRange /\ TicksLeft(u) \in Nat /\ TickRange \subseteq Nat
         /\ TicksLeft(u) = IF due[u] >= tick THEN due[u] - tick ELSE (due[u] - tick) + TickMod
<1>1. due[u] \in TickRange /\ tick \in TickRange /\ TickRange \subseteq Nat
  BY TickConstants DEF SettingsOK, TickRange
<1> QED BY <1>1, TickDiff DEF TicksLeft

\* A timer comes off the list, and no other one changes.
LEMMA OffInTime ==
  ASSUME InTime, NEW s \in Timer, list' = Unlink(list, s),
         \A u \in Timer \ {s} : due'[u] = due[u], tick' = tick,
         \A u \in Timer \ {s} : u \in active => u \in active', checking' = checking
  PROVE  InTime' /\ \A m : Linked(list', m) <=> Linked(list, m) /\ m # s
<1>1. list \in Seq(Timer) /\ Once(list)
  BY DEF InTime
<1>2. /\ list' \in Seq(Timer) /\ Once(list')
      /\ \A m : Linked(list', m) <=> Linked(list, m) /\ m # s
  BY <1>1, UnlinkFacts
<1>3. \A u \in Timer \ {s} : TicksLeft(u)' = TicksLeft(u)
  BY DEF TicksLeft
<1>4. ASSUME NEW x \in Timer, NEW y \in Timer, Before(list', x, y)
      PROVE  TicksLeft(x)' <= TicksLeft(y)'
  <2>1. Linked(list', x) /\ Linked(list', y)
    BY <1>4 DEF Before, Linked
  <2>2. Before(list, x, y)
    BY <1>1, <1>4, UnlinkOrder
  <2> QED BY <1>2, <1>3, <2>1, <2>2 DEF InTime
<1> QED BY <1>2, <1>3, <1>4 DEF InTime

\* rt_timer_start looks for the first timer that is due after the new one.
LEMMA OnInTime ==
  ASSUME PartsAssumption, SettingsOK, InTime, NEW s \in Timer, NEW A, Timers!StartFrom(s, list, A),
         tick' = tick, \A u \in Timer \ {s} : u \in active => u \in active', checking' = checking
  PROVE  /\ InTime' /\ due' \in [Timer -> TickRange]
         /\ TicksLeft(s)' = time[s]
         /\ \A u \in Timer \ {s} : TicksLeft(u)' = TicksLeft(u)
         /\ \A m : Linked(list', m) <=> Linked(list, m) \/ m = s
<1> DEFINE n == time[s]
           d == (tick + n) % TickMod
           l == Unlink(list, s)
           S == Timers!Later(d)
<1>1. /\ list \in Seq(Timer) /\ Once(list) /\ tick \in TickRange
      /\ due \in [Timer -> TickRange] /\ \A u \in Timer : due[u] \in TickRange
      /\ \A u \in Timer : TicksLeft(u) \in Nat
  BY RemainsFacts DEF InTime, SettingsOK
<1>2. list' = LinkBefore(l, s, S) /\ due' = [due EXCEPT ![s] = d] /\ active' = A \union {s}
  BY TimerLists DEF Timers!StartFrom
<1>3. n \in Nat /\ 0 < n /\ n < Half /\ Half \in Nat /\ 2 * Half < TickMod /\ TickMod \in Nat
  BY TickConstants DEF SettingsOK
<1>a. n \in TickRange
  BY <1>3 DEF TickRange
<1>4. d \in TickRange /\ d = IF tick + n < TickMod THEN tick + n ELSE (tick + n) - TickMod
  BY <1>1, <1>a, TickSum
<1>5. /\ l \in Seq(Timer) /\ Once(l) /\ ~Linked(l, s)
      /\ \A m : Linked(l, m) <=> Linked(list, m) /\ m # s
  BY <1>1, UnlinkFacts
<1>6. ASSUME NEW u \in Timer, TicksLeft(u) < Half
      PROVE  u \in S <=> n < TicksLeft(u)
  <2>2. /\ TicksLeft(u) = IF due[u] >= tick THEN due[u] - tick ELSE (due[u] - tick) + TickMod
        /\ due[u] \in TickRange
    BY RemainsFacts
  <2>3. Timers!Diff(due[u], d) = IF due[u] >= d THEN due[u] - d ELSE (due[u] - d) + TickMod
    BY <1>4, <2>2, TickDiff
  <2>4. u \in S <=> Timers!Diff(due[u], d) # 0 /\ Timers!Diff(due[u], d) < Half
    BY DEF Timers!Later, Half
  <2>5. due[u] \in Nat /\ tick \in Nat /\ due[u] < TickMod /\ tick < TickMod /\ d \in Nat /\ d < TickMod
    BY <1>1, <1>3, <1>4, <2>2 DEF TickRange
  <2> HIDE DEF d, n, S
  <2>6. Timers!Diff(due[u], d) # 0 /\ Timers!Diff(due[u], d) < Half <=> n < TicksLeft(u)
    BY <1>3, <1>4, <1>6, <2>2, <2>3, <2>5
  <2> QED BY <2>4, <2>6
<1>7. TicksLeft(s)' = n
  <2>1. TicksLeft(s)' = Timers!Diff(d, tick)
    BY <1>1, <1>2 DEF TicksLeft, Timers!Diff
  <2>2. Timers!Diff(d, tick) = IF d >= tick THEN d - tick ELSE (d - tick) + TickMod
    BY <1>1, <1>4, TickDiff
  <2>3. tick \in Nat /\ tick < TickMod
    BY <1>1, <1>3 DEF TickRange
  <2> HIDE DEF d, n
  <2> QED BY <1>3, <1>4, <2>1, <2>2, <2>3
<1>8. \A u \in Timer \ {s} : TicksLeft(u)' = TicksLeft(u)
  BY <1>1, <1>2 DEF TicksLeft
<1>b. s \in active' /\ due' \in [Timer -> TickRange]
  BY <1>1, <1>2, <1>4
<1> HIDE DEF d, l, S, n
<1>9. /\ list' \in Seq(Timer) /\ Once(list')
      /\ \A m : Linked(list', m) <=> Linked(l, m) \/ m = s
  BY <1>2, <1>5, LinkBeforeFacts
<1>10. ASSUME NEW x \in Timer, NEW y \in Timer, Before(list', x, y)
       PROVE  TicksLeft(x)' <= TicksLeft(y)'
  <2>1. \/ Before(l, x, y) /\ x # s /\ y # s
        \/ y = s /\ x \notin S /\ Linked(l, x)
        \/ x = s /\ Linked(l, y) /\ (y \in S \/ \E z \in S : Before(l, z, y))
    BY <1>2, <1>5, <1>10, LinkBeforeOrder
  <2>2. \A p, q \in Timer : Before(l, p, q) => TicksLeft(p) <= TicksLeft(q)
    BY <1>1, UnlinkOrder DEF l, InTime
  <2>3. \A u \in Timer : Linked(l, u) => TicksLeft(u) < Half /\ u # s
    BY <1>5 DEF InTime
  <2>4. CASE Before(l, x, y) /\ x # s /\ y # s
    BY <1>8, <2>2, <2>4
  <2>5. CASE y = s /\ x \notin S /\ Linked(l, x)
    <3>1. ~(n < TicksLeft(x)) /\ TicksLeft(x)' = TicksLeft(x) /\ TicksLeft(x) \in Nat
      BY <1>1, <1>6, <1>8, <2>3, <2>5
    <3> QED BY <1>3, <1>7, <2>5, <3>1
  <2>6. CASE x = s /\ Linked(l, y) /\ y \in S
    <3>1. n < TicksLeft(y) /\ TicksLeft(y)' = TicksLeft(y) /\ TicksLeft(y) \in Nat
      BY <1>1, <1>6, <1>8, <2>3, <2>6
    <3> QED BY <1>3, <1>7, <2>6, <3>1
  <2>7. ASSUME x = s, Linked(l, y), NEW z \in S, Before(l, z, y)
        PROVE  TicksLeft(x)' <= TicksLeft(y)'
    <3>1. z \in Timer /\ Linked(l, z)
      BY <2>7 DEF S, Timers!Later, Before, Linked
    <3>2. n < TicksLeft(z) /\ TicksLeft(z) <= TicksLeft(y) /\ TicksLeft(y)' = TicksLeft(y) /\ TicksLeft(y) \in Nat /\ TicksLeft(z) \in Nat
      BY <1>1, <1>6, <1>8, <2>2, <2>3, <2>7, <3>1
    <3> QED BY <1>3, <1>7, <2>7, <3>2
  <2> QED BY <2>1, <2>4, <2>5, <2>6, <2>7
<1>11. ASSUME NEW u \in Timer, Linked(list', u)
       PROVE u \in active' /\ TicksLeft(u)' < Half /\ (~checking' => TicksLeft(u)' > 0)
  BY <1>3, <1>5, <1>7, <1>8, <1>9, <1>11, <1>b DEF InTime
<1>12. InTime'
  BY <1>9, <1>10, <1>11 DEF InTime
<1>13. \A m : Linked(list', m) <=> Linked(list, m) \/ m = s
  BY <1>5, <1>9
<1> QED BY <1>7, <1>8, <1>12, <1>13, <1>b DEF n

\* When the first timer has not expired, none has.
LEMMA NoneExpired ==
  ASSUME PartsAssumption, SettingsOK, InTime
  PROVE  /\ \A u \in Timer : Linked(list, u) => (Timers!Expired(u) <=> TicksLeft(u) = 0)
         /\ (list # <<>> => ~Timers!Expired(Head(list))) =>
              \A u \in Timer : Linked(list, u) => TicksLeft(u) > 0
<1>1. ASSUME NEW u \in Timer, Linked(list, u) PROVE Timers!Expired(u) <=> TicksLeft(u) = 0
  <2>1. /\ TicksLeft(u) = IF due[u] >= tick THEN due[u] - tick ELSE (due[u] - tick) + TickMod
        /\ due[u] \in TickRange /\ tick \in TickRange /\ TicksLeft(u) \in Nat
    BY RemainsFacts
  <2>2. Timers!Diff(tick, due[u]) = IF tick >= due[u] THEN tick - due[u] ELSE (tick - due[u]) + TickMod
    BY <2>1, TickDiff
  <2>3. TicksLeft(u) < Half /\ Half \in Nat /\ 2 * Half < TickMod /\ TickMod \in Nat /\ Half > 0
    BY <1>1, TickConstants DEF InTime
  <2>4. due[u] \in Nat /\ tick \in Nat /\ due[u] < TickMod /\ tick < TickMod
    BY <2>1, <2>3 DEF TickRange
  <2>5. Timers!Diff(tick, due[u]) < Half <=> TicksLeft(u) = 0
    BY <2>1, <2>2, <2>3, <2>4
  <2> QED BY <2>5 DEF Timers!Expired, Half
<1>2. ASSUME list # <<>> => ~Timers!Expired(Head(list)), NEW u \in Timer, Linked(list, u)
      PROVE  TicksLeft(u) > 0
  <2>1. list \in Seq(Timer) /\ list # <<>>
    BY <1>2, HeadFacts DEF InTime
  <2>2. PICK h \in Timer : h = Head(list) /\ Linked(list, h) /\ ~Timers!Expired(h)
    BY <1>2, <2>1, HeadFacts
  <2>3. TicksLeft(h) # 0 /\ TicksLeft(h) \in Nat /\ TicksLeft(u) \in Nat
    BY <1>1, <2>2, RemainsFacts
  <2>4. TicksLeft(h) <= TicksLeft(u)
    <3>1. CASE u = h
      BY <3>1, <2>3
    <3>2. CASE u # h
      BY <3>2, <1>2, <2>1, <2>2, HeadOrder DEF InTime
    <3> QED BY <3>1, <3>2
  <2> QED BY <2>3, <2>4
<1> QED BY <1>1, <1>2

\* What RtTimerService sees.
LeftOf == [t \in Timer |-> Timers!Left(t)]
Again == IF temp # <<>> /\ handler \in periodic /\ handler \in active THEN handler ELSE None

LEMMA LeftIs ==
  \A t \in Timer : LeftOf[t] = IF Linked(list, t) THEN TicksLeft(t) ELSE None
<1>1. \A t \in Timer : Timers!Left(t) = IF Linked(list, t) THEN TicksLeft(t) ELSE None
  BY TimerLists DEF Timers!Left, TicksLeft
<1> QED BY <1>1 DEF LeftOf

LEMMA LeftChanges ==
  ASSUME NEW s \in Timer, NEW v,
         \A u \in Timer \ {s} : (LeftOf[u])' = LeftOf[u], (LeftOf[s])' = v
  PROVE  LeftOf' = [LeftOf EXCEPT ![s] = v]
<1>1. \A u \in Timer : LeftOf'[u] = [LeftOf EXCEPT ![s] = v][u]
  BY DEF LeftOf
<1>2. LeftOf' = [t \in Timer |-> LeftOf'[t]]
  BY DEF LeftOf
<1>3. [LeftOf EXCEPT ![s] = v] = [t \in Timer |-> [LeftOf EXCEPT ![s] = v][t]]
  BY DEF LeftOf
<1> QED BY <1>1, <1>2, <1>3

LEMMA LeftOff ==
  ASSUME NEW s \in Timer, \A m : Linked(list', m) <=> Linked(list, m) /\ m # s,
         \A u \in Timer \ {s} : due'[u] = due[u], tick' = tick
  PROVE  LeftOf' = [LeftOf EXCEPT ![s] = None]
<1>1. (\A t \in Timer : LeftOf[t] = IF Linked(list, t) THEN TicksLeft(t) ELSE None)'
  BY LeftIs, PTL
<1>2. \A u \in Timer \ {s} : TicksLeft(u)' = TicksLeft(u)
  BY DEF TicksLeft
<1>3. LeftOf'[s] = None /\ \A u \in Timer \ {s} : LeftOf'[u] = LeftOf[u]
  BY <1>1, <1>2, LeftIs
<1> QED BY <1>3, LeftChanges

LEMMA LeftOn ==
  ASSUME NEW s \in Timer, \A m : Linked(list', m) <=> Linked(list, m) \/ m = s,
         \A u \in Timer \ {s} : TicksLeft(u)' = TicksLeft(u), TicksLeft(s)' = time[s]
  PROVE  LeftOf' = [LeftOf EXCEPT ![s] = time[s]]
<1>1. (\A t \in Timer : LeftOf[t] = IF Linked(list, t) THEN TicksLeft(t) ELSE None)'
  BY LeftIs, PTL
<1>2. LeftOf'[s] = time[s] /\ \A u \in Timer \ {s} : LeftOf'[u] = LeftOf[u]
  BY <1>1, LeftIs
<1> QED BY <1>2, LeftChanges

LEMMA LeftSame ==
  ASSUME list' = list, due' = due, tick' = tick
  PROVE  LeftOf' = LeftOf
<1>1. \A t : Timers!Left(t)' = Timers!Left(t)
  BY DEF Timers!Left, Timers!Diff, Timers!Linked
<1> QED BY <1>1 DEF LeftOf

\* A call about t takes it off temp, if it is there, and then it is not started again.
LEMMA TempOff ==
  ASSUME SettingsOK, Handling, NEW t \in Timer, temp' = Unlink(temp, t),
         None \notin Timer, handler' = handler, periodic' = periodic,
         \A u \in Timer \ {t} : u \in active' <=> u \in active
  PROVE  /\ temp' = IF t = handler THEN <<>> ELSE temp
         /\ Again' = IF Again = t THEN None ELSE Again
<1>1. temp = <<>> => Unlink(temp, t) = <<>>
  BY DEF Unlink, Linked
<1>2. ASSUME temp # <<>> PROVE Unlink(temp, t) = IF t = handler THEN <<>> ELSE temp
  <2>1. temp = <<handler>> /\ handler \in Timer
    BY <1>2 DEF Handling, SettingsOK
  <2>2. temp \in Seq(Timer) /\ Once(temp) /\ \A m : Linked(temp, m) <=> m = handler
    BY <2>1 DEF Once, Linked
  <2>3. /\ Unlink(temp, t) \in Seq(Timer)
        /\ \A m : Linked(Unlink(temp, t), m) <=> m = handler /\ m # t
        /\ ~Linked(temp, t) => Unlink(temp, t) = temp
    BY <2>2, UnlinkFacts
  <2>4. CASE t = handler
    <3>1. \A m : ~Linked(Unlink(temp, t), m)
      BY <2>3, <2>4
    <3>2. Unlink(temp, t) = <<>>
      BY <2>3, <3>1, HeadFacts
    <3> QED BY <3>2, <2>4
  <2>5. CASE t # handler
    BY <2>2, <2>3, <2>5
  <2> QED BY <2>4, <2>5
<1>3. temp' = IF t = handler THEN <<>> ELSE temp
  BY <1>1, <1>2
<1>4. CASE t = handler
  BY <1>3, <1>4 DEF Again
<1>5. CASE t # handler
  <2>1. temp' = temp /\ (handler \in Timer => (handler \in active' <=> handler \in active))
    BY <1>3, <1>5
  <2>2. temp # <<>> => handler \in Timer
    BY DEF Handling, SettingsOK
  <2>3. Again' = Again
    BY <2>1, <2>2 DEF Again
  <2>4. Again # t
    BY <1>5 DEF Again
  <2> QED BY <1>3, <1>5, <2>3, <2>4
<1> QED BY <1>3, <1>4, <1>5

Serves == [Timers!Service!ServiceNext]_(Timers!Service!serviceVars)

LEMMA StartServes ==
  ASSUME PartsAssumption, CalendarInv, NEW t \in Timer, Timers!Start(t)
  PROVE  CalendarInv' /\ Serves
<1>1. /\ Timers!StartFrom(t, list, active) /\ temp' = Unlink(temp, t)
      /\ UNCHANGED <<tick, time, periodic, checking, handler, stopping>>
      /\ active' = active \union {t}
  BY TimerLists DEF Timers!Start, Timers!StartFrom, Timers!settings
<1>2. /\ InTime' /\ due' \in [Timer -> TickRange] /\ TicksLeft(t)' = time[t]
      /\ \A u \in Timer \ {t} : TicksLeft(u)' = TicksLeft(u)
      /\ \A m : Linked(list', m) <=> Linked(list, m) \/ m = t
  BY <1>1, OnInTime DEF CalendarInv
<1>3. SettingsOK'
  BY <1>1, <1>2 DEF CalendarInv, SettingsOK
<1>4. /\ temp' = IF t = handler THEN <<>> ELSE temp
      /\ Again' = IF Again = t THEN None ELSE Again
  BY <1>1, TempOff, TickConstants DEF CalendarInv
<1>5. Handling'
  BY <1>1, <1>2, <1>4 DEF CalendarInv, Handling
<1>6. LeftOf' = [LeftOf EXCEPT ![t] = time[t]]
  BY <1>2, LeftOn
<1>7. Timers!Service!Start(t)
  BY <1>1, <1>4, <1>6 DEF Timers!Service!Start, Timers!Service!Forget, LeftOf, Again
<1> QED BY <1>2, <1>3, <1>5, <1>7 DEF CalendarInv, Serves, Timers!Service!ServiceNext

LEMMA UnsetServes ==
  ASSUME PartsAssumption, CalendarInv, NEW t \in Timer, Timers!Unset(t),
         stopping' \in Timer \union {None}
  PROVE  CalendarInv' /\ Serves
<1>1. /\ list' = Unlink(list, t) /\ temp' = Unlink(temp, t) /\ due' = [due EXCEPT ![t] = 0]
      /\ active' = active \ {t}
      /\ UNCHANGED <<tick, time, periodic, checking, handler>>
  BY TimerLists DEF Timers!Unset, Timers!settings
<1>2. 0 \in TickRange
  BY TickConstants DEF TickRange
<1>3. SettingsOK' /\ \A u \in Timer \ {t} : due'[u] = due[u]
  BY <1>1, <1>2 DEF CalendarInv, SettingsOK
<1>4. InTime' /\ \A m : Linked(list', m) <=> Linked(list, m) /\ m # t
  BY <1>1, <1>3, OffInTime DEF CalendarInv
<1>5. /\ temp' = IF t = handler THEN <<>> ELSE temp
      /\ Again' = IF Again = t THEN None ELSE Again
  BY <1>1, TempOff, TickConstants DEF CalendarInv
<1>6. Handling'
  BY <1>1, <1>4, <1>5 DEF CalendarInv, Handling
<1>7. LeftOf' = [LeftOf EXCEPT ![t] = None]
  BY <1>1, <1>3, <1>4, LeftOff
<1>8. Timers!Service!Stop(t)
  BY <1>1, <1>5, <1>7 DEF Timers!Service!Stop, Timers!Service!Forget, LeftOf, Again
<1> QED BY <1>3, <1>4, <1>6, <1>8 DEF CalendarInv, Serves, Timers!Service!ServiceNext

\* The calls that change no timer that runs.
LEMMA ControlServes ==
  ASSUME PartsAssumption, CalendarInv, NEW t \in Timer,
         \/ Timers!StopTest(t)
         \/ Timers!SetPeriodic(t)
         \/ Timers!SetOneshot(t)
         \/ \E n \in Times : Timers!SetTime(t, n)
  PROVE  CalendarInv' /\ Serves
<1>1. UNCHANGED <<tick, list, temp, due, active, checking, handler>>
  BY DEF Timers!StopTest, Timers!SetPeriodic, Timers!SetOneshot, Timers!SetTime, Timers!settings
<1>2. SettingsOK'
  <2>1. stopping' \in Timer \union {None}
    BY DEF CalendarInv, SettingsOK, Timers!StopTest, Timers!SetPeriodic, Timers!SetOneshot, Timers!SetTime
  <2>2. time' \in [Timer -> Times]
    BY DEF CalendarInv, SettingsOK, Timers!StopTest, Timers!SetPeriodic, Timers!SetOneshot, Timers!SetTime,
           Timers!settings
  <2>3. periodic' \in SUBSET Timer
    BY DEF CalendarInv, SettingsOK, Timers!StopTest, Timers!SetPeriodic, Timers!SetOneshot, Timers!SetTime,
           Timers!settings
  <2> QED BY <1>1, <2>1, <2>2, <2>3 DEF CalendarInv, SettingsOK
<1>3. InTime'
  BY <1>1 DEF CalendarInv, InTime, TicksLeft
<1>a. handler \in periodic => handler \in periodic'
  BY DEF Timers!StopTest, Timers!SetPeriodic, Timers!SetOneshot, Timers!SetTime, Timers!settings
<1>b. Handling'
  BY <1>1, <1>a DEF CalendarInv, Handling
<1>4. LeftOf' = LeftOf
  BY <1>1, LeftSame
<1>5. ASSUME Timers!StopTest(t) PROVE Serves
  <2>1. Again' = Again /\ UNCHANGED <<time, periodic>>
    BY <1>1, <1>5 DEF Timers!StopTest, Timers!settings, Again
  <2>2. UNCHANGED Timers!Service!serviceVars
    BY <1>1, <1>4, <2>1 DEF Timers!Service!serviceVars, LeftOf, Again
  <2> QED BY <2>2 DEF Serves
<1>6. ASSUME Timers!SetPeriodic(t) PROVE Serves
  <2>1. periodic' = periodic \union {t} /\ time' = time
    BY <1>6 DEF Timers!SetPeriodic
  <2>2. temp # <<>> /\ handler \in periodic' /\ handler \in active <=>
          temp # <<>> /\ handler \in periodic /\ handler \in active
    BY <2>1 DEF CalendarInv, Handling
  <2>3. Again' = Again
    BY <1>1, <2>2 DEF Again
  <2>4. Timers!Service!SetPeriodic(t, TRUE)
    BY <1>1, <1>4, <2>1, <2>3 DEF Timers!Service!SetPeriodic, LeftOf, Again
  <2> QED BY <2>4 DEF Serves, Timers!Service!ServiceNext
<1>7. ASSUME Timers!SetOneshot(t) PROVE Serves
  <2>1. periodic' = periodic \ {t} /\ time' = time /\ t # handler
    BY <1>7 DEF Timers!SetOneshot
  <2>2. Again' = Again /\ Again # t
    BY <1>1, <2>1, TickConstants DEF Again
  <2>3. Timers!Service!SetPeriodic(t, FALSE)
    BY <1>1, <1>4, <2>1, <2>2 DEF Timers!Service!SetPeriodic, LeftOf, Again
  <2> QED BY <2>3 DEF Serves, Timers!Service!ServiceNext
<1>8. ASSUME NEW n \in Times, Timers!SetTime(t, n) PROVE Serves
  <2>1. time' = [time EXCEPT ![t] = n] /\ periodic' = periodic
    BY <1>8 DEF Timers!SetTime
  <2>2. Again' = Again
    BY <1>1, <2>1 DEF Again
  <2>3. Timers!Service!SetTime(t, n)
    BY <1>1, <1>4, <2>1, <2>2 DEF Timers!Service!SetTime, LeftOf, Again
  <2> QED BY <2>3 DEF Serves, Timers!Service!ServiceNext
<1> QED BY <1>2, <1>3, <1>b, <1>5, <1>6, <1>7, <1>8 DEF CalendarInv

LEMMA TickServes ==
  ASSUME PartsAssumption, CalendarInv, Timers!TickIncrease
  PROVE  CalendarInv' /\ Serves
<1>1. /\ checking = FALSE /\ checking' = TRUE /\ tick' = (tick + 1) % TickMod
      /\ UNCHANGED <<list, temp, due, time, periodic, active, handler, stopping>>
      /\ handler = None /\ temp = <<>>
  BY DEF Timers!TickIncrease, Timers!settings, CalendarInv, SettingsOK, Handling
<1>2. /\ TickMod \in Nat /\ TickMod > 3 /\ Half \in Nat /\ Half > 0 /\ 2 * Half < TickMod
      /\ None \notin Nat
  BY TickConstants
<1>3. /\ tick' \in TickRange
      /\ tick' = IF tick + 1 < TickMod THEN tick + 1 ELSE (tick + 1) - TickMod
  <2>1. tick \in TickRange /\ 1 \in TickRange
    BY <1>2 DEF CalendarInv, SettingsOK, TickRange
  <2> QED BY <1>1, <2>1, TickSum
<1>4. SettingsOK'
  BY <1>1, <1>3 DEF CalendarInv, SettingsOK
<1>5. ASSUME NEW u \in Timer, Linked(list, u)
      PROVE  /\ TicksLeft(u) \in Nat /\ TicksLeft(u) > 0 /\ TicksLeft(u) < Half
             /\ TicksLeft(u)' = TicksLeft(u) - 1
  <2>1. /\ due[u] \in TickRange /\ tick \in TickRange
        /\ TicksLeft(u) = IF due[u] >= tick THEN due[u] - tick ELSE (due[u] - tick) + TickMod
        /\ TicksLeft(u) \in Nat
    BY RemainsFacts DEF CalendarInv
  <2>2. TicksLeft(u)' = Timers!Diff(due[u], tick')
    BY <1>1 DEF TicksLeft, Timers!Diff
  <2>3. TicksLeft(u)' = IF due[u] >= tick' THEN due[u] - tick' ELSE (due[u] - tick') + TickMod
    BY <1>3, <2>1, <2>2, TickDiff
  <2>4. TicksLeft(u) > 0 /\ TicksLeft(u) < Half
    BY <1>1, <1>5 DEF CalendarInv, InTime
  <2>5. due[u] \in Nat /\ tick \in Nat /\ tick' \in Nat /\ due[u] < TickMod /\ tick < TickMod
    BY <1>2, <1>3, <2>1 DEF TickRange
  <2>6. TicksLeft(u)' = TicksLeft(u) - 1
    BY <1>2, <1>3, <2>1, <2>3, <2>4, <2>5
  <2> QED BY <2>1, <2>4, <2>6
<1>6. ASSUME NEW x \in Timer, NEW y \in Timer, Before(list', x, y)
      PROVE  TicksLeft(x)' <= TicksLeft(y)'
  <2>1. Linked(list, x) /\ Linked(list, y) /\ Before(list, x, y)
    BY <1>1, <1>6 DEF Before, Linked
  <2>2. TicksLeft(x) <= TicksLeft(y)
    BY <2>1 DEF CalendarInv, InTime
  <2> QED BY <1>5, <2>1, <2>2
<1>7. InTime'
  <2>1. list' \in Seq(Timer) /\ Once(list') /\ \A t \in Timer : Linked(list', t) => t \in active'
    BY <1>1 DEF CalendarInv, InTime
  <2>2. \A t \in Timer : Linked(list', t) => TicksLeft(t)' < Half
    BY <1>1, <1>2, <1>5
  <2> QED BY <1>1, <1>6, <2>1, <2>2 DEF InTime
<1>8. Handling'
  BY <1>1 DEF Handling, CalendarInv
<1>9. \A u \in Timer : LeftOf'[u] = IF LeftOf[u] = None THEN None ELSE LeftOf[u] - 1
  <2>1. (\A t \in Timer : LeftOf[t] = IF Linked(list, t) THEN TicksLeft(t) ELSE None)'
    BY LeftIs, PTL
  <2>2. \A u \in Timer : Linked(list, u) => LeftOf[u] # None
    BY <1>2, <1>5, LeftIs
  <2> QED BY <1>1, <1>5, <2>1, <2>2, LeftIs
<1>10. LeftOf' = [u \in Timer |-> IF LeftOf[u] = None THEN None ELSE LeftOf[u] - 1]
  <2>1. LeftOf' = [t \in Timer |-> LeftOf'[t]]
    BY DEF LeftOf
  <2> QED BY <1>9, <2>1
<1>11. \A u \in Timer : LeftOf[u] # 0
  BY <1>2, <1>5, LeftIs
<1>12. Again = None /\ Again' = None
  BY <1>1 DEF Again
<1>13. Timers!Service!Tick
  BY <1>1, <1>10, <1>11, <1>12 DEF Timers!Service!Tick, LeftOf, Again
<1> QED BY <1>4, <1>7, <1>8, <1>13 DEF CalendarInv, Serves, Timers!Service!ServiceNext

LEMMA ExpireServes ==
  ASSUME PartsAssumption, CalendarInv, NEW t \in Timer, Timers!Expire(t)
  PROVE  CalendarInv' /\ Serves
<1>1. /\ checking = TRUE /\ handler = None /\ list # <<>> /\ t = Head(list) /\ Timers!Expired(t)
      /\ list' = Tail(list) /\ temp' = LinkFirst(temp, t)
      /\ active' = IF t \in periodic THEN active ELSE active \ {t}
      /\ handler' = t /\ due' = [due EXCEPT ![t] = 0]
      /\ UNCHANGED <<tick, time, periodic, checking, stopping>>
  BY TimerLists DEF Timers!Expire, Timers!settings, CalendarInv, SettingsOK
<1>2. list \in Seq(Timer) /\ Once(list) /\ temp = <<>> /\ None \notin Timer
  BY <1>1, TickConstants DEF CalendarInv, InTime, Handling
<1>3. Linked(list, t) /\ TicksLeft(t) = 0 /\ t \in active
  BY <1>1, <1>2, HeadFacts, NoneExpired DEF CalendarInv, InTime
<1>4. temp' = <<t>>
  BY <1>1, <1>2 DEF LinkFirst
<1>5. SettingsOK'
  <2>1. 0 \in TickRange
    BY TickConstants DEF TickRange
  <2> QED BY <1>1, <2>1 DEF CalendarInv, SettingsOK
<1>6. /\ list' \in Seq(Timer) /\ Once(list')
      /\ \A m : Linked(list', m) <=> Linked(list, m) /\ m # t
  BY <1>1, <1>2, TailFacts
<1>7. \A u \in Timer \ {t} : due'[u] = due[u] /\ TicksLeft(u)' = TicksLeft(u) /\ (u \in active => u \in active')
  BY <1>1 DEF TicksLeft, CalendarInv, SettingsOK
<1>8. InTime'
  <2>1. ASSUME NEW x \in Timer, NEW y \in Timer, Before(list', x, y)
        PROVE  TicksLeft(x)' <= TicksLeft(y)'
    <3>1. Linked(list', x) /\ Linked(list', y)
      BY <2>1 DEF Before, Linked
    <3>2. Before(list, x, y)
      BY <1>1, <1>2, <2>1, TailOrder
    <3> QED BY <1>6, <1>7, <3>1, <3>2 DEF CalendarInv, InTime
  <2> QED BY <1>1, <1>6, <1>7, <2>1 DEF CalendarInv, InTime
<1>9. Handling'
  BY <1>1, <1>2, <1>4, <1>6 DEF Handling
<1>10. LeftOf' = [LeftOf EXCEPT ![t] = None]
  BY <1>1, <1>6, <1>7, LeftOff
<1>11. LeftOf[t] = 0
  BY <1>3, LeftIs
<1>12. Again' = IF t \in periodic THEN t ELSE None
  <2>1. temp' # <<>> /\ handler' = t /\ periodic' = periodic
    BY <1>1, <1>4
  <2>2. t \in periodic => t \in active'
    BY <1>1, <1>3
  <2> QED BY <2>1, <2>2 DEF Again
<1>13. Timers!Service!Fire(t)
  BY <1>1, <1>10, <1>11, <1>12 DEF Timers!Service!Fire, LeftOf, Again
<1> QED BY <1>5, <1>8, <1>9, <1>13 DEF CalendarInv, Serves, Timers!Service!ServiceNext

LEMMA ReturnServes ==
  ASSUME PartsAssumption, CalendarInv, Timers!HandlerReturns
  PROVE  CalendarInv' /\ Serves
<1>1. /\ handler # None /\ handler \in Timer /\ temp' = <<>> /\ handler' = None
      /\ UNCHANGED <<tick, time, periodic, checking, stopping>> /\ checking = TRUE
  BY DEF Timers!HandlerReturns, Timers!settings, CalendarInv, SettingsOK, Handling
<1>2. Handling' /\ Again' = None
  BY <1>1 DEF Handling, Again
<1>3. CASE Again # None
  <2>1. PICK s \in Timer : s = handler
    BY <1>1
  <2>2. /\ Timers!StartFrom(s, list, active \ {s})
        /\ Again = s /\ s \in active
    BY <1>3, <2>1 DEF Timers!HandlerReturns, Again
  <2>3. active' = active
    BY <2>2 DEF Timers!StartFrom
  <2>4. /\ InTime' /\ due' \in [Timer -> TickRange] /\ TicksLeft(s)' = time[s]
        /\ \A u \in Timer \ {s} : TicksLeft(u)' = TicksLeft(u)
        /\ \A m : Linked(list', m) <=> Linked(list, m) \/ m = s
    <3>1. /\ SettingsOK /\ InTime /\ tick' = tick /\ checking' = checking
          /\ \A u \in Timer \ {s} : u \in active => u \in active'
      BY <1>1, <2>3 DEF CalendarInv
    <3> QED BY <2>2, <3>1, OnInTime
  <2>5. LeftOf' = [LeftOf EXCEPT ![Again] = time[Again]]
    <3>1. LeftOf' = [LeftOf EXCEPT ![s] = time[s]]
      BY <2>4, LeftOn
    <3> QED BY <2>2, <3>1
  <2>7. SettingsOK'
    BY <1>1, <2>3, <2>4 DEF CalendarInv, SettingsOK
  <2>6. Timers!Service!Return
    BY <1>1, <1>2, <1>3, <2>5 DEF Timers!Service!Return, LeftOf, Again
  <2> QED BY <1>2, <2>4, <2>7, <2>6 DEF CalendarInv, Serves, Timers!Service!ServiceNext
<1>4. CASE Again = None
  <2>1. UNCHANGED <<list, due, active>>
    BY <1>1, <1>4 DEF Timers!HandlerReturns, Again
  <2>2. SettingsOK'
    BY <1>1, <2>1 DEF CalendarInv, SettingsOK
  <2>3. InTime'
    BY <1>1, <2>1 DEF CalendarInv, InTime, TicksLeft
  <2>4. LeftOf' = LeftOf
    BY <1>1, <2>1, LeftSame
  <2>5. Timers!Service!Return
    BY <1>1, <1>2, <1>4, <2>4 DEF Timers!Service!Return, LeftOf, Again
  <2> QED BY <1>2, <2>2, <2>3, <2>5 DEF CalendarInv, Serves, Timers!Service!ServiceNext
<1> QED BY <1>3, <1>4

LEMMA CheckServes ==
  ASSUME PartsAssumption, CalendarInv, Timers!CheckDone
  PROVE  CalendarInv' /\ Serves
<1>1. /\ checking' = FALSE /\ handler = None
      /\ UNCHANGED <<tick, list, temp, due, time, periodic, active, handler, stopping>>
  BY DEF Timers!CheckDone, Timers!settings
<1>2. \A u \in Timer : Linked(list, u) => TicksLeft(u) > 0
  BY NoneExpired DEF CalendarInv, Timers!CheckDone
<1>3. SettingsOK' /\ Handling'
  BY <1>1 DEF CalendarInv, SettingsOK, Handling
<1>4. InTime'
  BY <1>1, <1>2 DEF CalendarInv, InTime, TicksLeft
<1>5. LeftOf' = LeftOf /\ Again' = Again
  BY <1>1, LeftSame DEF Again
<1>6. UNCHANGED Timers!Service!serviceVars
  BY <1>1, <1>5 DEF Timers!Service!serviceVars, LeftOf, Again
<1> QED BY <1>3, <1>4, <1>6 DEF CalendarInv, Serves

LEMMA CalendarStart ==
  ASSUME PartsAssumption, Timers!Init
  PROVE  CalendarInv /\ Timers!Service!ServiceInit
<1>1. /\ tick = 0 /\ list = <<>> /\ temp = <<>> /\ due = [t \in Timer |-> 0]
      /\ time \in [Timer -> Times] /\ active = {} /\ periodic \in SUBSET Timer
      /\ checking = FALSE /\ handler = None /\ stopping = None
  BY DEF Timers!Init
<1>2. 0 \in TickRange
  BY TickConstants DEF TickRange
<1>3. SettingsOK /\ Handling
  BY <1>1, <1>2 DEF SettingsOK, Handling
<1>4. InTime
  BY <1>1 DEF InTime, Once, Linked, Before
<1>5. \A t \in Timer : Timers!Left(t) = None
  BY <1>1 DEF Timers!Left, Timers!Linked
<1>6. Timers!Service!ServiceInit
  BY <1>1, <1>5 DEF Timers!Service!ServiceInit
<1> QED BY <1>3, <1>4, <1>6 DEF CalendarInv

LEMMA CalendarStep ==
  ASSUME PartsAssumption, CalendarInv, Timers!Next
  PROVE  CalendarInv' /\ Serves
<1>1. ASSUME NEW t \in Timer, Timers!Calling, Timers!Start(t) \/ Timers!Detach(t)
      PROVE  CalendarInv' /\ Serves
  BY <1>1, StartServes, UnsetServes DEF Timers!Detach, CalendarInv, SettingsOK
<1>2. ASSUME NEW t \in Timer, Timers!StopInHandler(t)
      PROVE  CalendarInv' /\ Serves
  BY <1>2, UnsetServes DEF Timers!StopInHandler, CalendarInv, SettingsOK
<1>3. ASSUME stopping # None, Timers!StopSection
      PROVE  CalendarInv' /\ Serves
  BY <1>3, UnsetServes DEF Timers!StopSection, CalendarInv, SettingsOK
<1> QED BY <1>1, <1>2, <1>3, TickServes, ReturnServes, CheckServes, ExpireServes, ControlServes
     DEF Timers!Next

\* timer.c: whatever threads and handlers start, stop, detach and change, each timer has its
\* handler called at its tick, once, and a periodic one starts again unless its handler
\* has dealt with it.
THEOREM TimersKeepPromise == PartsSpec => IsTimerService
<1>1. PartsInit => CalendarInv /\ Timers!Service!ServiceInit
  BY CalendarStart, PartsAssumption DEF PartsInit
<1>2. CalendarInv /\ [PartsNext]_partsVars => CalendarInv' /\ [Timers!Service!ServiceNext]_(Timers!Service!serviceVars)
  <2> SUFFICES ASSUME CalendarInv, [PartsNext]_partsVars
               PROVE  CalendarInv' /\ Serves
    BY DEF Serves
  <2>1. CASE UNCHANGED timers
    <3>1. LeftOf' = LeftOf /\ Again' = Again
      BY <2>1, LeftSame DEF timers, Again
    <3>2. UNCHANGED Timers!Service!serviceVars
      BY <2>1, <3>1 DEF timers, Timers!Service!serviceVars, LeftOf, Again
    <3>3. CalendarInv'
      BY <2>1 DEF timers, CalendarInv, SettingsOK, InTime, Handling, TicksLeft
    <3> QED BY <3>2, <3>3 DEF Serves
  <2>2. CASE PartsNext /\ part = "timers"
    BY <2>2, CalendarStep, PartsAssumption DEF PartsNext
  <2> QED BY <2>1, <2>2 DEF partsVars, PartsNext, OthersStand
<1> QED BY <1>1, <1>2, PTL DEF PartsSpec, IsTimerService, Timers!IsTimerService, Timers!Service!ServiceSpec

-----------------------------------------------------------------------------
(* The command line *)

\* The first n characters of l are a line, and the others NULs.
IsLine(l, n) ==
  /\ n \in 0..(CmdSize - 1)
  /\ l = Shell!Cut(l, n)
  /\ \A i \in 0..(n - 1) : l[i] # None

LineInv == lineCurpos \in 0..linePosition /\ IsLine(line, linePosition)

\* The commands of the history are lines, and none of them is empty.
HistoryInv ==
  /\ DOMAIN cmdHistory = 0..(Lines - 1)
  /\ historyCount \in 0..Lines /\ currentHistory \in 0..historyCount
  /\ \A i \in 0..(historyCount - 1) : \E n \in 1..(CmdSize - 1) : IsLine(cmdHistory[i], n)
  /\ \A i \in 1..(historyCount - 1) : cmdHistory[i] # cmdHistory[i - 1]

ShellInv == LineInv /\ HistoryInv

LEMMA LineSizes ==
  ASSUME PartsAssumption
  PROVE  /\ CmdSize \in Nat /\ CmdSize > 1 /\ Lines \in Nat /\ Lines > 0
         /\ None \notin Typed
         /\ \A c \in Commands : c \in Seq(Typed) /\ Len(c) < CmdSize
BY DEF PartsAssumption, Shell!ShellConstants

LEMMA LengthIs ==
  ASSUME PartsAssumption, NEW l, NEW n, IsLine(l, n)
  PROVE  Shell!Length(l) = n
<1> DEFINE Ends(m) == (m = CmdSize \/ l[m] = None) /\ \A i \in 0..(m - 1) : l[i] # None
<1>1. CmdSize \in Nat /\ n \in 0..(CmdSize - 1) /\ Shell!Index = 0..(CmdSize - 1)
  BY LineSizes DEF IsLine, Shell!Index
<1>2. \A i \in Shell!Index : i >= n => l[i] = None
  <2>1. l = [i \in Shell!Index |-> IF i < n THEN l[i] ELSE None]
    BY DEF IsLine, Shell!Cut
  <2>2. ASSUME NEW i \in Shell!Index, i >= n PROVE l[i] = None
    <3>1. ~(i < n)
      BY <1>1, <2>2
    <3> QED BY <2>1, <2>2, <3>1
  <2> QED BY <2>2
<1>3. \A i \in 0..(n - 1) : l[i] # None
  BY DEF IsLine
<1>4. n \in 0..CmdSize /\ Ends(n)
  BY <1>1, <1>2, <1>3
<1>5. ASSUME NEW m \in 0..CmdSize, Ends(m) PROVE m = n
  <2>1. CASE m < n
    <3>1. m \in 0..(n - 1) /\ m # CmdSize
      BY <1>1, <2>1
    <3> QED BY <1>3, <1>5, <3>1
  <2>2. CASE m > n
    <3>1. n \in 0..(m - 1) /\ n \in Shell!Index
      BY <1>1, <2>2
    <3> QED BY <1>1, <1>2, <1>5, <3>1
  <2> QED BY <1>1, <2>1, <2>2
<1>6. Shell!Length(l) = CHOOSE m \in 0..CmdSize : Ends(m)
  BY Zenon DEF Shell!Length
<1> HIDE DEF Ends
<1> QED BY <1>4, <1>5, <1>6

LEMMA CutLine ==
  ASSUME NEW l, NEW n, IsLine(l, n)
  PROVE  Shell!Cut(l, n) = l /\ DOMAIN l = Shell!Index
BY DEF IsLine, Shell!Cut

\* What Show leaves is a line when it is given one.
LEMMA ShowLine ==
  ASSUME PartsAssumption, NEW l, NEW n, IsLine(l, n), Shell!Show(l)
  PROVE  LineInv'
<1>1. line' = l /\ linePosition' = n /\ lineCurpos' = n /\ n \in Nat
  BY LengthIs, LineSizes DEF Shell!Show, IsLine
<1>2. IsLine(line, linePosition)'
  BY <1>1 DEF IsLine, Shell!Cut, Shell!Index
<1>3. (lineCurpos \in 0..linePosition)'
  BY <1>1
<1> QED BY <1>2, <1>3 DEF LineInv

\* A line is what has its characters, and NULs behind them.
LEMMA LineMade ==
  ASSUME PartsAssumption, NEW l, NEW n \in 0..(CmdSize - 1), l = [i \in Shell!Index |-> l[i]],
         \A i \in Shell!Index : l[i] = None <=> i >= n
  PROVE  IsLine(l, n)
<1>1. CmdSize \in Nat /\ Shell!Index = 0..(CmdSize - 1)
  BY LineSizes DEF Shell!Index
<1>2. \A i \in 0..(n - 1) : i \in Shell!Index /\ ~(i >= n)
  BY <1>1
<1>3. \A i \in Shell!Index : l[i] = IF i < n THEN l[i] ELSE None
  BY <1>1
<1>4. l = Shell!Cut(l, n)
  BY <1>3 DEF Shell!Cut
<1> QED BY <1>2, <1>4 DEF IsLine

LEMMA LineChars ==
  ASSUME PartsAssumption, NEW l, NEW n, IsLine(l, n)
  PROVE  /\ l = [i \in Shell!Index |-> l[i]] /\ Shell!Index = 0..(CmdSize - 1)
         /\ \A i \in Shell!Index : l[i] = None <=> i >= n
<1>1. CmdSize \in Nat /\ n \in 0..(CmdSize - 1) /\ Shell!Index = 0..(CmdSize - 1)
  BY LineSizes DEF IsLine, Shell!Index
<1>2. l = [i \in Shell!Index |-> IF i < n THEN l[i] ELSE None]
  BY DEF IsLine, Shell!Cut
<1>3. ASSUME NEW i \in Shell!Index PROVE l[i] = None <=> i >= n
  <2>1. CASE i < n
    <3>1. i \in 0..(n - 1) /\ ~(i >= n)
      BY <1>1, <2>1
    <3> QED BY <3>1 DEF IsLine
  <2>2. CASE ~(i < n)
    <3>1. i >= n
      BY <1>1, <2>2
    <3>2. l[i] = None
      BY <1>2, <2>2
    <3> QED BY <3>1, <3>2
  <2> QED BY <2>1, <2>2
<1>4. l = [i \in Shell!Index |-> l[i]]
  BY <1>2
<1> QED BY <1>1, <1>3, <1>4

\* A sequence of characters fills a line.
LEMMA FilledLine ==
  ASSUME PartsAssumption, NEW s \in Seq(Typed), Len(s) < CmdSize
  PROVE  IsLine(Shell!Filled(s), Len(s))
<1> DEFINE l == Shell!Filled(s)
<1>1. CmdSize \in Nat /\ Shell!Index = 0..(CmdSize - 1) /\ Len(s) \in 0..(CmdSize - 1) /\ None \notin Typed
  BY LineSizes DEF Shell!Index
<1>2. \A i \in Shell!Index : l[i] = IF i < Len(s) THEN s[i + 1] ELSE None
  BY DEF Shell!Filled
<1>3. l = [i \in Shell!Index |-> l[i]]
  BY DEF Shell!Filled
<1> HIDE DEF l
<1>4. ASSUME NEW i \in Shell!Index PROVE l[i] = None <=> i >= Len(s)
  <2>1. CASE i < Len(s)
    <3>1. i + 1 \in 1..Len(s) /\ ~(i >= Len(s))
      BY <1>1, <2>1
    <3>2. s[i + 1] \in Typed
      BY <3>1
    <3> QED BY <1>1, <1>2, <2>1, <3>1, <3>2
  <2>2. CASE ~(i < Len(s))
    <3>1. i >= Len(s)
      BY <1>1, <2>2
    <3> QED BY <1>2, <2>2, <3>1
  <2> QED BY <2>1, <2>2
<1>5. IsLine(l, Len(s))
  BY <1>1, <1>3, <1>4, LineMade
<1> QED BY <1>5 DEF l

\* msh_auto_complete: what commands have in common is shorter than the buffer.
LEMMA CommonIsShort ==
  ASSUME PartsAssumption, NEW S \in SUBSET Commands, S # {}
  PROVE  Shell!Common(S) \in Seq(Typed) /\ Len(Shell!Common(S)) < CmdSize
<1> DEFINE H == Shell!Shared(S)
           name == CHOOSE c \in S : TRUE
           least == CHOOSE n \in H : \A m \in H : m <= n
<1>1. CmdSize \in Nat /\ \A c \in S : c \in Seq(Typed) /\ Len(c) \in Nat /\ Len(c) < CmdSize
  BY LineSizes
<1>2. name \in S
  OBVIOUS
<1>3. H \subseteq Nat /\ \A n \in H : n <= Len(name) /\ n <= CmdSize
  BY <1>1, <1>2 DEF Shell!Shared
<1>4. 0 \in H
  <2>1. \A t \in S : SubSeq(t, 1, 0) = <<>> /\ 0 <= Len(t)
    BY <1>1
  <2> QED BY <1>1, <2>1 DEF Shell!Shared
<1> HIDE DEF H, name
<1>5. \E n \in H : \A m \in H : m <= n
  <2> DEFINE I == {CmdSize - n : n \in H}
  <2>1. I \subseteq Nat /\ I # {}
    BY <1>1, <1>3, <1>4
  <2>2. PICK k \in I : \A i \in I : k <= i
    <3> HIDE DEF I
    <3> QED BY <2>1, Least
  <2>3. PICK n \in H : k = CmdSize - n
    OBVIOUS
  <2>4. ASSUME NEW m \in H PROVE m <= n
    <3>1. k <= CmdSize - m
      BY <2>2
    <3> QED BY <1>1, <1>3, <2>3, <3>1
  <2> QED BY <2>4
<1>6. least \in Nat /\ least <= Len(name)
  BY <1>3, <1>5
<1>7. Shell!Common(S) = SubSeq(name, 1, least)
  BY DEF Shell!Common, H, name
<1> HIDE DEF least
<1>8. name \in Seq(Typed) /\ Len(name) \in Nat /\ Len(name) < CmdSize
  BY <1>1, <1>2
<1>9. SubSeq(name, 1, least) \in Seq(Typed) /\ Len(SubSeq(name, 1, least)) = least
  BY <1>6, <1>8, SubSeqProperties
<1> QED BY <1>1, <1>6, <1>7, <1>8, <1>9

LEMMA CompletedLine ==
  ASSUME PartsAssumption, NEW l, NEW n, IsLine(l, n)
  PROVE  \E m : IsLine(Shell!Completed(l), m)
<1> DEFINE fits == {c \in Commands : Shell!Length(l) <= Len(c)
                                      /\ \A i \in 1..Shell!Length(l) : c[i] = l[i - 1]}
           s == Shell!Common(fits)
<1>1. Shell!Completed(l) = IF Shell!Length(l) = 0 \/ fits = {} THEN l ELSE Shell!Filled(s)
  BY DEF Shell!Completed
<1>2. fits # {} => IsLine(Shell!Filled(s), Len(s))
  <2>1. fits \in SUBSET Commands
    OBVIOUS
  <2> HIDE DEF fits
  <2> QED BY <2>1, CommonIsShort, FilledLine
<1> HIDE DEF fits, s
<1>3. CASE Shell!Length(l) = 0 \/ fits = {}
  BY <1>1, <1>3
<1>4. CASE ~(Shell!Length(l) = 0 \/ fits = {})
  BY <1>1, <1>2, <1>4
<1> QED BY <1>3, <1>4

\* A key that leaves the history alone.
LEMMA EditLine ==
  ASSUME PartsAssumption, ShellInv,
         \/ Shell!Left \/ Shell!Right \/ Shell!Tab \/ Shell!Backspace
         \/ \E ch \in Typed : Shell!Type(ch)
  PROVE  LineInv' /\ UNCHANGED <<cmdHistory, historyCount, currentHistory>>
<1>1. /\ line = [i \in Shell!Index |-> line[i]] /\ Shell!Index = 0..(CmdSize - 1)
      /\ \A i \in Shell!Index : line[i] = None <=> i >= linePosition
      /\ CmdSize \in Nat /\ linePosition \in 0..(CmdSize - 1) /\ lineCurpos \in 0..linePosition
      /\ linePosition \in Nat /\ lineCurpos \in Nat /\ lineCurpos <= linePosition
      /\ None \notin Typed
  BY LineChars, LineSizes DEF ShellInv, LineInv, IsLine
<1>2. CASE Shell!Left \/ Shell!Right
  <2>1. line' = line /\ linePosition' = linePosition
        /\ UNCHANGED <<cmdHistory, historyCount, currentHistory>>
    BY <1>2 DEF Shell!Left, Shell!Right, Shell!historyVars
  <2>2. lineCurpos' \in 0..linePosition
    BY <1>1, <1>2 DEF Shell!Left, Shell!Right
  <2>3. IsLine(line, linePosition)'
    BY <2>1 DEF ShellInv, LineInv, IsLine, Shell!Cut, Shell!Index
  <2> QED BY <2>1, <2>2, <2>3 DEF LineInv
<1>3. CASE Shell!Tab
  <2>1. Shell!Show(Shell!Completed(line)) /\ UNCHANGED <<cmdHistory, historyCount, currentHistory>>
    BY <1>3 DEF Shell!Tab, Shell!historyVars
  <2>2. PICK m : IsLine(Shell!Completed(line), m)
    BY CompletedLine DEF ShellInv, LineInv
  <2> QED BY <2>1, <2>2, ShowLine
<1>4. CASE Shell!Backspace
  <2>1. UNCHANGED <<cmdHistory, historyCount, currentHistory>>
    BY <1>4 DEF Shell!Backspace, Shell!historyVars
  <2>2. CASE lineCurpos = 0
    <3>1. UNCHANGED <<line, linePosition, lineCurpos>>
      BY <1>4, <2>2 DEF Shell!Backspace, Shell!lineVars
    <3> QED BY <2>1, <3>1 DEF ShellInv, LineInv, IsLine, Shell!Cut, Shell!Index
  <2>3. CASE lineCurpos # 0
    <3>1. /\ line' = Shell!Deleted /\ linePosition' = linePosition - 1
          /\ lineCurpos' = lineCurpos - 1
      BY <1>4, <2>3 DEF Shell!Backspace
    <3>2. /\ linePosition' \in 0..(CmdSize - 1) /\ lineCurpos' \in 0..linePosition'
          /\ lineCurpos > 0
      BY <1>1, <2>3, <3>1
    <3>3. /\ line' = [i \in Shell!Index |-> line'[i]]
          /\ \A i \in Shell!Index :
               line'[i] = CASE lineCurpos - 1 <= i /\ i < linePosition - 1 -> line[i + 1]
                            [] i = linePosition - 1 -> None
                            [] OTHER -> line[i]
      BY <3>1 DEF Shell!Deleted
    <3>4. ASSUME NEW i \in Shell!Index PROVE line'[i] = None <=> i >= linePosition'
      <4>1. i \in Nat /\ i <= CmdSize - 1
        BY <1>1
      <4>2. CASE lineCurpos - 1 <= i /\ i < linePosition - 1
        <5>0. i # linePosition - 1
          BY <1>1, <4>1, <4>2
        <5>1. line'[i] = line[i + 1]
          BY <3>3, <4>2, <5>0
        <5>2. i + 1 \in Shell!Index /\ ~(i + 1 >= linePosition) /\ ~(i >= linePosition - 1)
          BY <1>1, <4>1, <4>2
        <5> QED BY <1>1, <3>1, <5>1, <5>2
      <4>3. CASE i = linePosition - 1
        <5>1. line'[i] = None
          BY <1>1, <3>3, <4>1, <4>3
        <5>2. i >= linePosition - 1
          BY <1>1, <4>3
        <5> QED BY <3>1, <5>1, <5>2
      <4>4. CASE ~(lineCurpos - 1 <= i /\ i < linePosition - 1) /\ i # linePosition - 1
        <5>1. line'[i] = line[i]
          BY <3>3, <4>4
        <5>2. i >= linePosition <=> i >= linePosition - 1
          BY <1>1, <3>2, <4>1, <4>4
        <5> QED BY <1>1, <3>1, <5>1, <5>2
      <4> QED BY <4>2, <4>3, <4>4
    <3>5. IsLine(line', linePosition')
      BY <3>2, <3>3, <3>4, LineMade
    <3>6. IsLine(line, linePosition)'
      BY <3>5 DEF IsLine, Shell!Cut, Shell!Index
    <3> QED BY <2>1, <3>2, <3>6 DEF LineInv
  <2> QED BY <2>2, <2>3
<1>5. ASSUME NEW ch \in Typed, Shell!Type(ch)
      PROVE  LineInv' /\ UNCHANGED <<cmdHistory, historyCount, currentHistory>>
  <2>1. ~(linePosition >= CmdSize) /\ ch # None
    BY <1>1
  <2>2. /\ linePosition + 1 < CmdSize
        /\ line' = [i \in Shell!Index |->
                      CASE i = (IF lineCurpos < linePosition THEN lineCurpos ELSE linePosition) -> ch
                        [] lineCurpos < linePosition /\ lineCurpos < i /\ i <= linePosition -> line[i - 1]
                        [] OTHER -> line[i]]
        /\ linePosition' = IF linePosition + 1 >= CmdSize THEN 0 ELSE linePosition + 1
        /\ lineCurpos' = IF linePosition + 1 >= CmdSize THEN 0 ELSE lineCurpos + 1
        /\ UNCHANGED <<cmdHistory, historyCount, currentHistory>>
    BY <1>5, <2>1 DEF Shell!Type, Shell!historyVars
  <2>3. /\ linePosition' = linePosition + 1 /\ lineCurpos' = lineCurpos + 1
        /\ linePosition' \in 0..(CmdSize - 1) /\ lineCurpos' \in 0..linePosition'
    BY <1>1, <2>2
  <2>4. /\ line' = [i \in Shell!Index |-> line'[i]]
        /\ \A i \in Shell!Index :
             line'[i] = CASE i = lineCurpos -> ch
                          [] lineCurpos < i /\ i <= linePosition -> line[i - 1]
                          [] OTHER -> line[i]
    <3>1. (IF lineCurpos < linePosition THEN lineCurpos ELSE linePosition) = lineCurpos
      BY <1>1
    <3>2. \A i \in Shell!Index :
            lineCurpos < linePosition /\ lineCurpos < i /\ i <= linePosition
              <=> lineCurpos < i /\ i <= linePosition
      BY <1>1
    <3> QED BY <2>2, <3>1, <3>2
  <2>5. ASSUME NEW i \in Shell!Index PROVE line'[i] = None <=> i >= linePosition'
    <3>1. i \in Nat /\ i <= CmdSize - 1
      BY <1>1
    <3>2. CASE i = lineCurpos
      <4>1. ~(lineCurpos < i) /\ ~(i >= linePosition + 1)
        BY <1>1, <3>2
      <4>2. line'[i] = ch
        BY <2>4, <3>2, <4>1
      <4> QED BY <2>1, <2>3, <4>1, <4>2
    <3>3. CASE lineCurpos < i /\ i <= linePosition
      <4>0. i # lineCurpos
        BY <1>1, <3>1, <3>3
      <4>1. line'[i] = line[i - 1]
        BY <2>4, <3>3, <4>0
      <4>2. i - 1 \in Shell!Index /\ ~(i - 1 >= linePosition) /\ ~(i >= linePosition + 1)
        BY <1>1, <3>1, <3>3
      <4> QED BY <1>1, <2>3, <4>1, <4>2
    <3>4. CASE i # lineCurpos /\ ~(lineCurpos < i /\ i <= linePosition)
      <4>1. line'[i] = line[i]
        BY <2>4, <3>4
      <4>2. i >= linePosition <=> i >= linePosition + 1
        BY <1>1, <3>1, <3>4
      <4> QED BY <1>1, <2>3, <4>1, <4>2
    <3> QED BY <3>2, <3>3, <3>4
  <2>6. IsLine(line', linePosition')
    BY <2>3, <2>4, <2>5, LineMade
  <2>7. IsLine(line, linePosition)'
    BY <2>6 DEF IsLine, Shell!Cut, Shell!Index
  <2> QED BY <2>2, <2>3, <2>7 DEF LineInv
<1> QED BY <1>2, <1>3, <1>4, <1>5

\* The line that is pushed is behind another one, or the same command is not pushed.
LEMMA EnterLine ==
  ASSUME PartsAssumption, ShellInv, Shell!Enter
  PROVE  ShellInv'
<1> DEFINE again == historyCount > 0 /\ cmdHistory[historyCount - 1] = line
           full == historyCount = Lines
           skip == linePosition = 0 \/ again
<1>1. /\ CmdSize \in Nat /\ CmdSize > 1 /\ Lines \in Nat /\ Lines > 0
      /\ IsLine(line, linePosition) /\ linePosition \in 0..(CmdSize - 1)
      /\ DOMAIN cmdHistory = 0..(Lines - 1) /\ historyCount \in 0..Lines
      /\ \A i \in 0..(historyCount - 1) : \E n \in 1..(CmdSize - 1) : IsLine(cmdHistory[i], n)
      /\ \A i \in 1..(historyCount - 1) : cmdHistory[i] # cmdHistory[i - 1]
  BY LineSizes DEF ShellInv, LineInv, HistoryInv, IsLine
<1>2. Shell!Cut(line, linePosition) = line
  BY <1>1, CutLine
<1>3. /\ line' = Shell!Empty /\ linePosition' = 0 /\ lineCurpos' = 0
      /\ historyCount' = IF skip \/ full THEN historyCount ELSE historyCount + 1
      /\ cmdHistory' =
           CASE skip -> cmdHistory
             [] ~skip /\ ~full -> [cmdHistory EXCEPT ![historyCount] = line]
             [] OTHER -> [i \in 0..(Lines - 1) |->
                            IF i = Lines - 1 THEN line ELSE cmdHistory[i + 1]]
      /\ currentHistory' = historyCount'
  BY <1>2 DEF Shell!Enter, Shell!PushHistory
<1>4. LineInv'
  <2>1. IsLine(Shell!Empty, 0)
    <3>1. \A i \in Shell!Index : i \in Nat
      BY <1>1 DEF Shell!Index
    <3> QED BY <1>1, <3>1, LineMade DEF Shell!Empty
  <2>2. IsLine(line, linePosition)'
    BY <1>3, <2>1 DEF IsLine, Shell!Cut, Shell!Index
  <2>3. 0 \in 0..0
    OBVIOUS
  <2> QED BY <1>3, <2>2, <2>3 DEF LineInv
<1>5. CASE skip
  <2>1. cmdHistory' = cmdHistory /\ historyCount' = historyCount /\ currentHistory' = historyCount
    BY <1>3, <1>5
  <2>2. historyCount \in 0..historyCount
    BY <1>1
  <2>3. HistoryInv'
    BY <1>1, <2>1, <2>2 DEF HistoryInv
  <2> QED BY <1>4, <2>3 DEF ShellInv
<1>6. ASSUME ~skip PROVE /\ \E n \in 1..(CmdSize - 1) : IsLine(line, n)
                         /\ historyCount > 0 => line # cmdHistory[historyCount - 1]
  <2>1. linePosition \in 1..(CmdSize - 1)
    BY <1>1, <1>6
  <2> QED BY <1>1, <1>6, <2>1
<1>7. CASE ~skip /\ ~full
  <2>1. /\ cmdHistory' = [cmdHistory EXCEPT ![historyCount] = line]
        /\ historyCount' = historyCount + 1 /\ currentHistory' = historyCount + 1
    BY <1>3, <1>7
  <2>2. /\ historyCount \in Nat /\ historyCount \in 0..(Lines - 1) /\ historyCount + 1 \in 0..Lines
        /\ historyCount + 1 \in 0..(historyCount + 1)
    BY <1>1, <1>7
  <2>3. /\ DOMAIN cmdHistory' = 0..(Lines - 1) /\ cmdHistory'[historyCount] = line
        /\ \A i \in 0..(historyCount - 1) : cmdHistory'[i] = cmdHistory[i]
    BY <1>1, <2>1, <2>2
  <2>4. ASSUME NEW i \in 0..((historyCount + 1) - 1)
        PROVE  \E n \in 1..(CmdSize - 1) : IsLine(cmdHistory'[i], n)
    <3>1. i = historyCount \/ i \in 0..(historyCount - 1)
      BY <2>2
    <3> QED BY <1>1, <1>6, <1>7, <2>3, <3>1
  <2>5. ASSUME NEW i \in 1..((historyCount + 1) - 1)
        PROVE  cmdHistory'[i] # cmdHistory'[i - 1]
    <3>1. i - 1 \in 0..(historyCount - 1)
      BY <2>2
    <3>2. CASE i = historyCount
      <4>1. historyCount > 0
        BY <3>2, <2>2
      <4> QED BY <1>6, <1>7, <2>3, <3>1, <3>2, <4>1
    <3>3. CASE i # historyCount
      <4>1. i \in 1..(historyCount - 1) /\ i \in 0..(historyCount - 1)
        BY <2>2, <3>3
      <4> QED BY <1>1, <2>3, <3>1, <4>1
    <3> QED BY <3>2, <3>3
  <2>6. HistoryInv'
    BY <2>1, <2>2, <2>3, <2>4, <2>5 DEF HistoryInv, IsLine, Shell!Cut, Shell!Index
  <2> QED BY <1>4, <2>6 DEF ShellInv
<1>8. CASE ~skip /\ full
  <2>1. /\ cmdHistory' = [i \in 0..(Lines - 1) |-> IF i = Lines - 1 THEN line ELSE cmdHistory[i + 1]]
        /\ historyCount' = Lines /\ currentHistory' = Lines /\ historyCount = Lines
    BY <1>3, <1>8
  <2>2. Lines \in 0..Lines
    BY <1>1
  <2>3. /\ DOMAIN cmdHistory' = 0..(Lines - 1)
        /\ \A i \in 0..(Lines - 1) : cmdHistory'[i] = IF i = Lines - 1 THEN line ELSE cmdHistory[i + 1]
    BY <2>1
  <2>4. ASSUME NEW i \in 0..(Lines - 1)
        PROVE  \E n \in 1..(CmdSize - 1) : IsLine(cmdHistory'[i], n)
    <3>1. i # Lines - 1 => i + 1 \in 0..(Lines - 1)
      BY <1>1
    <3> QED BY <1>1, <1>6, <1>8, <2>1, <2>3, <3>1
  <2>5. ASSUME NEW i \in 1..(Lines - 1)
        PROVE  cmdHistory'[i] # cmdHistory'[i - 1]
    <3>1. i \in 0..(Lines - 1) /\ i - 1 \in 0..(Lines - 1) /\ i - 1 # Lines - 1 /\ (i - 1) + 1 = i
      BY <1>1
    <3>2. cmdHistory'[i - 1] = cmdHistory[i]
      BY <2>3, <3>1
    <3>3. CASE i = Lines - 1
      BY <1>1, <1>6, <1>8, <2>1, <2>3, <3>1, <3>2, <3>3
    <3>4. CASE i # Lines - 1
      <4>1. i + 1 \in 1..(Lines - 1) /\ (i + 1) - 1 = i
        BY <1>1, <3>4
      <4>2. cmdHistory'[i] = cmdHistory[i + 1]
        BY <2>3, <3>1, <3>4
      <4>3. cmdHistory[i + 1] # cmdHistory[(i + 1) - 1]
        BY <1>1, <2>1, <4>1
      <4> QED BY <3>2, <4>1, <4>2, <4>3
    <3> QED BY <3>3, <3>4
  <2>6. HistoryInv'
    BY <2>1, <2>2, <2>3, <2>4, <2>5 DEF HistoryInv, IsLine, Shell!Cut, Shell!Index
  <2> QED BY <1>4, <2>6 DEF ShellInv
<1> QED BY <1>5, <1>7, <1>8

LEMMA ShellStep ==
  ASSUME PartsAssumption, ShellInv, Shell!Next
  PROVE  ShellInv'
<1>1. /\ historyCount \in Nat /\ historyCount <= Lines /\ Lines \in Nat
      /\ currentHistory \in Nat /\ currentHistory <= historyCount
      /\ \A i \in 0..(historyCount - 1) : \E n \in 1..(CmdSize - 1) : IsLine(cmdHistory[i], n)
  BY LineSizes DEF ShellInv, HistoryInv
<1>2. ASSUME LineInv', UNCHANGED <<cmdHistory, historyCount>>, currentHistory' \in 0..historyCount
      PROVE  ShellInv'
  <2>1. HistoryInv'
    BY <1>2 DEF ShellInv, HistoryInv
  <2> QED BY <1>2, <2>1 DEF ShellInv
<1>3. UNCHANGED <<line, linePosition, lineCurpos>> => LineInv'
  <2> SUFFICES ASSUME UNCHANGED <<line, linePosition, lineCurpos>> PROVE LineInv'
    OBVIOUS
  <2>1. IsLine(line, linePosition)'
    BY DEF ShellInv, LineInv, IsLine, Shell!Cut, Shell!Index
  <2> QED BY <2>1 DEF ShellInv, LineInv
<1>4. ASSUME NEW i \in 0..(historyCount - 1), Shell!Show(cmdHistory[i])
      PROVE  LineInv'
  BY <1>1, <1>4, ShowLine
<1>5. currentHistory \in 0..historyCount
  BY DEF ShellInv, HistoryInv
<1>6. CASE Shell!Escape \/ Shell!Bracket \/ Shell!Ignored
  <2>1. UNCHANGED <<line, linePosition, lineCurpos, cmdHistory, historyCount, currentHistory>>
    BY <1>6 DEF Shell!Escape, Shell!Bracket, Shell!Ignored, Shell!lineVars, Shell!historyVars
  <2> QED BY <1>2, <1>3, <1>5, <2>1
<1>7. CASE Shell!Up
  <2>1. cmdHistory' = cmdHistory /\ historyCount' = historyCount
    BY <1>7 DEF Shell!Up
  <2>2. CASE currentHistory > 0
    <3>1. currentHistory' = currentHistory - 1 /\ Shell!Show(cmdHistory[currentHistory - 1])
      BY <1>7, <2>2 DEF Shell!Up
    <3>2. currentHistory - 1 \in 0..(historyCount - 1) /\ currentHistory - 1 \in 0..historyCount
      BY <1>1, <2>2
    <3> QED BY <1>2, <1>4, <2>1, <3>1, <3>2
  <2>3. CASE ~(currentHistory > 0)
    <3>1. UNCHANGED <<currentHistory, line, linePosition, lineCurpos>>
      BY <1>7, <2>3 DEF Shell!Up, Shell!lineVars
    <3> QED BY <1>2, <1>3, <1>5, <2>1, <3>1
  <2> QED BY <2>2, <2>3
<1>8. CASE Shell!Down
  <2>1. cmdHistory' = cmdHistory /\ historyCount' = historyCount
    BY <1>8 DEF Shell!Down
  <2>2. CASE historyCount = 0
    <3>1. UNCHANGED <<currentHistory, line, linePosition, lineCurpos>>
      BY <1>8, <2>2 DEF Shell!Down, Shell!lineVars
    <3> QED BY <1>2, <1>3, <1>5, <2>1, <3>1
  <2>3. CASE historyCount # 0
    <3> DEFINE to == IF currentHistory + 1 < historyCount THEN currentHistory + 1 ELSE historyCount - 1
    <3>1. currentHistory' = to /\ Shell!Show(cmdHistory[to])
      BY <1>8, <2>3 DEF Shell!Down
    <3>2. to \in 0..(historyCount - 1) /\ to \in 0..historyCount
      BY <1>1, <2>3
    <3> HIDE DEF to
    <3> QED BY <1>2, <1>4, <2>1, <3>1, <3>2
  <2> QED BY <2>2, <2>3
<1>9. CASE \/ Shell!Left \/ Shell!Right \/ Shell!Tab \/ Shell!Backspace
           \/ \E ch \in Typed : Shell!Type(ch)
  BY <1>2, <1>5, <1>9, EditLine
<1>10. CASE Shell!Enter
  BY <1>10, EnterLine
<1> QED BY <1>6, <1>7, <1>8, <1>9, <1>10 DEF Shell!Next

LEMMA ShellStart ==
  ASSUME PartsAssumption, Shell!Init
  PROVE  ShellInv
<1>1. /\ CmdSize \in Nat /\ CmdSize > 1 /\ Lines \in Nat /\ Lines > 0
      /\ Shell!Index = 0..(CmdSize - 1)
  BY LineSizes DEF Shell!Index
<1>2. /\ line = Shell!Empty /\ linePosition = 0 /\ lineCurpos = 0
      /\ cmdHistory = [i \in 0..(Lines - 1) |-> Shell!Empty]
      /\ historyCount = 0 /\ currentHistory = 0
  BY DEF Shell!Init
<1>3. IsLine(line, 0)
  <2>1. \A i \in Shell!Index : i >= 0
    BY <1>1
  <2> QED BY <1>1, <1>2, <2>1, LineMade DEF Shell!Empty
<1>4. LineInv
  BY <1>2, <1>3 DEF LineInv
<1>5. HistoryInv
  BY <1>1, <1>2 DEF HistoryInv
<1> QED BY <1>4, <1>5 DEF ShellInv

LEMMA ShellSays ==
  ASSUME PartsAssumption, ShellInv
  PROVE  Shell!LineExact /\ Shell!HistoryExact
<1>1. /\ CmdSize \in Nat /\ CmdSize > 1 /\ Lines \in Nat
      /\ linePosition \in 0..(CmdSize - 1) /\ lineCurpos \in 0..linePosition
      /\ historyCount \in 0..Lines /\ currentHistory \in 0..historyCount
  BY LineSizes DEF ShellInv, LineInv, HistoryInv, IsLine
<1>2. Shell!LineExact
  BY <1>1 DEF Shell!LineExact, ShellInv, LineInv, IsLine
<1>3. ASSUME NEW i \in 0..(historyCount - 1)
      PROVE  /\ cmdHistory[i] # Shell!Empty
             /\ cmdHistory[i] = Shell!Cut(cmdHistory[i], Shell!Length(cmdHistory[i]))
  <2>1. PICK n \in 1..(CmdSize - 1) : IsLine(cmdHistory[i], n)
    BY <1>3 DEF ShellInv, HistoryInv
  <2>2. Shell!Length(cmdHistory[i]) = n /\ Shell!Cut(cmdHistory[i], n) = cmdHistory[i]
    BY <2>1, LengthIs, CutLine
  <2>3. cmdHistory[i][0] # None /\ 0 \in Shell!Index
    <3>1. 0 \in 0..(n - 1) /\ 0 \in 0..(CmdSize - 1)
      BY <1>1
    <3> QED BY <2>1, <3>1 DEF IsLine, Shell!Index
  <2>4. cmdHistory[i] # Shell!Empty
    BY <2>3 DEF Shell!Empty
  <2> QED BY <2>2, <2>4
<1>4. Shell!HistoryExact
  BY <1>1, <1>3 DEF Shell!HistoryExact, ShellInv, HistoryInv
<1> QED BY <1>2, <1>4

-----------------------------------------------------------------------------
(* The listing of a class of objects *)

\* In a list without duplicates the order is one.
LEMMA OrderFacts ==
  ASSUME NEW S, NEW l \in Seq(S), Once(l)
  PROVE  /\ \A x, y : Before(l, x, y) => Linked(l, x) /\ Linked(l, y) /\ x # y
         /\ \A x, y, z : Before(l, x, y) /\ Before(l, y, z) => Before(l, x, z)
         /\ \A x, y : Linked(l, x) /\ Linked(l, y) /\ x # y => Before(l, x, y) \/ Before(l, y, x)
<1>1. DOMAIN l = 1..Len(l) /\ Len(l) \in Nat /\ \A i, j \in DOMAIN l : l[i] = l[j] => i = j
  BY DEF Once
<1>2. \A i, j \in DOMAIN l : i < j \/ i = j \/ j < i
  BY <1>1
<1>3. ASSUME NEW x, NEW y, Before(l, x, y) PROVE Linked(l, x) /\ Linked(l, y) /\ x # y
  <2>1. PICK i, j \in DOMAIN l : i < j /\ l[i] = x /\ l[j] = y
    BY <1>3 DEF Before
  <2>2. i # j
    BY <1>1, <2>1
  <2> QED BY <1>1, <2>1, <2>2 DEF Linked
<1>4. ASSUME NEW x, NEW y, NEW z, Before(l, x, y), Before(l, y, z) PROVE Before(l, x, z)
  <2>1. PICK i, j \in DOMAIN l : i < j /\ l[i] = x /\ l[j] = y
    BY <1>4 DEF Before
  <2>2. PICK p, q \in DOMAIN l : p < q /\ l[p] = y /\ l[q] = z
    BY <1>4 DEF Before
  <2>3. j = p
    BY <1>1, <2>1, <2>2
  <2>4. i < q
    BY <1>1, <2>1, <2>2, <2>3
  <2> QED BY <2>1, <2>2, <2>4 DEF Before
<1>5. ASSUME NEW x, NEW y, Linked(l, x), Linked(l, y), x # y PROVE Before(l, x, y) \/ Before(l, y, x)
  BY <1>2, <1>5 DEF Linked, Before
<1> QED BY <1>3, <1>4, <1>5

\* Of two lists in a row.
LEMMA ConcatOrder ==
  ASSUME NEW S, NEW l \in Seq(S), NEW m \in Seq(S)
  PROVE  /\ l \o m \in Seq(S)
         /\ \A x : Linked(l \o m, x) <=> Linked(l, x) \/ Linked(m, x)
         /\ \A x, y : Before(l \o m, x, y) <=>
              Before(l, x, y) \/ Before(m, x, y) \/ (Linked(l, x) /\ Linked(m, y))
<1> DEFINE r == l \o m
<1>1. /\ r \in Seq(S) /\ Len(r) = Len(l) + Len(m) /\ Len(l) \in Nat /\ Len(m) \in Nat
      /\ DOMAIN r = 1..(Len(l) + Len(m)) /\ DOMAIN l = 1..Len(l) /\ DOMAIN m = 1..Len(m)
      /\ \A i \in 1..(Len(l) + Len(m)) : r[i] = IF i <= Len(l) THEN l[i] ELSE m[i - Len(l)]
  BY ConcatProperties
<1> HIDE DEF r
<1>2. \A i \in DOMAIN l : i \in DOMAIN r /\ r[i] = l[i]
  BY <1>1
<1>3. ASSUME NEW i \in DOMAIN m PROVE i + Len(l) \in DOMAIN r /\ r[i + Len(l)] = m[i]
  <2>1. i + Len(l) \in 1..(Len(l) + Len(m)) /\ ~(i + Len(l) <= Len(l)) /\ (i + Len(l)) - Len(l) = i
    BY <1>1
  <2> QED BY <1>1, <2>1
<1>4. ASSUME NEW i \in DOMAIN r
      PROVE  \/ i \in DOMAIN l /\ r[i] = l[i]
             \/ ~(i \in DOMAIN l) /\ i - Len(l) \in DOMAIN m /\ r[i] = m[i - Len(l)]
  <2>1. CASE i <= Len(l)
    BY <1>1, <2>1
  <2>2. CASE ~(i <= Len(l))
    <3>1. i - Len(l) \in 1..Len(m) /\ i \notin 1..Len(l)
      BY <1>1, <2>2
    <3> QED BY <1>1, <2>2, <3>1
  <2> QED BY <2>1, <2>2
<1>5. \A x : Linked(r, x) <=> Linked(l, x) \/ Linked(m, x)
  <2>1. ASSUME NEW x, Linked(r, x) PROVE Linked(l, x) \/ Linked(m, x)
    BY <1>4, <2>1 DEF Linked
  <2>2. ASSUME NEW x, Linked(l, x) \/ Linked(m, x) PROVE Linked(r, x)
    BY <1>2, <1>3, <2>2 DEF Linked
  <2> QED BY <2>1, <2>2
<1>6. ASSUME NEW x, NEW y, Before(r, x, y)
      PROVE  Before(l, x, y) \/ Before(m, x, y) \/ (Linked(l, x) /\ Linked(m, y))
  <2>1. PICK i, j \in DOMAIN r : i < j /\ r[i] = x /\ r[j] = y
    BY <1>6 DEF Before
  <2>2. CASE j \in DOMAIN l
    <3>1. i \in DOMAIN l
      BY <1>1, <2>1, <2>2
    <3> QED BY <1>2, <2>1, <2>2, <3>1 DEF Before
  <2>3. CASE j \notin DOMAIN l
    <3>1. j - Len(l) \in DOMAIN m /\ m[j - Len(l)] = y
      BY <1>4, <2>1, <2>3
    <3>2. CASE i \in DOMAIN l
      BY <1>2, <2>1, <3>1, <3>2 DEF Linked
    <3>3. CASE i \notin DOMAIN l
      <4>1. i - Len(l) \in DOMAIN m /\ m[i - Len(l)] = x
        BY <1>4, <2>1, <3>3
      <4>2. i - Len(l) < j - Len(l)
        BY <1>1, <2>1
      <4> QED BY <3>1, <4>1, <4>2 DEF Before
    <3> QED BY <3>2, <3>3
  <2> QED BY <2>2, <2>3
<1>7. ASSUME NEW x, NEW y, Before(l, x, y) PROVE Before(r, x, y)
  BY <1>2, <1>7 DEF Before
<1>8. ASSUME NEW x, NEW y, Before(m, x, y) PROVE Before(r, x, y)
  <2>1. PICK i, j \in DOMAIN m : i < j /\ m[i] = x /\ m[j] = y
    BY <1>8 DEF Before
  <2>2. i + Len(l) < j + Len(l)
    BY <1>1, <2>1
  <2> QED BY <1>3, <2>1, <2>2 DEF Before
<1>9. ASSUME NEW x, NEW y, Linked(l, x), Linked(m, y) PROVE Before(r, x, y)
  <2>1. PICK i \in DOMAIN l : l[i] = x
    BY <1>9 DEF Linked
  <2>2. PICK j \in DOMAIN m : m[j] = y
    BY <1>9 DEF Linked
  <2>3. i < j + Len(l)
    BY <1>1, <2>1, <2>2
  <2> QED BY <1>2, <1>3, <2>1, <2>2, <2>3 DEF Before
<1> QED BY <1>1, <1>5, <1>6, <1>7, <1>8, <1>9 DEF r

\* The nodes behind one.
LEMMA BehindOrder ==
  ASSUME NEW S, NEW l \in Seq(S), Once(l), NEW n, Linked(l, n)
  PROVE  LET r == SubSeq(l, Position(l, n) + 1, Len(l)) IN
         /\ r \in Seq(S) /\ Once(r)
         /\ \A x : Linked(r, x) <=> Before(l, n, x)
         /\ \A x, y : Before(r, x, y) => Before(l, x, y)
<1> DEFINE p == Position(l, n)
           r == SubSeq(l, p + 1, Len(l))
<1>1. p \in DOMAIN l /\ l[p] = n /\ Len(l) \in Nat /\ DOMAIN l = 1..Len(l)
  BY DEF Position, Linked
<1> HIDE DEF p
<1>2. /\ r \in Seq(S) /\ Len(r) = Len(l) - p
      /\ \A i \in 1..(Len(l) - p) : r[i] = l[p + i]
  <2>1. p + 1 \in 1..(Len(l) + 1) /\ p \in Nat
    BY <1>1
  <2>2. /\ r \in Seq(S) /\ Len(r) = IF p + 1 <= Len(l) THEN Len(l) - (p + 1) + 1 ELSE 0
        /\ \A i \in 1..(Len(l) - (p + 1) + 1) : r[i] = l[(p + 1) + i - 1]
    BY <1>1, <2>1, SubSeqProperties
  <2> HIDE DEF r
  <2>3. Len(r) = Len(l) - p /\ Len(l) - (p + 1) + 1 = Len(l) - p
    BY <1>1, <2>1, <2>2
  <2>4. \A i \in 1..(Len(l) - p) : (p + 1) + i - 1 = p + i
    BY <1>1, <2>1
  <2> QED BY <2>2, <2>3, <2>4
<1> HIDE DEF r
<1>3. DOMAIN r = 1..(Len(l) - p) /\ \A i \in DOMAIN r : p + i \in DOMAIN l /\ p + i > p /\ r[i] = l[p + i]
  BY <1>1, <1>2
<1>4. \A j \in DOMAIN l : j > p => j - p \in DOMAIN r /\ r[j - p] = l[j]
  <2>1. ASSUME NEW j \in DOMAIN l, j > p PROVE j - p \in DOMAIN r /\ p + (j - p) = j
    BY <1>1, <1>3, <2>1
  <2> QED BY <1>3, <2>1
<1>5. ASSUME NEW x, Linked(r, x) PROVE Before(l, n, x)
  <2>1. PICK i \in DOMAIN r : r[i] = x
    BY <1>5 DEF Linked
  <2>2. p < p + i /\ p + i \in DOMAIN l /\ l[p + i] = x
    BY <1>1, <1>3, <2>1
  <2> QED BY <1>1, <2>2 DEF Before
<1>6. ASSUME NEW x, Before(l, n, x) PROVE Linked(r, x)
  <2>1. PICK i, j \in DOMAIN l : i < j /\ l[i] = n /\ l[j] = x
    BY <1>6 DEF Before
  <2>2. i = p /\ j > p
    BY <1>1, <2>1 DEF Once
  <2> QED BY <1>4, <2>1, <2>2 DEF Linked
<1>7. ASSUME NEW x, NEW y, Before(r, x, y) PROVE Before(l, x, y)
  <2>1. PICK i, j \in DOMAIN r : i < j /\ r[i] = x /\ r[j] = y
    BY <1>7 DEF Before
  <2>2. p + i < p + j
    BY <1>1, <1>3, <2>1
  <2> QED BY <1>3, <2>1, <2>2 DEF Before
<1>8. ASSUME NEW i \in DOMAIN r, NEW j \in DOMAIN r, r[i] = r[j] PROVE i = j
  <2>1. l[p + i] = l[p + j] /\ p + i \in DOMAIN l /\ p + j \in DOMAIN l
    BY <1>3, <1>8
  <2>2. p + i = p + j
    BY <2>1 DEF Once
  <2> QED BY <1>1, <1>3, <2>2
<1>9. Once(r)
  BY <1>8 DEF Once
<1> QED BY <1>2, <1>5, <1>6, <1>7, <1>9 DEF r, p

\* The first nodes of a list, and what is behind them.
LEMMA FirstOrder ==
  ASSUME NEW S, NEW l \in Seq(S), Once(l), NEW n \in 1..Len(l)
  PROVE  LET r == SubSeq(l, 1, n) IN
         /\ r \in Seq(S) /\ Len(r) = n /\ r[n] = l[n]
         /\ \A x : Linked(r, x) => x = l[n] \/ Before(l, x, l[n])
         /\ \A x : Linked(l, x) <=> Linked(r, x) \/ Before(l, l[n], x)
         /\ \A x, y : Before(r, x, y) => Before(l, x, y)
<1> DEFINE r == SubSeq(l, 1, n)
<1>1. Len(l) \in Nat /\ DOMAIN l = 1..Len(l) /\ n \in DOMAIN l /\ n \in Nat /\ n >= 1
  OBVIOUS
<1>2. r \in Seq(S) /\ Len(r) = n /\ \A i \in 1..n : r[i] = l[i]
  BY <1>1, SubSeqProperties
<1> HIDE DEF r
<1>3. DOMAIN r = 1..n /\ n \in DOMAIN r /\ r[n] = l[n] /\ \A i \in DOMAIN r : i \in DOMAIN l /\ r[i] = l[i] /\ i <= n
  BY <1>1, <1>2
<1>4. ASSUME NEW x, Linked(r, x) PROVE Linked(l, x) /\ (x = l[n] \/ Before(l, x, l[n]))
  <2>1. PICK i \in DOMAIN r : r[i] = x
    BY <1>4 DEF Linked
  <2>2. i \in DOMAIN l /\ l[i] = x /\ (i = n \/ i < n)
    BY <1>1, <1>3, <2>1
  <2> QED BY <1>1, <2>2 DEF Linked, Before
<1>5. ASSUME NEW x, Linked(l, x) PROVE Linked(r, x) \/ Before(l, l[n], x)
  <2>1. PICK i \in DOMAIN l : l[i] = x
    BY <1>5 DEF Linked
  <2>2. CASE i <= n
    <3>1. i \in DOMAIN r
      BY <1>1, <1>3, <2>2
    <3> QED BY <1>3, <2>1, <3>1 DEF Linked
  <2>3. CASE ~(i <= n)
    <3>1. n < i
      BY <1>1, <2>3
    <3> QED BY <1>1, <2>1, <3>1 DEF Before
  <2> QED BY <2>2, <2>3
<1>6. \A x, y : Before(r, x, y) => Before(l, x, y)
  BY <1>3 DEF Before
<1>7. \A x : Before(l, l[n], x) => Linked(l, x)
  BY DEF Before, Linked
<1> QED BY <1>2, <1>3, <1>4, <1>5, <1>6, <1>7 DEF r

\* Who stays keeps its place when another node leaves.
LEMMA UnlinkKeepsOrder ==
  ASSUME NEW S, NEW l \in Seq(S), Once(l), NEW n, NEW x, NEW y, Before(l, x, y), x # n, y # n
  PROVE  Before(Unlink(l, n), x, y)
<1> DEFINE r == Unlink(l, n)
<1>1. r \in Seq(S) /\ Once(r) /\ \A m : Linked(r, m) <=> Linked(l, m) /\ m # n
  BY UnlinkFacts
<1>2. ASSUME Before(r, y, x) PROVE FALSE
  <2>1. Before(l, y, x)
    BY <1>2, UnlinkOrder
  <2>2. Before(l, x, x)
    BY <2>1, OrderFacts
  <2> QED BY <2>2, OrderFacts
<1> HIDE DEF r
<1>3. Linked(l, x) /\ Linked(l, y) /\ x # y
  BY OrderFacts
<1>4. Before(r, x, y) \/ Before(r, y, x)
  BY <1>1, <1>3, OrderFacts
<1> QED BY <1>2, <1>4 DEF r

LEMMA LinkFirstOrder ==
  ASSUME NEW S, NEW l \in Seq(S), NEW n \in S, Once(l), ~Linked(l, n)
  PROVE  /\ LinkFirst(l, n) \in Seq(S) /\ Once(LinkFirst(l, n))
         /\ \A x : Linked(LinkFirst(l, n), x) <=> Linked(l, x) \/ x = n
         /\ \A x, y : Before(LinkFirst(l, n), x, y) <=> Before(l, x, y) \/ (x = n /\ Linked(l, y))
<1> DEFINE h == <<n>>
<1>1. h \in Seq(S) /\ (\A x : Linked(h, x) <=> x = n) /\ (\A x, y : ~Before(h, x, y))
  BY DEF Linked, Before
<1> HIDE DEF h
<1>2. LinkFirst(l, n) = h \o l
  BY DEF LinkFirst, h
<1> DEFINE r == h \o l
<1>3. /\ r \in Seq(S)
      /\ \A x : Linked(r, x) <=> Linked(l, x) \/ x = n
      /\ \A x, y : Before(r, x, y) <=> Before(l, x, y) \/ (x = n /\ Linked(l, y))
  BY <1>1, ConcatOrder
<1> HIDE DEF r
<1>4. Once(r)
  <2>1. ASSUME NEW i \in DOMAIN r, NEW j \in DOMAIN r, r[i] = r[j], i < j PROVE FALSE
    <3>1. Before(r, r[i], r[i])
      BY <2>1 DEF Before
    <3>2. Before(l, r[i], r[i]) \/ Linked(l, n)
      BY <1>3, <3>1
    <3> QED BY <3>2, OrderFacts
  <2>2. \A i, j \in DOMAIN r : i < j \/ i = j \/ j < i
    BY <1>3
  <2>3. ASSUME NEW i \in DOMAIN r, NEW j \in DOMAIN r, r[i] = r[j] PROVE i = j
    BY <2>1, <2>2, <2>3
  <2> QED BY <2>3 DEF Once
<1> QED BY <1>2, <1>3, <1>4 DEF r

LEMMA ListingLists ==
  /\ \A l, n : Listing!Unlink(l, n) = Unlink(l, n)
  /\ \A l, n : Listing!LinkFirst(l, n) = LinkFirst(l, n)
  /\ \A l, n : Listing!Position(l, n) = Position(l, n)
  /\ \A l, n : Listing!Linked(l, n) <=> Linked(l, n)
<1>1. \A l, n : Listing!Position(l, n) = Position(l, n)
  BY Zenon DEF Listing!Position, Position
<1>2. \A l, n : Listing!Unlink(l, n) = Unlink(l, n)
  BY Zenon DEF Listing!Unlink, Unlink, Listing!CutOut, CutOut, Listing!Position, Position, Listing!Linked, Linked
<1>3. \A l, n : Listing!LinkFirst(l, n) = LinkFirst(l, n)
  BY Zenon DEF Listing!LinkFirst, LinkFirst
<1>4. \A l, n : Listing!Linked(l, n) <=> Linked(l, n)
  BY Zenon DEF Listing!Linked, Linked
<1> QED BY <1>1, <1>2, <1>3, <1>4

LEMMA ThereIs ==
  ASSUME objects \in Seq(Obj) PROVE \A o : o \in Listing!There <=> Linked(objects, o)
<1>1. \A o : Linked(objects, o) => o \in Obj
  BY DEF Linked
<1> QED BY <1>1, ListingLists DEF Listing!There

\* What the command will fetch when nothing changes.
Unfetched(x) == listed /\ IF next = None THEN array = <<>> /\ Linked(objects, x)
                                     ELSE Before(objects, next, x)

ContainerOK ==
  /\ objects \in Seq(Obj) /\ Once(objects) /\ array \in Seq(Obj) /\ shown \in Seq(Obj)
  /\ typed \in SUBSET Obj /\ next \in Obj \union {None} /\ listed \in BOOLEAN
  /\ next # None => listed
  /\ next \in typed => Linked(objects, next)
  /\ \A o \in throughout : o \in typed /\ Linked(objects, o) /\ next \in typed \union {None}

\* An object that stays is shown, fetched or ahead, and these are in the order of the list.
StayInv ==
  /\ \A o \in throughout : Linked(shown, o) \/ Linked(array, o) \/ Unfetched(o)
  /\ \A x, y \in throughout :
       \/ Before(shown, x, y)
       \/ Before(array, x, y)
       \/ Linked(shown, x) /\ (Linked(array, y) \/ Unfetched(y))
       \/ Linked(array, x) /\ Unfetched(y)
       => Before(objects, x, y)

ListingInv == ContainerOK /\ StayInv

\* Objects come and go, and the command does not look.
LEMMA ListingWaits ==
  ASSUME ListingInv, ContainerOK', UNCHANGED <<listed, next, array, shown>>,
         throughout' \subseteq throughout,
         \A x, y \in throughout' : Before(objects, x, y) <=> Before(objects', x, y),
         \A x \in throughout' : next # None => (Before(objects, next, x) <=> Before(objects', next, x))
  PROVE  ListingInv'
<1>1. \A x \in throughout' : Linked(objects, x) /\ Linked(objects', x)
  BY DEF ListingInv, ContainerOK
<1>2. \A x \in throughout' : Unfetched(x)' <=> Unfetched(x)
  BY <1>1 DEF Unfetched
<1>3. \A o \in throughout' : Linked(shown', o) \/ Linked(array', o) \/ Unfetched(o)'
  BY <1>2 DEF ListingInv, StayInv
<1>4. \A x, y \in throughout' :
       \/ Before(shown', x, y)
       \/ Before(array', x, y)
       \/ Linked(shown', x) /\ (Linked(array', y) \/ Unfetched(y)')
       \/ Linked(array', x) /\ Unfetched(y)'
       => Before(objects', x, y)
  BY <1>2 DEF ListingInv, StayInv
<1> QED BY <1>3, <1>4 DEF ListingInv, StayInv

LEMMA ChangeStays ==
  ASSUME PartsAssumption, ListingInv, NEW o \in Obj,
         \/ Listing!InitType(o) \/ Listing!InitLink(o)
         \/ Listing!DetachType(o) \/ Listing!DetachUnlink(o)
  PROVE  ListingInv'
<1>1. /\ UNCHANGED <<listed, next, array, shown>>
      /\ objects \in Seq(Obj) /\ Once(objects) /\ array \in Seq(Obj) /\ shown \in Seq(Obj)
      /\ typed \in SUBSET Obj /\ next \in Obj \union {None} /\ listed \in BOOLEAN
      /\ (next # None => listed) /\ (next \in typed => Linked(objects, next))
      /\ None \notin Obj
  BY DEF Listing!InitType, Listing!InitLink, Listing!DetachType, Listing!DetachUnlink,
         Listing!command, ListingInv, ContainerOK, PartsAssumption, Listing!ListingConstants
<1>2. \A t \in throughout : t \in typed /\ Linked(objects, t) /\ next \in typed \union {None}
  BY DEF ListingInv, ContainerOK
<1>3. \A t : t \in Listing!There <=> Linked(objects, t)
  BY <1>1, ThereIs
<1>4. CASE Listing!InitType(o)
  <2>1. /\ o \notin typed /\ ~Linked(objects, o) /\ (~listed \/ o # next)
        /\ typed' = typed \union {o} /\ objects' = objects /\ throughout' = throughout
    BY <1>3, <1>4 DEF Listing!InitType, Listing!command
  <2>2. ContainerOK'
    BY <1>1, <1>2, <2>1 DEF ContainerOK
  <2> QED BY <1>1, <2>1, <2>2, ListingWaits
<1>5. CASE Listing!InitLink(o)
  <2>1. /\ o \in typed /\ ~Linked(objects, o)
        /\ objects' = LinkFirst(objects, o) /\ typed' = typed /\ throughout' = throughout
    BY <1>3, <1>5, ListingLists DEF Listing!InitLink, Listing!command
  <2>2. /\ objects' \in Seq(Obj) /\ Once(objects')
        /\ \A x : Linked(objects', x) <=> Linked(objects, x) \/ x = o
        /\ \A x, y : Before(objects', x, y) <=> Before(objects, x, y) \/ (x = o /\ Linked(objects, y))
    BY <1>1, <2>1, LinkFirstOrder
  <2>3. ContainerOK'
    BY <1>1, <1>2, <2>1, <2>2 DEF ContainerOK
  <2>4. \A x \in throughout : x # o
    BY <1>2, <2>1
  <2>5. throughout # {} /\ next # None => next # o
    BY <1>1, <1>2, <2>1
  <2> QED BY <1>1, <2>1, <2>2, <2>3, <2>4, <2>5, ListingWaits
<1>6. CASE Listing!DetachType(o)
  <2>1. /\ o \in typed /\ typed' = typed \ {o} /\ objects' = objects
        /\ throughout' = IF o = next THEN {} ELSE throughout \ {o}
    BY <1>6 DEF Listing!DetachType
  <2>2. ContainerOK'
    BY <1>1, <1>2, <2>1 DEF ContainerOK
  <2>3. throughout' \subseteq throughout
    BY <2>1
  <2> QED BY <1>1, <2>1, <2>2, <2>3, ListingWaits
<1>7. CASE Listing!DetachUnlink(o)
  <2>1. /\ o \notin typed /\ Linked(objects, o)
        /\ objects' = Unlink(objects, o) /\ typed' = typed /\ throughout' = throughout
    BY <1>3, <1>7, ListingLists DEF Listing!DetachUnlink, Listing!command
  <2>2. /\ objects' \in Seq(Obj) /\ Once(objects')
        /\ \A x : Linked(objects', x) <=> Linked(objects, x) /\ x # o
    BY <1>1, <2>1, UnlinkFacts
  <2>3. \A x, y : Before(objects', x, y) => Before(objects, x, y)
    BY <1>1, <2>1, UnlinkOrder
  <2>4. \A x, y : Before(objects, x, y) /\ x # o /\ y # o => Before(objects', x, y)
    BY <1>1, <2>1, UnlinkKeepsOrder
  <2>5. ContainerOK'
    BY <1>1, <1>2, <2>1, <2>2 DEF ContainerOK
  <2>6. \A x \in throughout : x # o /\ (next # None => next # o)
    BY <1>2, <2>1
  <2> QED BY <1>1, <2>1, <2>3, <2>4, <2>5, <2>6, ListingWaits
<1> QED BY <1>4, <1>5, <1>6, <1>7

LEMMA BeginStays ==
  ASSUME PartsAssumption, ListingInv, Listing!Begin
  PROVE  ListingInv'
<1>1. /\ listed' = TRUE /\ next' = None /\ array' = <<>> /\ shown' = <<>>
      /\ typed' = typed /\ objects' = objects
      /\ \A t \in throughout' : t \in typed /\ Linked(objects, t)
  BY ListingLists DEF Listing!Begin, Listing!container, Listing!There
<1>2. ContainerOK'
  <2>1. None \notin typed
    BY DEF ListingInv, ContainerOK, PartsAssumption, Listing!ListingConstants
  <2> QED BY <1>1, <2>1 DEF ListingInv, ContainerOK
<1>3. \A x : ~Linked(<<>>, x) /\ \A y : ~Before(<<>>, x, y)
  BY DEF Linked, Before
<1>4. \A x : Unfetched(x)' <=> Linked(objects, x)
  BY <1>1 DEF Unfetched
<1>5. StayInv'
  BY <1>1, <1>3, <1>4 DEF StayInv
<1> QED BY <1>2, <1>5 DEF ListingInv

LEMMA ShowStays ==
  ASSUME ListingInv, Listing!Show
  PROVE  ListingInv'
<1> DEFINE h == Head(array)
<1>1. /\ listed = TRUE /\ array # <<>>
      /\ shown' = IF h \in typed THEN Append(shown, h) ELSE shown
      /\ array' = Tail(array) /\ listed' = (array' # <<>> \/ next # None)
      /\ UNCHANGED <<typed, objects, next, throughout>>
  BY DEF Listing!Show, Listing!container, ListingInv, ContainerOK
<1>2. /\ array \in Seq(Obj) /\ shown \in Seq(Obj) /\ h \in Obj /\ array' \in Seq(Obj)
      /\ \A o \in throughout : o \in typed /\ Linked(objects, o) /\ next \in typed \union {None}
  BY <1>1 DEF ListingInv, ContainerOK
<1>3. array = <<h>> \o array' /\ <<h>> \in Seq(Obj)
  BY <1>1, <1>2
<1>4. (\A x : Linked(<<h>>, x) <=> x = h) /\ (\A x, y : ~Before(<<h>>, x, y))
  BY DEF Linked, Before
<1>5. /\ \A x : Linked(array, x) <=> x = h \/ Linked(array', x)
      /\ \A x, y : Before(array, x, y) <=> Before(array', x, y) \/ (x = h /\ Linked(array', y))
  <2> DEFINE s == <<h>>
  <2> HIDE DEF s, h
  <2>1. s \in Seq(Obj) /\ array = s \o array' /\ (\A x : Linked(s, x) <=> x = h) /\ (\A x, y : ~Before(s, x, y))
    BY <1>3, <1>4 DEF s
  <2> QED BY <1>2, <2>1, ConcatOrder
<1>6. ASSUME h \in typed
      PROVE  /\ shown' \in Seq(Obj)
             /\ \A x : Linked(shown', x) <=> Linked(shown, x) \/ x = h
             /\ \A x, y : Before(shown', x, y) <=> Before(shown, x, y) \/ (Linked(shown, x) /\ y = h)
  <2> DEFINE s == <<h>>
  <2>1. shown' = shown \o s
    BY <1>1, <1>2, <1>6
  <2> HIDE DEF s, h
  <2>2. s \in Seq(Obj) /\ (\A x : Linked(s, x) <=> x = h) /\ (\A x, y : ~Before(s, x, y))
    BY <1>3, <1>4 DEF s
  <2> QED BY <1>2, <2>1, <2>2, ConcatOrder
<1> HIDE DEF h
<1>7. \A x : Unfetched(x)' <=> Unfetched(x)
  <2>1. CASE next = None
    BY <1>1, <2>1 DEF Unfetched
  <2>2. CASE next # None
    BY <1>1, <2>2 DEF Unfetched
  <2> QED BY <2>1, <2>2
<1>8. ContainerOK'
  <2>1. shown' \in Seq(Obj)
    BY <1>1, <1>2, <1>6
  <2> QED BY <1>1, <1>2, <2>1 DEF ListingInv, ContainerOK
<1>9. \A o \in throughout' : Linked(shown', o) \/ Linked(array', o) \/ Unfetched(o)'
  BY <1>1, <1>2, <1>5, <1>6, <1>7 DEF ListingInv, StayInv
<1>10. ASSUME NEW x \in throughout, NEW y \in throughout,
              \/ Before(shown', x, y)
              \/ Before(array', x, y)
              \/ Linked(shown', x) /\ (Linked(array', y) \/ Unfetched(y)')
              \/ Linked(array', x) /\ Unfetched(y)'
       PROVE  Before(objects, x, y)
  <2>1. \/ Before(shown, x, y)
        \/ Before(array, x, y)
        \/ Linked(shown, x) /\ (Linked(array, y) \/ Unfetched(y))
        \/ Linked(array, x) /\ Unfetched(y)
    <3>1. CASE h \in typed
      BY <1>5, <1>6, <1>7, <1>10, <3>1
    <3>2. CASE h \notin typed
      BY <1>1, <1>5, <1>7, <1>10, <3>2
    <3> QED BY <3>1, <3>2
  <2> QED BY <2>1 DEF ListingInv, StayInv
<1>11. StayInv'
  BY <1>1, <1>9, <1>10 DEF StayInv
<1> QED BY <1>8, <1>11 DEF ListingInv

\* What is fetched next is the beginning of what is ahead.
LEMMA FetchFacts ==
  ASSUME PartsAssumption, ListingInv, Listing!GetNext, next = None \/ next \in typed
  PROVE  LET B == Listing!Behind(next) IN
         /\ B \in Seq(Obj) /\ Once(B)
         /\ \A x : Linked(B, x) <=> Unfetched(x)
         /\ \A x, y : Before(B, x, y) => Before(objects, x, y)
         /\ array' = SubSeq(B, 1, IF Fetched <= Len(B) THEN Fetched ELSE Len(B))
<1> DEFINE B == Listing!Behind(next)
<1>1. /\ objects \in Seq(Obj) /\ Once(objects) /\ listed = TRUE /\ array = <<>>
      /\ (next # None => Linked(objects, next)) /\ None \notin Obj
  BY DEF Listing!GetNext, ListingInv, ContainerOK, PartsAssumption, Listing!ListingConstants
<1>2. /\ B \in Seq(Obj) /\ Once(B)
      /\ \A x : Linked(B, x) <=> Unfetched(x)
      /\ \A x, y : Before(B, x, y) => Before(objects, x, y)
  <2>1. CASE next = None
    <3>1. next \notin Listing!There
      BY <1>1, <2>1 DEF Listing!There
    <3>2. B = objects
      BY <2>1, <3>1 DEF Listing!Behind
    <3> QED BY <1>1, <2>1, <3>2 DEF Unfetched
  <2>2. CASE next # None
    <3>1. next \in Listing!There
      BY <1>1, <2>2, ThereIs
    <3>2. B = SubSeq(objects, Position(objects, next) + 1, Len(objects))
      BY <2>2, <3>1, ListingLists DEF Listing!Behind
    <3> HIDE DEF B
    <3>3. /\ B \in Seq(Obj) /\ Once(B)
          /\ \A x : Linked(B, x) <=> Before(objects, next, x)
          /\ \A x, y : Before(B, x, y) => Before(objects, x, y)
      BY <1>1, <2>2, <3>2, BehindOrder
    <3> QED BY <1>1, <2>2, <3>3 DEF Unfetched
  <2> QED BY <2>1, <2>2
<1>3. ~(next # None /\ next \notin typed)
  OBVIOUS
<1>4. array' = Listing!UpTo(Fetched, B)
  BY <1>3 DEF Listing!GetNext
<1> HIDE DEF B
<1>5. Len(B) \in Nat /\ Fetched \in Nat
  BY <1>2 DEF PartsAssumption, Listing!ListingConstants
<1>6. Listing!UpTo(Fetched, B) = SubSeq(B, 1, IF Fetched <= Len(B) THEN Fetched ELSE Len(B))
  BY DEF Listing!UpTo
<1> QED BY <1>2, <1>4, <1>6 DEF B

LEMMA GetNextStays ==
  ASSUME PartsAssumption, ListingInv, Listing!GetNext
  PROVE  ListingInv'
<1>1. /\ objects \in Seq(Obj) /\ Once(objects) /\ shown \in Seq(Obj) /\ typed \in SUBSET Obj
      /\ None \notin Obj /\ Fetched \in Nat /\ Fetched >= 1
      /\ \A o \in throughout : o \in typed /\ Linked(objects, o) /\ next \in typed \union {None}
  BY DEF ListingInv, ContainerOK, PartsAssumption, Listing!ListingConstants
<1>2. /\ listed = TRUE /\ array = <<>>
      /\ next' = (IF Len(array') = Fetched THEN array'[Fetched] ELSE None)
      /\ listed' = (array' # <<>>)
      /\ throughout' = IF next' \in typed \union {None} THEN throughout ELSE {}
      /\ UNCHANGED <<typed, objects, shown>>
  BY DEF Listing!GetNext, Listing!container, ListingInv, ContainerOK
<1>3. \A x : ~Linked(<<>>, x) /\ \A y : ~Before(<<>>, x, y)
  BY DEF Linked, Before
<1>4. ASSUME array' \in Seq(Obj), next' # None => array' # <<>> /\ next' \in Obj /\ Linked(objects, next')
      PROVE  ContainerOK'
  BY <1>1, <1>2, <1>4 DEF ContainerOK
<1>5. CASE ~(next = None \/ next \in typed)
  <2>1. array' = <<>> /\ throughout = {}
    BY <1>1, <1>5 DEF Listing!GetNext
  <2>2. next' = None /\ throughout' = {}
    BY <1>1, <1>2, <2>1
  <2>3. ContainerOK'
    BY <1>4, <2>1, <2>2
  <2> QED BY <2>2, <2>3 DEF ListingInv, StayInv
<1>6. CASE next = None \/ next \in typed
  <2> DEFINE B == Listing!Behind(next)
  <2>1. /\ B \in Seq(Obj) /\ Once(B)
        /\ \A x : Linked(B, x) <=> Unfetched(x)
        /\ \A x, y : Before(B, x, y) => Before(objects, x, y)
        /\ array' = SubSeq(B, 1, IF Fetched <= Len(B) THEN Fetched ELSE Len(B))
    BY <1>6, FetchFacts
  <2> HIDE DEF B
  <2>2. \A x : Unfetched(x) => Linked(objects, x)
    <3>1. \A x : Before(objects, next, x) => Linked(objects, x)
      BY <1>1, OrderFacts
    <3> QED BY <3>1 DEF Unfetched
  <2>3. CASE ~(Fetched <= Len(B))
    <3>1. array' = B /\ Len(B) # Fetched
      BY <1>1, <2>1, <2>3
    <3>2. next' = None /\ throughout' = throughout
      BY <1>2, <3>1
    <3>3. ContainerOK'
      BY <1>4, <2>1, <3>1, <3>2
    <3>4. \A x : ~Unfetched(x)'
      BY <1>2, <3>2 DEF Unfetched
    <3>5. \A x : Linked(array', x) <=> Unfetched(x)
      BY <2>1, <3>1
    <3>6. \A x, y : Before(array', x, y) => Before(objects, x, y)
      BY <2>1, <3>1
    <3>7. \A o \in throughout : Linked(shown, o) \/ Unfetched(o)
      BY <1>2, <1>3 DEF ListingInv, StayInv
    <3>8. \A x, y \in throughout : Before(shown, x, y) \/ (Linked(shown, x) /\ Unfetched(y)) => Before(objects, x, y)
      BY DEF ListingInv, StayInv
    <3>9. StayInv'
      BY <1>2, <3>2, <3>4, <3>5, <3>6, <3>7, <3>8 DEF StayInv
    <3> QED BY <3>3, <3>9 DEF ListingInv
  <2>4. CASE Fetched <= Len(B)
    <3> DEFINE r == SubSeq(B, 1, Fetched)
               z == B[Fetched]
    <3>1. Fetched \in 1..Len(B)
      BY <1>1, <2>1, <2>4
    <3>2. /\ r \in Seq(Obj) /\ Len(r) = Fetched /\ r[Fetched] = z
          /\ \A x : Linked(r, x) => x = z \/ Before(B, x, z)
          /\ \A x : Linked(B, x) <=> Linked(r, x) \/ Before(B, z, x)
          /\ \A x, y : Before(r, x, y) => Before(B, x, y)
      BY <2>1, <3>1, FirstOrder
    <3>3. array' = r
      BY <2>1, <2>4
    <3>4. z \in Obj /\ Linked(B, z)
      BY <2>1, <3>1 DEF Linked
    <3> HIDE DEF r, z
    <3>5. next' = z /\ array' # <<>> /\ listed' = TRUE
      <4>1. Len(array') = Fetched /\ array'[Fetched] = z
        BY <3>2, <3>3
      <4>2. array' # <<>>
        BY <1>1, <4>1
      <4> QED BY <1>2, <4>1, <4>2
    <3>6. ContainerOK'
      BY <1>4, <2>1, <2>2, <3>2, <3>3, <3>4, <3>5
    <3>7. CASE z \notin typed
      <4>1. throughout' = {}
        BY <1>1, <1>2, <3>4, <3>5, <3>7
      <4> QED BY <3>6, <4>1 DEF ListingInv, StayInv
    <3>8. CASE z \in typed
      <4>1. throughout' = throughout
        BY <1>2, <3>5, <3>8
      <4>2. \A x : Unfetched(x)' <=> Before(objects, z, x)
        BY <1>1, <1>2, <3>4, <3>5 DEF Unfetched
      <4>3. \A x : Unfetched(x) => Linked(array', x) \/ Unfetched(x)'
        BY <2>1, <3>2, <3>3, <4>2
      <4>4. \A x : Linked(array', x) => Unfetched(x)
        BY <2>1, <3>2, <3>3
      <4>5. \A x, y : Before(array', x, y) => Before(objects, x, y)
        BY <2>1, <3>2, <3>3
      <4>6. \A x, y : Linked(array', x) /\ Unfetched(y)' => Before(objects, x, y)
        <5>1. \A x : Linked(array', x) => x = z \/ Before(objects, x, z)
          BY <2>1, <3>2, <3>3
        <5>2. \A x, y : Before(objects, x, z) /\ Before(objects, z, y) => Before(objects, x, y)
          BY <1>1, OrderFacts
        <5> QED BY <4>2, <5>1, <5>2
      <4>7. \A y : Unfetched(y)' => Unfetched(y)
        <5>1. CASE next = None
          <6>1. \A y : Before(objects, z, y) => Linked(objects, y)
            BY <1>1, OrderFacts
          <6> QED BY <1>2, <4>2, <5>1, <6>1 DEF Unfetched
        <5>2. CASE next # None
          <6>1. Before(objects, next, z)
            BY <2>1, <3>4, <5>2 DEF Unfetched
          <6>2. \A y : Before(objects, z, y) => Before(objects, next, y)
            BY <1>1, <6>1, OrderFacts
          <6> QED BY <1>2, <4>2, <5>2, <6>2 DEF Unfetched
        <5> QED BY <5>1, <5>2
      <4>8. \A o \in throughout : Linked(shown, o) \/ Unfetched(o)
        BY <1>2, <1>3 DEF ListingInv, StayInv
      <4>9. \A x, y \in throughout : Before(shown, x, y) \/ (Linked(shown, x) /\ Unfetched(y)) => Before(objects, x, y)
        BY DEF ListingInv, StayInv
      <4>10. \A o \in throughout' : Linked(shown', o) \/ Linked(array', o) \/ Unfetched(o)'
        BY <1>2, <4>1, <4>3, <4>8
      <4>11. \A x, y \in throughout' :
               \/ Before(shown', x, y)
               \/ Before(array', x, y)
               \/ Linked(shown', x) /\ (Linked(array', y) \/ Unfetched(y)')
               \/ Linked(array', x) /\ Unfetched(y)'
               => Before(objects', x, y)
        BY <1>2, <4>1, <4>4, <4>5, <4>6, <4>7, <4>9
      <4> QED BY <3>6, <4>10, <4>11 DEF ListingInv, StayInv
    <3> QED BY <3>7, <3>8
  <2> QED BY <2>3, <2>4
<1> QED BY <1>5, <1>6

LEMMA ListingStart ==
  ASSUME PartsAssumption, Listing!Init
  PROVE  ListingInv
<1>1. /\ typed = {} /\ objects = <<>> /\ listed = FALSE /\ next = None
      /\ array = <<>> /\ shown = <<>> /\ throughout = {}
  BY DEF Listing!Init
<1>2. ContainerOK
  <2>1. objects \in Seq(Obj) /\ array \in Seq(Obj) /\ shown \in Seq(Obj) /\ Once(objects)
    BY <1>1 DEF Once
  <2> QED BY <1>1, <2>1 DEF ContainerOK
<1> QED BY <1>1, <1>2 DEF ListingInv, StayInv

LEMMA ListingStep ==
  ASSUME PartsAssumption, ListingInv, Listing!Next
  PROVE  ListingInv'
<1>1. CASE \E o \in Obj : \/ Listing!InitType(o) \/ Listing!InitLink(o)
                          \/ Listing!DetachType(o) \/ Listing!DetachUnlink(o)
  BY <1>1, ChangeStays
<1>2. CASE Listing!Begin \/ Listing!GetNext \/ Listing!Show
  BY <1>2, BeginStays, GetNextStays, ShowStays
<1> QED BY <1>1, <1>2 DEF Listing!Next

\* The command ends having shown, in the order of the list, every object that stayed.
LEMMA ListingSays ==
  ASSUME PartsAssumption, ListingInv
  PROVE  Listing!ListsWhatStays
<1> DEFINE F == Listing!ToFetch
           a == shown \o array
           all == a \o F
<1>1. /\ objects \in Seq(Obj) /\ Once(objects) /\ array \in Seq(Obj) /\ shown \in Seq(Obj)
      /\ listed \in BOOLEAN /\ (next # None => listed) /\ None \notin Obj
      /\ \A o \in throughout : o \in typed /\ Linked(objects, o) /\ next \in typed \union {None}
      /\ next \in typed => Linked(objects, next)
  BY DEF ListingInv, ContainerOK, PartsAssumption, Listing!ListingConstants
<1>2. CASE throughout = {}
  BY <1>2 DEF Listing!ListsWhatStays
<1>3. CASE throughout # {}
  <2>1. next # None => Linked(objects, next)
    BY <1>1, <1>3
  <2>2. \A x : ~Linked(<<>>, x) /\ \A y : ~Before(<<>>, x, y)
    BY DEF Linked, Before
  <2>3. /\ F \in Seq(Obj)
        /\ \A x : Linked(F, x) <=> Unfetched(x)
        /\ \A x, y : Before(F, x, y) => Before(objects, x, y)
    <3>1. CASE ~listed \/ (next = None /\ array # <<>>)
      <4>1. F = <<>> /\ \A x : ~Unfetched(x)
        BY <1>1, <3>1 DEF Listing!ToFetch, Unfetched
      <4> QED BY <2>2, <4>1
    <3>2. CASE listed /\ next = None /\ array = <<>>
      <4>1. F = objects
        <5>1. next \notin Listing!There
          BY <1>1, <3>2 DEF Listing!There
        <5> QED BY <3>2, <5>1 DEF Listing!ToFetch, Listing!Behind
      <4>2. \A x : Linked(objects, x) <=> Unfetched(x)
        BY <3>2 DEF Unfetched
      <4> QED BY <1>1, <4>1, <4>2
    <3>3. CASE listed /\ next # None
      <4>1. F = SubSeq(objects, Position(objects, next) + 1, Len(objects))
        <5>1. next \in Listing!There
          BY <1>1, <2>1, <3>3, ThereIs
        <5> QED BY <3>3, <5>1, ListingLists DEF Listing!ToFetch, Listing!Behind
      <4> HIDE DEF F
      <4>2. /\ F \in Seq(Obj)
            /\ \A x : Linked(F, x) <=> Before(objects, next, x)
            /\ \A x, y : Before(F, x, y) => Before(objects, x, y)
        BY <1>1, <2>1, <3>3, <4>1, BehindOrder
      <4> QED BY <3>3, <4>2 DEF Unfetched
    <3> QED BY <1>1, <3>1, <3>2, <3>3
  <2> HIDE DEF F
  <2>4. /\ a \in Seq(Obj)
        /\ \A x : Linked(a, x) <=> Linked(shown, x) \/ Linked(array, x)
        /\ \A x, y : Before(a, x, y) <=>
             Before(shown, x, y) \/ Before(array, x, y) \/ (Linked(shown, x) /\ Linked(array, y))
    BY <1>1, ConcatOrder
  <2> HIDE DEF a
  <2>5. /\ all \in Seq(Obj)
        /\ \A x : Linked(all, x) <=> Linked(a, x) \/ Linked(F, x)
        /\ \A x, y : Before(all, x, y) <=>
             Before(a, x, y) \/ Before(F, x, y) \/ (Linked(a, x) /\ Linked(F, y))
    BY <2>3, <2>4, ConcatOrder
  <2> HIDE DEF all
  <2>6. \A o \in throughout : Linked(all, o)
    BY <2>3, <2>4, <2>5 DEF ListingInv, StayInv
  <2>7. \A x, y \in throughout : Before(all, x, y) => Before(objects, x, y)
    BY <2>3, <2>4, <2>5 DEF ListingInv, StayInv
  <2>8. \A o \in throughout : Listing!Linked(all, o)
    BY <2>6, ListingLists
  <2>9. ASSUME NEW i \in DOMAIN all, NEW j \in DOMAIN all, i < j, {all[i], all[j]} \subseteq throughout
        PROVE  Position(objects, all[i]) < Position(objects, all[j])
    <3>1. Before(all, all[i], all[j])
      BY <2>9 DEF Before
    <3>2. Before(objects, all[i], all[j])
      BY <2>7, <2>9, <3>1
    <3>3. PICK p, q \in DOMAIN objects : p < q /\ objects[p] = all[i] /\ objects[q] = all[j]
      BY <3>2 DEF Before
    <3>4. Position(objects, all[i]) = p /\ Position(objects, all[j]) = q
      BY <1>1, <3>3 DEF Position, Once
    <3> QED BY <3>3, <3>4
  <2>10. \A i, j \in DOMAIN all : i < j /\ {all[i], all[j]} \subseteq throughout =>
           Position(objects, all[i]) < Position(objects, all[j])
    BY <2>9
  <2>11. all = shown \o array \o Listing!ToFetch
    BY DEF all, a, F
  <2> QED BY <2>8, <2>10, <2>11, ListingLists DEF Listing!ListsWhatStays
<1> QED BY <1>2, <1>3

-----------------------------------------------------------------------------
(* The shell: its command line and its listings *)

\* shell.c, cmd.c, object.c: whatever is typed, and whatever objects come and go while a command
\* lists them, the line with its cursor and the history are consistent and a listing shows
\* each object that stays, in the order of the list.
THEOREM ShellIsExact == PartsSpec => []ShellExact
<1>1. PartsInit => ShellInv /\ ListingInv
  BY ShellStart, ListingStart, PartsAssumption DEF PartsInit
<1>2. ShellInv /\ ListingInv /\ [PartsNext]_partsVars => ShellInv' /\ ListingInv'
  <2> SUFFICES ASSUME ShellInv, ListingInv, [PartsNext]_partsVars PROVE ShellInv' /\ ListingInv'
    OBVIOUS
  <2>1. UNCHANGED shell => ShellInv'
    BY DEF shell, ShellInv, LineInv, HistoryInv
  <2>2. UNCHANGED listing => ListingInv'
    BY DEF listing, ListingInv, ContainerOK, StayInv, Unfetched
  <2>3. part = "shell" /\ PartsNext => ShellInv'
    BY ShellStep, PartsAssumption DEF PartsNext
  <2>4. part = "listing" /\ PartsNext => ListingInv'
    BY ListingStep, PartsAssumption DEF PartsNext
  <2>5. /\ UNCHANGED shell \/ (part = "shell" /\ PartsNext)
        /\ UNCHANGED listing \/ (part = "listing" /\ PartsNext)
    BY DEF partsVars, PartsNext, OthersStand
  <2> QED BY <2>1, <2>2, <2>3, <2>4, <2>5
<1>3. ShellInv /\ ListingInv => ShellExact
  BY ShellSays, ListingSays, PartsAssumption DEF ShellExact
<1> QED BY <1>1, <1>2, <1>3, PTL DEF PartsSpec
-----------------------------------------------------------------------------
(* The memory functions *)

\* A call that C allows.
CallOK ==
  /\ call.op \in {"memcpy", "memmove", "memset", "strncpy"}
  /\ call.dst \in Nat /\ call.src \in Nat /\ call.n \in Nat /\ call.nul \in Nat
  /\ call.dst + call.n <= Cells /\ call.src + call.n <= Cells
  /\ call.op \in {"memcpy", "strncpy"} =>
       call.dst + call.n <= call.src \/ call.src + call.n <= call.dst
  /\ call.op = "strncpy" => call.src <= call.nul

\* The bytes that a call has dealt with.
Dealt ==
  IF Functions!Down THEN (call.dst + call.n) - done .. call.dst + call.n - 1
                    ELSE call.dst .. call.dst + done - 1

BytesInv ==
  /\ done \in Nat /\ done <= call.n
  /\ call # Functions!NoCall =>
       /\ CallOK
       /\ ram \in [0..(Cells - 1) -> Nat \union {Filler}]
       /\ \A i \in 0..(Cells - 1) :
            ram[i] = IF i \in Dealt THEN Functions!Wanted(i) ELSE Functions!Before(call.nul)[i]

LEMMA BytesStart ==
  ASSUME Functions!Init
  PROVE  BytesInv
BY DEF Functions!Init, Functions!NoCall, BytesInv

LEMMA BytesCalled ==
  ASSUME PartsAssumption, Functions!AnyCall
  PROVE  BytesInv'
<1>1. Cells \in Nat /\ Most \in Nat /\ From \subseteq 0..Cells
  BY DEF PartsAssumption, Functions!MemoryConstants
<1>2. PICK dst \in 0..(Cells - 1), src \in From, n \in 0..Most :
        \/ \E o \in {"memcpy", "memmove"} : Functions!Call(o, dst, src, n, Cells)
        \/ Functions!Call("memset", dst, dst, n, Cells)
        \/ \E nul \in src .. src + n : Functions!Call("strncpy", dst, src, n, nul)
  BY DEF Functions!AnyCall, Functions!Cell
<1>3. PICK o \in {"memcpy", "memmove", "memset", "strncpy"}, s \in Nat, nul \in Nat :
        Functions!Call(o, dst, s, n, nul) /\ (o = "strncpy" => s <= nul)
  <2>1. dst \in Nat /\ src \in Nat /\ n \in Nat
    BY <1>1
  <2>2. CASE \E o \in {"memcpy", "memmove"} : Functions!Call(o, dst, src, n, Cells)
    BY <1>1, <2>1, <2>2
  <2>3. CASE Functions!Call("memset", dst, dst, n, Cells)
    BY <1>1, <2>1, <2>3
  <2>4. CASE \E nul \in src .. src + n : Functions!Call("strncpy", dst, src, n, nul)
    BY <1>1, <2>1, <2>4
  <2> QED BY <1>2, <2>2, <2>3, <2>4
<1>4. /\ dst + n <= Cells /\ s + n <= Cells
      /\ o \in {"memcpy", "strncpy"} => ~(s < dst + n /\ dst < s + n)
      /\ call' = [op |-> o, dst |-> dst, src |-> s, n |-> n, nul |-> nul]
      /\ ram' = Functions!Before(nul) /\ done' = 0
  BY <1>3 DEF Functions!Call, Functions!Overlap
<1>5. call'.op = o /\ call'.dst = dst /\ call'.src = s /\ call'.n = n /\ call'.nul = nul
  BY <1>4
<1>6. CallOK'
  BY <1>1, <1>3, <1>4, <1>5 DEF CallOK
<1>7. ~\E i \in 0..(Cells - 1) : i \in Dealt'
  BY <1>1, <1>4, <1>5 DEF Dealt
<1>8. ram' \in [0..(Cells - 1) -> Nat \union {Filler}]
  BY <1>1, <1>4 DEF Functions!Before, Functions!Cell, Functions!Nul
<1>9. \A i \in 0..(Cells - 1) :
        ram'[i] = IF i \in Dealt' THEN Functions!Wanted(i)' ELSE Functions!Before(call'.nul)[i]
  BY <1>4, <1>5, <1>7
<1> QED BY <1>1, <1>4, <1>5, <1>6, <1>8, <1>9 DEF BytesInv

\* A turn stays within the call, and takes several bytes only in rt_memset and rt_memcpy.
LEMMA ChunkFits ==
  ASSUME PartsAssumption, BytesInv, call # Functions!NoCall, Functions!Left > 0
  PROVE  /\ Functions!Chunk \in 1..(call.n - done)
         /\ Functions!Chunk # 1 => call.op \in {"memset", "memcpy"}
<1> DEFINE L == Functions!Left
           W == 4 * Long
<1>1. L \in Nat /\ L > 0 /\ L = call.n - done
  BY DEF Functions!Left, BytesInv, CallOK
<1>2. Long \in Nat /\ Long > 0
  BY DEF PartsAssumption, Functions!MemoryConstants
<1>3. Functions!ByWords => call.op \in {"memset", "memcpy"}
  BY DEF Functions!ByWords
<1>4. W \in Nat /\ W > 0
  BY <1>2
<1>5. Functions!Chunk = CASE Functions!ByWords /\ L >= W -> W
                          [] Functions!ByWords /\ Long <= L /\ L < W -> Long
                          [] OTHER -> 1
  BY DEF Functions!Chunk
<1> HIDE DEF L, W
<1>6. CASE Functions!ByWords /\ L >= W
  <2>1. Functions!Chunk = W
    BY <1>1, <1>2, <1>4, <1>5, <1>6
  <2> QED BY <1>1, <1>3, <1>4, <1>6, <2>1
<1>7. CASE Functions!ByWords /\ Long <= L /\ L < W
  <2>1. Functions!Chunk = Long
    BY <1>1, <1>2, <1>4, <1>5, <1>7
  <2> QED BY <1>1, <1>2, <1>3, <1>7, <2>1
<1>8. CASE ~(Functions!ByWords /\ L >= W) /\ ~(Functions!ByWords /\ Long <= L /\ L < W)
  <2>1. Functions!Chunk = 1
    BY <1>5, <1>8
  <2> QED BY <1>1, <2>1
<1> QED BY <1>6, <1>7, <1>8

\* The end of the string has been copied when its byte has been dealt with.
LEMMA PadsIs ==
  ASSUME PartsAssumption, BytesInv, call.op = "strncpy", done < call.n
  PROVE  Functions!Pads <=> done > 0 /\ call.src + done - 1 >= call.nul
<1>1. /\ Cells \in Nat /\ Filler \notin 0..Cells
  BY DEF PartsAssumption, Functions!MemoryConstants
<1>2. call # Functions!NoCall
  BY DEF Functions!NoCall
<1>3. /\ done \in Nat /\ CallOK
      /\ \A i \in 0..(Cells - 1) :
           ram[i] = IF i \in Dealt THEN Functions!Wanted(i) ELSE Functions!Before(call.nul)[i]
  BY <1>2 DEF BytesInv
<1>4. Dealt = call.dst .. call.dst + done - 1
  BY DEF Dealt, Functions!Down
<1>5. ASSUME NEW i \in 0..(done - 1)
      PROVE  ram[call.dst + i] = 0 <=> call.src + i >= call.nul
  <2>1. /\ call.dst \in Nat /\ call.src \in Nat /\ call.n \in Nat /\ call.nul \in Nat
        /\ call.dst + call.n <= Cells /\ call.src + call.n <= Cells
    BY <1>3 DEF CallOK
  <2>2. /\ call.dst + i \in 0..(Cells - 1) /\ call.dst + i \in call.dst .. call.dst + done - 1
        /\ call.dst + i \in call.dst .. call.dst + call.n - 1
        /\ call.src + i \in 0..(Cells - 1)
        /\ call.src + ((call.dst + i) - call.dst) = call.src + i
    BY <1>1, <1>3, <2>1
  <2>3. ram[call.dst + i] = Functions!Wanted(call.dst + i)
    BY <1>3, <1>4, <2>2
  <2>4. Functions!Wanted(call.dst + i) =
          IF call.src + i >= call.nul THEN 0 ELSE Functions!Before(call.nul)[call.src + i]
    BY <2>2 DEF Functions!Wanted, Functions!Nul
  <2>5. Functions!Before(call.nul)[call.src + i] = IF call.src + i = call.nul THEN 0 ELSE call.src + i + 1
    BY <2>2 DEF Functions!Before, Functions!Cell, Functions!Nul
  <2> QED BY <2>1, <2>3, <2>4, <2>5
<1>6. Functions!Pads <=> \E i \in 0..(done - 1) : call.src + i >= call.nul
  BY <1>5 DEF Functions!Pads, Functions!Nul
<1>7. call.src \in Nat /\ call.nul \in Nat
  BY <1>3 DEF CallOK
<1>8. (\E i \in 0..(done - 1) : call.src + i >= call.nul) <=> done > 0 /\ call.src + done - 1 >= call.nul
  <2>1. ASSUME NEW i \in 0..(done - 1), call.src + i >= call.nul
        PROVE  done > 0 /\ call.src + done - 1 >= call.nul
    BY <1>3, <1>7, <2>1
  <2>2. ASSUME done > 0 /\ call.src + done - 1 >= call.nul
        PROVE  \E i \in 0..(done - 1) : call.src + i >= call.nul
    <3>1. done - 1 \in 0..(done - 1) /\ call.src + (done - 1) >= call.nul
      BY <1>3, <1>7, <2>2
    <3> QED BY <3>1
  <2> QED BY <2>1, <2>2
<1> QED BY <1>6, <1>8

LEMMA BytesTurn ==
  ASSUME PartsAssumption, BytesInv, Functions!Turn
  PROVE  BytesInv'
<1> DEFINE K == Functions!Chunk
           L == call.n - done
           F == call.dst + Functions!Offset
           D == Functions!Down
<1>1. call # Functions!NoCall /\ Functions!Left > 0 /\ call' = call /\ done' = done + K
  BY DEF Functions!Turn
<1>2. /\ CallOK /\ done \in Nat /\ done <= call.n
      /\ ram \in [0..(Cells - 1) -> Nat \union {Filler}]
      /\ \A i \in 0..(Cells - 1) :
           ram[i] = IF i \in Dealt THEN Functions!Wanted(i) ELSE Functions!Before(call.nul)[i]
  BY <1>1 DEF BytesInv
<1>3. /\ call.dst \in Nat /\ call.src \in Nat /\ call.n \in Nat /\ call.nul \in Nat
      /\ call.dst + call.n <= Cells /\ call.src + call.n <= Cells
      /\ call.op \in {"memcpy", "memmove", "memset", "strncpy"}
      /\ done \in Nat /\ done <= call.n
  BY <1>2 DEF CallOK
<1>4. K \in 1..L /\ (K # 1 => call.op \in {"memset", "memcpy"})
  BY <1>1, ChunkFits
<1>5. Cells \in Nat
  BY DEF PartsAssumption, Functions!MemoryConstants
<1>6. F = IF D THEN call.dst + (L - 1) ELSE call.dst + done
  BY DEF Functions!Offset, Functions!Left
<1>7. ram' = [i \in 0..(Cells - 1) |->
                CASE i \in F .. F + K - 1 /\ call.op = "memset" -> Filler
                  [] i \in F .. F + K - 1 /\ call.op # "memset" ->
                       IF Functions!Pads THEN 0 ELSE ram[call.src + (i - call.dst)]
                  [] OTHER -> ram[i]]
  BY DEF Functions!Turn, Functions!Cell, Functions!Nul
<1>8. D => K = 1 /\ call.op = "memmove" /\ call.src < call.dst
  BY <1>4 DEF Functions!Down
<1>9. D' <=> D
  BY <1>1 DEF Functions!Down
<1> HIDE DEF K, F, D
<1>10. Dealt = (IF D THEN (call.dst + call.n) - done .. call.dst + call.n - 1
                     ELSE call.dst .. call.dst + done - 1)
  BY DEF Dealt, D
<1>11. Dealt' = (IF D THEN (call.dst + call.n) - (done + K) .. call.dst + call.n - 1
                      ELSE call.dst .. call.dst + (done + K) - 1)
  BY <1>1, <1>9 DEF Dealt, D
<1>12. F \in Nat /\ F >= call.dst /\ F + K <= call.dst + call.n
  BY <1>2, <1>3, <1>4, <1>6, <1>8
<1>13. \A i \in 0..(Cells - 1) : i \in Dealt' <=> i \in Dealt \/ i \in F .. F + K - 1
  <2>1. CASE D
    <3>1. K = 1 /\ F = call.dst + (call.n - done) - 1 /\ F + K - 1 = F
      BY <1>3, <1>6, <1>8, <2>1
    <3>2. (call.dst + call.n) - done = F + 1 /\ (call.dst + call.n) - (done + K) = F
      BY <1>3, <3>1
    <3>3. /\ Dealt = F + 1 .. call.dst + call.n - 1
          /\ Dealt' = F .. call.dst + call.n - 1
          /\ F .. F + K - 1 = F .. F
      BY <1>10, <1>11, <2>1, <3>1, <3>2
    <3>4. call.dst + call.n - 1 \in Int /\ F <= call.dst + call.n - 1
      BY <1>3, <1>12, <3>1
    <3> HIDE DEF L
    <3> QED BY <1>5, <1>12, <3>3, <3>4
  <2>2. CASE ~D
    <3>1. F = call.dst + done
      BY <1>6, <2>2
    <3> QED BY <1>3, <1>4, <1>5, <1>10, <1>11, <2>2, <3>1
  <2> QED BY <2>1, <2>2
<1>14. ASSUME NEW i \in F .. F + K - 1
       PROVE  i \in 0..(Cells - 1) /\ ram'[i] = Functions!Wanted(i) /\ ram'[i] \in Nat \union {Filler}
  <2> DEFINE j == call.src + (i - call.dst)
  <2>1. /\ i \in 0..(Cells - 1) /\ i \in call.dst .. call.dst + call.n - 1
        /\ j \in 0..(Cells - 1)
    <3>1. i \in Nat /\ i >= call.dst /\ i < call.dst + call.n
      BY <1>3, <1>4, <1>12
    <3> QED BY <1>3, <1>5, <3>1
  <2>2. Functions!Wanted(i) =
          IF call.op = "memset" THEN Filler
          ELSE IF call.op = "strncpy" /\ j >= call.nul THEN 0 ELSE Functions!Before(call.nul)[j]
    BY <2>1 DEF Functions!Wanted, Functions!Nul
  <2>3. ram'[i] = IF call.op = "memset" THEN Filler
                  ELSE IF Functions!Pads THEN 0 ELSE ram[j]
    BY <1>7, <2>1
  <2>4. CASE call.op = "memset"
    BY <2>1, <2>2, <2>3, <2>4
  <2>5. CASE call.op # "memset"
    <3>1. j \notin Dealt
      <4>1. CASE D
        <5>1. F = call.dst + (call.n - done) - 1 /\ i = F /\ call.src < call.dst
          BY <1>3, <1>6, <1>8, <1>12, <4>1
        <5>2. j < F
          BY <1>3, <5>1
        <5>3. Dealt = F + 1 .. call.dst + call.n - 1
          BY <1>3, <1>10, <4>1, <5>1
        <5> QED BY <1>12, <2>1, <5>2, <5>3
      <4>2. CASE ~D
        <5>1. \/ call.src >= call.dst /\ K = 1
              \/ call.dst + call.n <= call.src
              \/ call.src + call.n <= call.dst
          <6>1. CASE call.op \in {"memcpy", "strncpy"}
            BY <1>2, <6>1 DEF CallOK
          <6>2. CASE call.op = "memmove"
            BY <1>3, <1>4, <4>2, <6>2 DEF D, Functions!Down
          <6> QED BY <1>3, <2>5, <6>1, <6>2
        <5>2. Dealt = call.dst .. call.dst + done - 1 /\ F = call.dst + done
          BY <1>6, <1>10, <4>2
        <5>3. i >= call.dst + done /\ i < call.dst + call.n /\ i \in Nat
          BY <1>3, <1>4, <1>12, <5>2
        <5>4. CASE call.src >= call.dst
          BY <1>3, <2>1, <5>2, <5>3, <5>4
        <5>5. CASE call.dst + call.n <= call.src
          <6>1. j >= call.dst + done
            BY <1>3, <5>3, <5>5
          <6> QED BY <1>3, <2>1, <5>2, <6>1
        <5>6. CASE call.src + call.n <= call.dst
          <6>1. j < call.dst
            BY <1>3, <5>3, <5>6
          <6> QED BY <1>3, <2>1, <5>2, <6>1
        <5> QED BY <5>1, <5>4, <5>5, <5>6
      <4> QED BY <4>1, <4>2
    <3>2. ram[j] = Functions!Before(call.nul)[j] /\ ram[j] \in Nat \union {Filler}
      BY <1>2, <2>1, <3>1
    <3>3. Functions!Pads => call.op = "strncpy"
      BY DEF Functions!Pads
    <3>4. CASE call.op # "strncpy"
      BY <2>1, <2>2, <2>3, <2>5, <3>2, <3>3, <3>4
    <3>5. CASE call.op = "strncpy"
      <4>1. K = 1 /\ ~D
        BY <1>4, <1>8, <3>5
      <4>2. i = call.dst + done /\ j = call.src + done /\ done < call.n
        BY <1>2, <1>3, <1>4, <1>6, <1>12, <4>1
      <4>3. Functions!Pads <=> done > 0 /\ call.src + done - 1 >= call.nul
        BY <3>5, <4>2, PadsIs
      <4>4. call.src <= call.nul
        BY <1>2, <3>5 DEF CallOK
      <4>5. Functions!Before(call.nul)[call.nul] = 0 \/ call.nul \notin 0..(Cells - 1)
        BY DEF Functions!Before, Functions!Cell, Functions!Nul
      <4>6. CASE Functions!Pads
        BY <1>2, <1>3, <2>1, <2>2, <2>3, <2>5, <3>5, <4>2, <4>3, <4>6
      <4>7. CASE ~Functions!Pads /\ j < call.nul
        BY <1>3, <2>1, <2>2, <2>3, <2>5, <3>2, <3>5, <4>7
      <4>8. CASE ~Functions!Pads /\ ~(j < call.nul)
        <5>1. j = call.nul
          BY <1>2, <1>3, <4>2, <4>3, <4>4, <4>8
        <5> QED BY <1>3, <2>1, <2>2, <2>3, <2>5, <3>2, <3>5, <4>5, <4>8, <5>1
      <4> HIDE DEF j
      <4>9. ~Functions!Pads => (j < call.nul \/ ~(j < call.nul))
        OBVIOUS
      <4> QED BY <2>1, <4>6, <4>7, <4>8
    <3> QED BY <3>4, <3>5
  <2> QED BY <2>4, <2>5
<1>15. ASSUME NEW i \in 0..(Cells - 1), i \notin F .. F + K - 1
       PROVE  ram'[i] = ram[i]
  BY <1>7, <1>15
<1>16. \A i \in 0..(Cells - 1) : Functions!Wanted(i)' = Functions!Wanted(i)
  BY <1>1 DEF Functions!Wanted
<1>17. ram' \in [0..(Cells - 1) -> Nat \union {Filler}]
  <2>1. DOMAIN ram' = 0..(Cells - 1) /\ ram' = [i \in 0..(Cells - 1) |-> ram'[i]]
    BY <1>7
  <2>2. \A i \in 0..(Cells - 1) : ram'[i] \in Nat \union {Filler}
    BY <1>2, <1>14, <1>15
  <2> QED BY <2>1, <2>2
<1>18. \A i \in 0..(Cells - 1) :
         ram'[i] = IF i \in Dealt' THEN Functions!Wanted(i) ELSE Functions!Before(call.nul)[i]
  BY <1>2, <1>13, <1>14, <1>15
<1>19. done' \in Nat /\ done' <= call'.n
  BY <1>1, <1>2, <1>3, <1>4
<1>20. CallOK'
  BY <1>1, <1>2 DEF CallOK
<1> QED BY <1>1, <1>16, <1>17, <1>18, <1>19, <1>20 DEF BytesInv

LEMMA BytesStep ==
  ASSUME PartsAssumption, BytesInv, Functions!Next
  PROVE  BytesInv'
<1>1. CASE Functions!Return
  BY <1>1 DEF Functions!Return, Functions!NoCall, BytesInv
<1> QED BY <1>1, BytesCalled, BytesTurn DEF Functions!Next

LEMMA BytesSay ==
  ASSUME PartsAssumption, BytesInv
  PROVE  Functions!MemoryExact
<1> SUFFICES ASSUME call # Functions!NoCall, done = call.n, NEW i \in 0..(Cells - 1)
             PROVE  ram[i] = Functions!Wanted(i)
  BY DEF Functions!MemoryExact, Functions!Cell, BytesInv
<1>1. /\ call.dst \in Nat /\ call.n \in Nat
      /\ ram[i] = IF i \in Dealt THEN Functions!Wanted(i) ELSE Functions!Before(call.nul)[i]
  BY DEF BytesInv, CallOK
<1>2. Dealt = call.dst .. call.dst + call.n - 1
  BY <1>1 DEF Dealt
<1>3. i \notin Dealt => Functions!Wanted(i) = Functions!Before(call.nul)[i]
  BY <1>2 DEF Functions!Wanted
<1> QED BY <1>1, <1>3

-----------------------------------------------------------------------------
(* The blocks of a heap *)

Header == [used : BOOLEAN, next : Nat, prev : Nat]

\* The blocks lie end to end, and each knows the one before it.
Laid(h, end) ==
  /\ Struct \in Nat /\ Struct > 0 /\ end \in Nat /\ end > 0
  /\ DOMAIN h \subseteq 0..end /\ 0 \in DOMAIN h /\ end \in DOMAIN h
  /\ h \in [DOMAIN h -> Header]
  /\ h[end].used
  /\ \A m \in DOMAIN h : m # end =>
       /\ h[m].next \in DOMAIN h /\ m + Struct <= h[m].next
       /\ \A k \in DOMAIN h : k <= m \/ h[m].next <= k
  /\ \A m \in DOMAIN h : m # 0 /\ m # end =>
       /\ h[m].prev \in DOMAIN h /\ h[m].prev # end /\ h[h[m].prev].next = m

\* Two free blocks never meet.
Merged(h, end) == \A m \in DOMAIN h : m # end /\ ~h[m].used => h[h[m].next].used

LEMMA LaidFacts ==
  ASSUME NEW h, NEW end, Laid(h, end)
  PROVE  /\ \A m \in DOMAIN h : /\ m \in Nat /\ m <= end
                                /\ h[m].used \in BOOLEAN /\ h[m].next \in Nat /\ h[m].prev \in Nat
                                /\ h[m] \in Header
         /\ \A m \in DOMAIN h : m # end => m < h[m].next
         /\ \A m, k \in DOMAIN h : m # end /\ k # end /\ h[m].next = h[k].next => m = k
         /\ \A m, k \in DOMAIN h : \A x \in Nat :
              m # end /\ k # end /\ m <= x /\ x < h[m].next /\ k <= x /\ x < h[k].next => m = k
<1>1. /\ Struct \in Nat /\ Struct > 0
      /\ \A m \in DOMAIN h : m \in Nat /\ m <= end
      /\ \A m \in DOMAIN h : h[m].used \in BOOLEAN /\ h[m].next \in Nat /\ h[m].prev \in Nat /\ h[m] \in Header
  BY DEF Laid, Header
<1>2. \A m \in DOMAIN h : m # end =>
       /\ h[m].next \in DOMAIN h /\ m + Struct <= h[m].next
       /\ \A k \in DOMAIN h : k <= m \/ h[m].next <= k
  BY DEF Laid
<1>3. \A m \in DOMAIN h : m # end => m < h[m].next
  BY <1>1, <1>2
<1>4. ASSUME NEW m \in DOMAIN h, NEW k \in DOMAIN h, m # end, k # end, h[m].next = h[k].next
      PROVE  m = k
  <2>1. m <= k /\ k <= m
    BY <1>1, <1>2, <1>3, <1>4
  <2> QED BY <1>1, <2>1
<1>5. ASSUME NEW m \in DOMAIN h, NEW k \in DOMAIN h, NEW x \in Nat,
             m # end, k # end, m <= x, x < h[m].next, k <= x, x < h[k].next
      PROVE  m = k
  <2>1. ~(h[m].next <= k) /\ ~(h[k].next <= m)
    BY <1>1, <1>5
  <2>2. m <= k /\ k <= m
    BY <1>2, <1>5, <2>1
  <2> QED BY <1>1, <2>2
<1> QED BY <1>1, <1>3, <1>4, <1>5

\* g is h with b, which follows a, as a part of it.
IsJoin(h, g, a, b) ==
  /\ DOMAIN g = DOMAIN h \ {b} /\ g \in [DOMAIN g -> Header]
  /\ \A m \in DOMAIN g :
       /\ g[m].used = h[m].used
       /\ g[m].next = IF m = a THEN h[b].next ELSE h[m].next
       /\ g[m].prev = IF m = h[b].next THEN a ELSE h[m].prev

LEMMA JoinedIs ==
  ASSUME NEW h, NEW a \in DOMAIN h, NEW b \in DOMAIN h,
         h \in [DOMAIN h -> Header], a \in Nat, a # b, h[b].next \in DOMAIN h, h[b].next # a
  PROVE  IsJoin(h, Heap!Joined(h, a, b), a, b)
<1> DEFINE g == Heap!Joined(h, a, b)
           c == h[b].next
<1>1. DOMAIN g = DOMAIN h \ {b}
  BY DEF Heap!Joined
<1>2. \A m \in DOMAIN h \ {b} :
        g[m] = CASE m = a -> [h[a] EXCEPT !.next = c]
                 [] m = c -> [h[c] EXCEPT !.prev = a]
                 [] OTHER -> h[m]
  BY DEF Heap!Joined
<1>3. g = [m \in DOMAIN h \ {b} |-> g[m]]
  BY DEF Heap!Joined
<1>4. c \in Nat /\ c # a /\ \A m \in DOMAIN h : h[m] \in Header
  BY DEF Header
<1> HIDE DEF g, c
<1>5. ASSUME NEW m \in DOMAIN h \ {b}
      PROVE  /\ g[m].used = h[m].used
             /\ g[m].next = IF m = a THEN c ELSE h[m].next
             /\ g[m].prev = IF m = c THEN a ELSE h[m].prev
             /\ g[m] \in Header
  <2>1. CASE m = a
    <3>1. g[m] = [h[m] EXCEPT !.next = c] /\ h[m] \in Header
      BY <1>2, <1>4, <2>1
    <3> QED BY <1>4, <2>1, <3>1 DEF Header
  <2>2. CASE m = c
    <3>1. g[m] = [h[m] EXCEPT !.prev = a] /\ h[m] \in Header
      BY <1>2, <1>4, <2>2
    <3> QED BY <1>4, <2>2, <3>1 DEF Header
  <2>3. CASE m # a /\ m # c
    <3>1. g[m] = h[m] /\ h[m] \in Header
      BY <1>2, <1>4, <2>3
    <3> QED BY <2>3, <3>1
  <2> QED BY <2>1, <2>2, <2>3
<1> QED BY <1>1, <1>3, <1>5 DEF g, c, IsJoin

LEMMA JoinedLaid ==
  ASSUME NEW h, NEW end, Laid(h, end), NEW a \in DOMAIN h, a # end, h[a].next # end
  PROVE  /\ Laid(Heap!Joined(h, a, h[a].next), end)
         /\ IsJoin(h, Heap!Joined(h, a, h[a].next), a, h[a].next)
<1> DEFINE b == h[a].next
           c == h[b].next
           g == Heap!Joined(h, a, b)
<1>1. /\ Struct \in Nat /\ Struct > 0 /\ end \in Nat /\ end > 0
      /\ DOMAIN h \subseteq 0..end /\ 0 \in DOMAIN h /\ end \in DOMAIN h /\ h[end].used
      /\ h \in [DOMAIN h -> Header]
  BY DEF Laid
<1>2. \A m \in DOMAIN h : m # end =>
       /\ h[m].next \in DOMAIN h /\ m + Struct <= h[m].next
       /\ \A k \in DOMAIN h : k <= m \/ h[m].next <= k
  BY DEF Laid
<1>3. \A m \in DOMAIN h : m # 0 /\ m # end =>
       /\ h[m].prev \in DOMAIN h /\ h[m].prev # end /\ h[h[m].prev].next = m
  BY DEF Laid
<1>4. /\ b \in DOMAIN h /\ b # end /\ c \in DOMAIN h
      /\ a \in Nat /\ b \in Nat /\ c \in Nat /\ a + Struct <= b /\ b + Struct <= c
      /\ \A k \in DOMAIN h : k <= a \/ b <= k
      /\ \A k \in DOMAIN h : k <= b \/ c <= k
  BY <1>1, <1>2
<1>5. a < b /\ b < c /\ a < c /\ a # b /\ c # a
  BY <1>1, <1>4
<1>6. \A m, k \in DOMAIN h : m # end /\ k # end /\ h[m].next = h[k].next => m = k
  BY LaidFacts
<1>7. b = h[a].next /\ c = h[b].next
  OBVIOUS
<1> HIDE DEF b, c
<1>8. /\ DOMAIN g = DOMAIN h \ {b} /\ g \in [DOMAIN g -> Header]
      /\ \A m \in DOMAIN g :
           /\ g[m].used = h[m].used
           /\ g[m].next = IF m = a THEN c ELSE h[m].next
           /\ g[m].prev = IF m = c THEN a ELSE h[m].prev
  <2>1. /\ b \in DOMAIN h /\ h \in [DOMAIN h -> Header] /\ a \in Nat /\ a # b
        /\ h[b].next \in DOMAIN h /\ h[b].next # a
    BY <1>1, <1>4, <1>5, <1>7
  <2>2. IsJoin(h, g, a, b)
    BY <2>1, JoinedIs
  <2> QED BY <1>7, <2>2 DEF IsJoin
<1> HIDE DEF g
<1>9. ASSUME NEW m \in DOMAIN g, m # end
      PROVE  /\ g[m].next \in DOMAIN g /\ m + Struct <= g[m].next
             /\ \A k \in DOMAIN g : k <= m \/ g[m].next <= k
  <2>1. CASE m = a
    <3>1. c \in DOMAIN g /\ a + Struct <= c /\ g[m].next = c
      BY <1>1, <1>4, <1>5, <1>8, <2>1
    <3>2. \A k \in DOMAIN g : k <= a \/ c <= k
      BY <1>1, <1>4, <1>5, <1>8
    <3> QED BY <2>1, <3>1, <3>2
  <2>2. CASE m # a
    <3>1. g[m].next = h[m].next /\ h[m].next # b
      BY <1>4, <1>6, <1>8, <1>7, <1>9, <2>2
    <3> QED BY <1>2, <1>8, <1>9, <3>1
  <2> QED BY <2>1, <2>2
<1>10. ASSUME NEW m \in DOMAIN g, m # 0, m # end
       PROVE  g[m].prev \in DOMAIN g /\ g[m].prev # end /\ g[g[m].prev].next = m
  <2>1. CASE m = c
    <3>1. g[m].prev = a /\ a \in DOMAIN g /\ a # end /\ g[a].next = c
      BY <1>5, <1>4, <1>8, <2>1
    <3> QED BY <2>1, <3>1
  <2>2. CASE m # c
    <3>1. g[m].prev = h[m].prev /\ h[m].prev \in DOMAIN h /\ h[m].prev # end /\ h[h[m].prev].next = m
      BY <1>3, <1>8, <1>10, <2>2
    <3>2. h[m].prev # b /\ h[m].prev # a
      BY <1>8, <1>7, <2>2, <3>1
    <3> QED BY <1>8, <3>1, <3>2
  <2> QED BY <2>1, <2>2
<1>11. 0 \in DOMAIN g /\ end \in DOMAIN g /\ DOMAIN g \subseteq 0..end /\ g[end].used
  BY <1>1, <1>4, <1>5, <1>8
<1>12. Laid(g, end)
  BY <1>1, <1>8, <1>9, <1>10, <1>11 DEF Laid
<1>13. IsJoin(h, g, a, b)
  BY <1>7, <1>8 DEF IsJoin
<1> QED BY <1>12, <1>13 DEF b, g

\* g is h with the block r, which is free, split off m.
IsSplit(h, g, m, r) ==
  /\ DOMAIN g = DOMAIN h \union {r} /\ g \in [DOMAIN g -> Header]
  /\ \A k \in DOMAIN h :
       /\ g[k].used = h[k].used
       /\ g[k].next = IF k = m THEN r ELSE h[k].next
       /\ g[k].prev = IF k = h[m].next THEN r ELSE h[k].prev
  /\ ~g[r].used /\ g[r].next = h[m].next /\ g[r].prev = m

LEMMA SplitIs ==
  ASSUME NEW h, NEW m \in DOMAIN h, NEW n, h \in [DOMAIN h -> Header],
         m \in Nat, m + Struct + n \in Nat, m + Struct + n \notin DOMAIN h,
         h[m].next \in DOMAIN h, h[m].next # m
  PROVE  IsSplit(h, Heap!Split(h, m, n), m, m + Struct + n)
<1> DEFINE r == m + Struct + n
           c == h[m].next
           g == Heap!Split(h, m, n)
<1>1. /\ DOMAIN g = DOMAIN h \union {r} /\ g = [k \in DOMAIN h \union {r} |-> g[k]]
      /\ \A k \in DOMAIN h \union {r} :
           g[k] = CASE k = m -> [h[m] EXCEPT !.next = r]
                    [] k = r -> [used |-> FALSE, next |-> h[m].next, prev |-> m]
                    [] k = c -> [h[k] EXCEPT !.prev = r]
                    [] OTHER -> h[k]
  BY DEF Heap!Split
<1>2. r \in Nat /\ r \notin DOMAIN h /\ c \in DOMAIN h /\ c # m /\ h[m].next = c
  OBVIOUS
<1>3. c \in Nat /\ \A k \in DOMAIN h : h[k] \in Header
  BY DEF Header
<1> HIDE DEF r, c, g
<1>4. g[r] = [used |-> FALSE, next |-> c, prev |-> m]
  BY <1>1, <1>2
<1>5. ~g[r].used /\ g[r].next = c /\ g[r].prev = m /\ g[r] \in Header
  BY <1>3, <1>4 DEF Header
<1>6. ASSUME NEW k \in DOMAIN h
      PROVE  /\ g[k].used = h[k].used
             /\ g[k].next = IF k = m THEN r ELSE h[k].next
             /\ g[k].prev = IF k = c THEN r ELSE h[k].prev
             /\ g[k] \in Header
  <2>1. k # r
    BY <1>2
  <2>2. CASE k = m
    <3>1. g[k] = [h[k] EXCEPT !.next = r] /\ h[k] \in Header
      BY <1>1, <1>2, <1>3, <2>1, <2>2
    <3> QED BY <1>2, <2>2, <3>1 DEF Header
  <2>3. CASE k = c
    <3>1. g[k] = [h[k] EXCEPT !.prev = r] /\ h[k] \in Header
      BY <1>1, <1>2, <1>3, <2>1, <2>3
    <3> QED BY <1>2, <2>3, <3>1 DEF Header
  <2>4. CASE k # m /\ k # c
    <3>1. g[k] = h[k] /\ h[k] \in Header
      BY <1>1, <1>3, <2>1, <2>4
    <3> QED BY <2>4, <3>1
  <2> QED BY <2>2, <2>3, <2>4
<1>7. g \in [DOMAIN g -> Header]
  BY <1>1, <1>5, <1>6
<1>8. IsSplit(h, g, m, r)
  BY <1>1, <1>2, <1>5, <1>6, <1>7 DEF IsSplit
<1> QED BY <1>8 DEF r, g

LEMMA SplitLaid ==
  ASSUME NEW h, NEW end, Laid(h, end), NEW m \in DOMAIN h, m # end, NEW n \in Nat,
         m + Struct + n + Struct <= h[m].next
  PROVE  /\ Laid(Heap!Split(h, m, n), end)
         /\ IsSplit(h, Heap!Split(h, m, n), m, m + Struct + n)
         /\ m + Struct + n \notin DOMAIN h
<1> DEFINE r == m + Struct + n
           c == h[m].next
           g == Heap!Split(h, m, n)
<1>1. /\ Struct \in Nat /\ Struct > 0 /\ end \in Nat /\ end > 0
      /\ DOMAIN h \subseteq 0..end /\ 0 \in DOMAIN h /\ end \in DOMAIN h /\ h[end].used
      /\ h \in [DOMAIN h -> Header]
  BY DEF Laid
<1>2. \A k \in DOMAIN h : k # end =>
       /\ h[k].next \in DOMAIN h /\ k + Struct <= h[k].next
       /\ \A j \in DOMAIN h : j <= k \/ h[k].next <= j
  BY DEF Laid
<1>3. \A k \in DOMAIN h : k # 0 /\ k # end =>
       /\ h[k].prev \in DOMAIN h /\ h[k].prev # end /\ h[h[k].prev].next = k
  BY DEF Laid
<1>4. /\ c \in DOMAIN h /\ m \in Nat /\ r \in Nat /\ c \in Nat
      /\ m < r /\ r < c /\ m + Struct <= r /\ r + Struct <= c /\ c <= end
      /\ \A k \in DOMAIN h : k <= m \/ c <= k
  BY <1>1, <1>2
<1>5. r \notin DOMAIN h /\ c # m /\ c # 0
  BY <1>1, <1>4
<1>6. c = h[m].next /\ r = m + Struct + n
  OBVIOUS
<1> HIDE DEF r, c, g
<1>7. /\ IsSplit(h, g, m, r) /\ DOMAIN g = DOMAIN h \union {r} /\ g \in [DOMAIN g -> Header]
      /\ \A k \in DOMAIN h :
           /\ g[k].used = h[k].used
           /\ g[k].next = IF k = m THEN r ELSE h[k].next
           /\ g[k].prev = IF k = c THEN r ELSE h[k].prev
      /\ ~g[r].used /\ g[r].next = c /\ g[r].prev = m
  <2>1. IsSplit(h, g, m, r)
    BY <1>1, <1>4, <1>5, <1>6, SplitIs DEF r, g
  <2> QED BY <1>6, <2>1 DEF IsSplit
<1>8. \A k, j \in DOMAIN h : k # end /\ j # end /\ h[k].next = h[j].next => k = j
  BY LaidFacts
<1>9. ASSUME NEW k \in DOMAIN g, k # end
      PROVE  /\ g[k].next \in DOMAIN g /\ k + Struct <= g[k].next
             /\ \A j \in DOMAIN g : j <= k \/ g[k].next <= j
  <2>1. CASE k = r
    <3>1. g[k].next = c /\ c \in DOMAIN g /\ k + Struct <= c
      BY <1>4, <1>7, <2>1
    <3>2. \A j \in DOMAIN g : j <= r \/ c <= j
      BY <1>1, <1>4, <1>7
    <3> QED BY <2>1, <3>1, <3>2
  <2>2. CASE k = m
    <3>1. g[k].next = r /\ r \in DOMAIN g /\ k + Struct <= r
      BY <1>4, <1>7, <2>2
    <3>2. \A j \in DOMAIN g : j <= m \/ r <= j
      BY <1>1, <1>4, <1>7
    <3> QED BY <2>2, <3>1, <3>2
  <2>3. CASE k # r /\ k # m
    <3>1. k \in DOMAIN h /\ g[k].next = h[k].next
      BY <1>7, <2>3
    <3>2. /\ h[k].next \in DOMAIN h /\ k + Struct <= h[k].next /\ k \in Nat /\ h[k].next \in Nat
          /\ \A j \in DOMAIN h : j <= k \/ h[k].next <= j
      BY <1>1, <1>2, <1>9, <3>1
    <3>3. r <= k \/ h[k].next <= r
      <4>1. m <= k \/ h[k].next <= m
        BY <3>2
      <4>2. k <= m \/ c <= k
        BY <1>4, <3>1
      <4> QED BY <1>4, <2>3, <3>2, <4>1, <4>2
    <3> QED BY <1>7, <3>1, <3>2, <3>3
  <2> QED BY <2>1, <2>2, <2>3
<1>10. ASSUME NEW k \in DOMAIN g, k # 0, k # end
       PROVE  g[k].prev \in DOMAIN g /\ g[k].prev # end /\ g[g[k].prev].next = k
  <2>1. CASE k = r
    <3>1. g[k].prev = m /\ m \in DOMAIN h /\ m # end /\ g[m].next = r
      BY <1>7, <2>1
    <3> QED BY <1>7, <2>1, <3>1
  <2>2. CASE k = c
    <3>1. g[k].prev = r /\ r # end /\ g[r].next = c
      BY <1>4, <1>5, <1>1, <1>7, <2>2
    <3> QED BY <1>7, <2>2, <3>1
  <2>3. CASE k # r /\ k # c
    <3>1. k \in DOMAIN h /\ g[k].prev = h[k].prev /\ h[k].prev \in DOMAIN h
          /\ h[k].prev # end /\ h[h[k].prev].next = k
      BY <1>3, <1>7, <1>10, <2>3
    <3>2. h[k].prev # m
      BY <1>6, <2>3, <3>1
    <3> QED BY <1>7, <3>1, <3>2
  <2> QED BY <2>1, <2>2, <2>3
<1>11. 0 \in DOMAIN g /\ end \in DOMAIN g /\ DOMAIN g \subseteq 0..end /\ g[end].used
  BY <1>1, <1>4, <1>7
<1>12. Laid(g, end)
  BY <1>1, <1>7, <1>9, <1>10, <1>11 DEF Laid
<1> QED BY <1>5, <1>7, <1>12 DEF r, g

-----------------------------------------------------------------------------
(* What the blocks take up *)

\* The units of the callers' blocks, with their headers, and those of the free ones, without.
Taken(h, end) ==
  {x \in 0..(end - 1) : \E m \in DOMAIN h : m # end /\ h[m].used /\ m <= x /\ x < h[m].next}
Spare(h, end) ==
  {x \in 0..(end - 1) : \E m \in DOMAIN h : m # end /\ ~h[m].used /\ m + Struct <= x /\ x < h[m].next}

\* T has, besides S, the units from i to j.
More(S, T, i, j) ==
  /\ IsFiniteSet(S) /\ IsFiniteSet(T) /\ S \subseteq Nat /\ T \subseteq Nat
  /\ i \in Nat /\ j \in Nat /\ i <= j
  /\ \A x \in Nat : x \in T <=> x \in S \/ (i <= x /\ x < j)
  /\ \A x \in S : x < i \/ j <= x

LEMMA CountMore ==
  ASSUME NEW S, NEW T, NEW i, NEW j, More(S, T, i, j)
  PROVE  /\ Cardinality(S) \in Nat /\ Cardinality(T) \in Nat
         /\ Cardinality(T) = Cardinality(S) + (j - i)
<1> DEFINE I == i .. j - 1
<1>1. /\ IsFiniteSet(S) /\ IsFiniteSet(T) /\ S \subseteq Nat /\ T \subseteq Nat
      /\ i \in Nat /\ j \in Nat /\ i <= j
      /\ \A x \in Nat : x \in T <=> x \in S \/ (i <= x /\ x < j)
      /\ \A x \in S : x < i \/ j <= x
  BY DEF More
<1>2. IsFiniteSet(I) /\ Cardinality(I) = j - i
  <2>1. j - 1 \in Int /\ i \in Int /\ (i > j - 1 <=> i = j) /\ (j - 1) - i + 1 = j - i
    BY <1>1
  <2>2. IsFiniteSet(I) /\ Cardinality(I) = IF i > j - 1 THEN 0 ELSE (j - 1) - i + 1
    BY <2>1, FS_Interval
  <2> QED BY <1>1, <2>1, <2>2
<1>3. \A x : x \in I <=> x \in Nat /\ i <= x /\ x < j
  BY <1>1
<1> HIDE DEF I
<1>4. T = S \union I
  <2>1. \A x : x \in T <=> x \in S \/ x \in I
    BY <1>1, <1>3
  <2> QED BY <2>1
<1>5. S \intersect I = {}
  <2>1. \A x \in S : x \notin I
    BY <1>1, <1>3
  <2> QED BY <2>1
<1>6. Cardinality(T) = Cardinality(S) + Cardinality(I) - Cardinality({})
  BY <1>1, <1>2, <1>4, <1>5, FS_Union
<1>7. Cardinality(S) \in Nat /\ Cardinality(T) \in Nat
  BY <1>1, FS_CardinalityType
<1>8. Cardinality({}) = 0
  BY FS_EmptySet
<1> QED BY <1>1, <1>2, <1>6, <1>7, <1>8

LEMMA UnitsFinite ==
  ASSUME NEW h, NEW end \in Nat
  PROVE  /\ IsFiniteSet(Taken(h, end)) /\ Taken(h, end) \subseteq Nat
         /\ IsFiniteSet(Spare(h, end)) /\ Spare(h, end) \subseteq Nat
         /\ Taken(h, end) \subseteq 0..(end - 1) /\ Spare(h, end) \subseteq 0..(end - 1)
<1>1. IsFiniteSet(0..(end - 1)) /\ 0..(end - 1) \subseteq Nat
  BY FS_Interval
<1>2. Taken(h, end) \subseteq 0..(end - 1) /\ Spare(h, end) \subseteq 0..(end - 1)
  BY DEF Taken, Spare
<1> QED BY <1>1, <1>2, FS_Subset

\* Block m is taken.
Flipped(h, g, m) ==
  /\ DOMAIN g = DOMAIN h
  /\ \A k \in DOMAIN h : g[k].next = h[k].next /\ (k # m => g[k].used = h[k].used)
  /\ ~h[m].used /\ g[m].used

LEMMA FlippedCounts ==
  ASSUME NEW h, NEW g, NEW end, Laid(h, end), Laid(g, end),
         NEW m \in DOMAIN h, m # end, Flipped(h, g, m)
  PROVE  /\ Cardinality(Taken(h, end)) \in Nat /\ Cardinality(Spare(h, end)) \in Nat
         /\ Cardinality(Taken(g, end)) \in Nat /\ Cardinality(Spare(g, end)) \in Nat
         /\ Cardinality(Taken(g, end)) = Cardinality(Taken(h, end)) + (h[m].next - m)
         /\ Cardinality(Spare(h, end)) = Cardinality(Spare(g, end)) + (h[m].next - (m + Struct))
<1>1. /\ Struct \in Nat /\ Struct > 0 /\ end \in Nat /\ m \in Nat /\ h[m].next \in Nat
      /\ m + Struct <= h[m].next /\ h[m].next <= end /\ h[m].next \in DOMAIN h
      /\ \A k \in DOMAIN h : k \in Nat /\ h[k].next \in Nat
  BY LaidFacts DEF Laid
<1>2. /\ DOMAIN g = DOMAIN h
      /\ \A k \in DOMAIN h : g[k].next = h[k].next /\ (k # m => g[k].used = h[k].used)
      /\ ~h[m].used /\ g[m].used
  BY DEF Flipped
<1>3. \A k \in DOMAIN h : \A x \in Nat :
        k # end /\ k <= x /\ x < h[k].next /\ m <= x /\ x < h[m].next => k = m
  BY LaidFacts
<1>4. /\ Taken(h, end) \subseteq 0..(end - 1) /\ Spare(h, end) \subseteq 0..(end - 1)
      /\ Taken(g, end) \subseteq 0..(end - 1) /\ Spare(g, end) \subseteq 0..(end - 1)
  BY <1>1, UnitsFinite
<1>5. ASSUME NEW x \in Nat
      PROVE  x \in Taken(g, end) <=> x \in Taken(h, end) \/ (m <= x /\ x < h[m].next)
  <2>1. m <= x /\ x < h[m].next => x \in 0..(end - 1)
    BY <1>1
  <2> QED BY <1>2, <2>1 DEF Taken
<1>6. ASSUME NEW x \in Taken(h, end) PROVE x < m \/ h[m].next <= x
  <2>1. x \in Nat
    BY <1>1 DEF Taken
  <2>2. PICK k \in DOMAIN h : k # end /\ h[k].used /\ k <= x /\ x < h[k].next
    BY DEF Taken
  <2> QED BY <1>1, <1>2, <1>3, <2>1, <2>2
<1>7. ASSUME NEW x \in Nat
      PROVE  x \in Spare(h, end) <=> x \in Spare(g, end) \/ (m + Struct <= x /\ x < h[m].next)
  <2>1. m + Struct <= x /\ x < h[m].next => x \in 0..(end - 1)
    BY <1>1
  <2> QED BY <1>2, <2>1 DEF Spare
<1>8. ASSUME NEW x \in Spare(g, end) PROVE x < m + Struct \/ h[m].next <= x
  <2>1. x \in Nat
    BY <1>1 DEF Spare
  <2>2. PICK k \in DOMAIN h : k # end /\ ~g[k].used /\ k + Struct <= x /\ x < h[k].next
    BY <1>2 DEF Spare
  <2>3. k # m /\ k <= x
    BY <1>1, <1>2, <2>1, <2>2
  <2>4. ~(m <= x /\ x < h[m].next)
    BY <1>3, <2>1, <2>2, <2>3
  <2> QED BY <1>1, <2>1, <2>4
<1>9. /\ Cardinality(Taken(h, end)) \in Nat /\ Cardinality(Taken(g, end)) \in Nat
      /\ Cardinality(Taken(g, end)) = Cardinality(Taken(h, end)) + (h[m].next - m)
  <2>1. m <= h[m].next
    BY <1>1
  <2>2. More(Taken(h, end), Taken(g, end), m, h[m].next)
    BY <1>1, <1>5, <1>6, <2>1, UnitsFinite DEF More
  <2> QED BY <2>2, CountMore
<1>10. /\ Cardinality(Spare(h, end)) \in Nat /\ Cardinality(Spare(g, end)) \in Nat
       /\ Cardinality(Spare(h, end)) = Cardinality(Spare(g, end)) + (h[m].next - (m + Struct))
  <2>1. m + Struct \in Nat
    BY <1>1
  <2>2. More(Spare(g, end), Spare(h, end), m + Struct, h[m].next)
    BY <1>1, <1>7, <1>8, <2>1, UnitsFinite DEF More
  <2> QED BY <2>2, CountMore
<1> QED BY <1>9, <1>10

\* Block b is free and was part of a.
Parted(h, g, a, b) ==
  /\ b \notin DOMAIN h /\ DOMAIN g = DOMAIN h \union {b}
  /\ \A k \in DOMAIN h : g[k].used = h[k].used /\ (k # a => g[k].next = h[k].next)
  /\ g[a].next = b /\ ~g[b].used /\ g[b].next = h[a].next

LEMMA PartedCounts ==
  ASSUME NEW h, NEW g, NEW end, Laid(h, end), Laid(g, end),
         NEW a \in DOMAIN h, a # end, NEW b, Parted(h, g, a, b)
  PROVE  /\ Cardinality(Taken(h, end)) \in Nat /\ Cardinality(Spare(h, end)) \in Nat
         /\ Cardinality(Taken(g, end)) \in Nat /\ Cardinality(Spare(g, end)) \in Nat
         /\ Cardinality(Taken(h, end)) =
              Cardinality(Taken(g, end)) + (IF h[a].used THEN h[a].next - b ELSE 0)
         /\ ~h[a].used => Cardinality(Spare(h, end)) = Cardinality(Spare(g, end)) + Struct
         /\ h[a].used =>
              Cardinality(Spare(g, end)) = Cardinality(Spare(h, end)) + (h[a].next - (b + Struct))
<1> DEFINE c == h[a].next
<1>1. /\ b \notin DOMAIN h /\ DOMAIN g = DOMAIN h \union {b}
      /\ \A k \in DOMAIN h : g[k].used = h[k].used /\ (k # a => g[k].next = h[k].next)
      /\ g[a].next = b /\ ~g[b].used /\ g[b].next = c
  BY DEF Parted
<1>2. /\ Struct \in Nat /\ Struct > 0 /\ end \in Nat /\ end \in DOMAIN h /\ a \in Nat /\ b \in Nat /\ c \in Nat
      /\ a + Struct <= b /\ b + Struct <= c /\ c <= end /\ b # end
      /\ \A k \in DOMAIN g : k \in Nat /\ g[k].next \in Nat
      /\ \A k \in DOMAIN h : k \in Nat /\ h[k].next \in Nat
  <2>1. /\ Struct \in Nat /\ Struct > 0 /\ end \in Nat /\ end \in DOMAIN h
        /\ c \in DOMAIN h /\ DOMAIN h \subseteq 0..end /\ DOMAIN g \subseteq 0..end
        /\ \A k \in DOMAIN g : k # end => k + Struct <= g[k].next
    BY DEF Laid
  <2>2. /\ \A k \in DOMAIN g : k \in Nat /\ g[k].next \in Nat
        /\ \A k \in DOMAIN h : k \in Nat /\ h[k].next \in Nat
    BY LaidFacts
  <2>3. b # end /\ a \in DOMAIN g /\ b \in DOMAIN g
    BY <1>1, <2>1
  <2> QED BY <1>1, <2>1, <2>2, <2>3
<1>3. \A k, j \in DOMAIN g : \A x \in Nat :
        k # end /\ j # end /\ k <= x /\ x < g[k].next /\ j <= x /\ x < g[j].next => k = j
  BY LaidFacts
<1>4. \A k, j \in DOMAIN h : \A x \in Nat :
        k # end /\ j # end /\ k <= x /\ x < h[k].next /\ j <= x /\ x < h[j].next => k = j
  BY LaidFacts
<1>5. /\ Taken(h, end) \subseteq 0..(end - 1) /\ Spare(h, end) \subseteq 0..(end - 1)
      /\ Taken(g, end) \subseteq 0..(end - 1) /\ Spare(g, end) \subseteq 0..(end - 1)
  BY <1>2, UnitsFinite
<1>6. \A x \in Nat : x < c => x \in 0..(end - 1)
  BY <1>2
<1>7. h[a].next = c
  OBVIOUS
<1> HIDE DEF c
<1>8. CASE ~h[a].used
  <2>1. Taken(h, end) = Taken(g, end)
    <3>1. ASSUME NEW x \in Taken(h, end) PROVE x \in Taken(g, end)
      <4>1. PICK k \in DOMAIN h : k # end /\ h[k].used /\ k <= x /\ x < h[k].next
        BY DEF Taken
      <4>2. k # a /\ k \in DOMAIN g /\ g[k].used /\ g[k].next = h[k].next
        BY <1>1, <1>8, <4>1
      <4> QED BY <4>1, <4>2 DEF Taken
    <3>2. ASSUME NEW x \in Taken(g, end) PROVE x \in Taken(h, end)
      <4>1. PICK k \in DOMAIN g : k # end /\ g[k].used /\ k <= x /\ x < g[k].next
        BY DEF Taken
      <4>2. k # b /\ k \in DOMAIN h /\ h[k].used /\ k # a
        BY <1>1, <1>8, <4>1
      <4> QED BY <1>1, <4>1, <4>2 DEF Taken
    <3> QED BY <3>1, <3>2
  <2>2. ASSUME NEW x \in Nat
        PROVE  x \in Spare(h, end) <=> x \in Spare(g, end) \/ (b <= x /\ x < b + Struct)
    <3>1. ASSUME x \in Spare(h, end) PROVE x \in Spare(g, end) \/ (b <= x /\ x < b + Struct)
      <4>1. PICK k \in DOMAIN h : k # end /\ ~h[k].used /\ k + Struct <= x /\ x < h[k].next
        BY <3>1 DEF Spare
      <4>2. x \in 0..(end - 1)
        BY <3>1 DEF Spare
      <4>3. CASE k # a
        BY <1>1, <4>1, <4>2, <4>3 DEF Spare
      <4>4. CASE k = a /\ x < b
        <5>1. a \in DOMAIN g /\ ~g[a].used /\ a + Struct <= x /\ x < g[a].next
          BY <1>1, <4>1, <4>4
        <5> QED BY <4>2, <5>1 DEF Spare
      <4>5. CASE k = a /\ b + Struct <= x
        <5>1. b \in DOMAIN g /\ ~g[b].used /\ x < g[b].next
          BY <1>1, <1>7, <4>1, <4>5
        <5> QED BY <1>2, <4>2, <4>5, <5>1 DEF Spare
      <4> QED BY <1>2, <4>3, <4>4, <4>5
    <3>2. ASSUME x \in Spare(g, end) PROVE x \in Spare(h, end)
      <4>1. PICK k \in DOMAIN g : k # end /\ ~g[k].used /\ k + Struct <= x /\ x < g[k].next
        BY <3>2 DEF Spare
      <4>2. x \in 0..(end - 1)
        BY <3>2 DEF Spare
      <4>3. CASE k = a \/ k = b
        <5>1. a + Struct <= x /\ x < c
          BY <1>1, <1>2, <4>1, <4>3
        <5> QED BY <1>7, <1>8, <4>2, <5>1 DEF Spare
      <4>4. CASE k # a /\ k # b
        <5>1. k \in DOMAIN h /\ ~h[k].used /\ x < h[k].next
          BY <1>1, <4>1, <4>4
        <5> QED BY <4>1, <4>2, <5>1 DEF Spare
      <4> QED BY <4>3, <4>4
    <3>3. ASSUME b <= x /\ x < b + Struct PROVE x \in Spare(h, end)
      <4>1. a + Struct <= x /\ x < c /\ x \in 0..(end - 1)
        BY <1>2, <1>6, <3>3
      <4> QED BY <1>7, <1>8, <4>1 DEF Spare
    <3> QED BY <3>1, <3>2, <3>3
  <2>3. ASSUME NEW x \in Spare(g, end) PROVE x < b \/ b + Struct <= x
    <3>1. x \in Nat
      BY <1>2 DEF Spare
    <3>2. PICK k \in DOMAIN g : k # end /\ ~g[k].used /\ k + Struct <= x /\ x < g[k].next
      BY DEF Spare
    <3>3. k <= x
      BY <1>2, <3>1, <3>2
    <3>4. CASE b <= x /\ x < b + Struct
      <4>1. x < g[b].next /\ b \in DOMAIN g
        BY <1>1, <1>2, <3>1, <3>4
      <4>2. k = b
        BY <1>2, <1>3, <3>1, <3>2, <3>3, <3>4, <4>1
      <4> QED BY <1>2, <3>1, <3>2, <3>4, <4>2
    <3> QED BY <1>2, <3>1, <3>4
  <2>4. /\ Cardinality(Spare(h, end)) \in Nat /\ Cardinality(Spare(g, end)) \in Nat
        /\ Cardinality(Spare(h, end)) = Cardinality(Spare(g, end)) + ((b + Struct) - b)
    <3>1. b + Struct \in Nat /\ b <= b + Struct
      BY <1>2
    <3>2. More(Spare(g, end), Spare(h, end), b, b + Struct)
      BY <1>2, <2>2, <2>3, <3>1, UnitsFinite DEF More
    <3> QED BY <3>2, CountMore
  <2>5. Cardinality(Taken(h, end)) \in Nat
    <3>1. IsFiniteSet(Taken(h, end))
      BY <1>2, UnitsFinite
    <3> QED BY <3>1, FS_CardinalityType
  <2> QED BY <1>2, <1>8, <2>1, <2>4, <2>5
<1>9. CASE h[a].used
  <2>1. ASSUME NEW x \in Nat
        PROVE  x \in Taken(h, end) <=> x \in Taken(g, end) \/ (b <= x /\ x < c)
    <3>1. ASSUME x \in Taken(h, end) PROVE x \in Taken(g, end) \/ (b <= x /\ x < c)
      <4>1. PICK k \in DOMAIN h : k # end /\ h[k].used /\ k <= x /\ x < h[k].next
        BY <3>1 DEF Taken
      <4>2. x \in 0..(end - 1)
        BY <3>1 DEF Taken
      <4>3. CASE k # a
        BY <1>1, <4>1, <4>2, <4>3 DEF Taken
      <4>4. CASE k = a /\ x < b
        BY <1>1, <4>1, <4>2, <4>4 DEF Taken
      <4> QED BY <1>2, <1>7, <4>1, <4>3, <4>4
    <3>2. ASSUME x \in Taken(g, end) PROVE x \in Taken(h, end)
      <4>1. PICK k \in DOMAIN g : k # end /\ g[k].used /\ k <= x /\ x < g[k].next
        BY <3>2 DEF Taken
      <4>2. k \in DOMAIN h /\ h[k].used /\ x \in 0..(end - 1)
        BY <1>1, <3>2, <4>1 DEF Taken
      <4>3. x < h[k].next
        BY <1>1, <1>2, <1>7, <4>1, <4>2
      <4> QED BY <4>1, <4>2, <4>3 DEF Taken
    <3>3. ASSUME b <= x /\ x < c PROVE x \in Taken(h, end)
      <4>1. a <= x /\ x \in 0..(end - 1)
        BY <1>2, <1>6, <3>3
      <4> QED BY <1>7, <1>9, <3>3, <4>1 DEF Taken
    <3> QED BY <3>1, <3>2, <3>3
  <2>2. ASSUME NEW x \in Taken(g, end) PROVE x < b \/ c <= x
    <3>1. x \in Nat
      BY <1>2 DEF Taken
    <3>2. PICK k \in DOMAIN g : k # end /\ g[k].used /\ k <= x /\ x < g[k].next
      BY DEF Taken
    <3>3. ~(b <= x /\ x < c)
      BY <1>1, <1>2, <1>3, <3>1, <3>2
    <3> QED BY <1>2, <3>1, <3>3
  <2>3. /\ Cardinality(Taken(h, end)) \in Nat /\ Cardinality(Taken(g, end)) \in Nat
        /\ Cardinality(Taken(h, end)) = Cardinality(Taken(g, end)) + (c - b)
    <3>1. b <= c
      BY <1>2
    <3>2. More(Taken(g, end), Taken(h, end), b, c)
      BY <1>2, <2>1, <2>2, <3>1, UnitsFinite DEF More
    <3> QED BY <3>2, CountMore
  <2>4. ASSUME NEW x \in Nat
        PROVE  x \in Spare(g, end) <=> x \in Spare(h, end) \/ (b + Struct <= x /\ x < c)
    <3>1. ASSUME x \in Spare(g, end) PROVE x \in Spare(h, end) \/ (b + Struct <= x /\ x < c)
      <4>1. PICK k \in DOMAIN g : k # end /\ ~g[k].used /\ k + Struct <= x /\ x < g[k].next
        BY <3>1 DEF Spare
      <4>2. x \in 0..(end - 1)
        BY <3>1 DEF Spare
      <4>3. k # a
        BY <1>1, <1>9, <4>1
      <4> QED BY <1>1, <4>1, <4>2, <4>3 DEF Spare
    <3>2. ASSUME x \in Spare(h, end) PROVE x \in Spare(g, end)
      <4>1. PICK k \in DOMAIN h : k # end /\ ~h[k].used /\ k + Struct <= x /\ x < h[k].next
        BY <3>2 DEF Spare
      <4>2. k # a /\ x \in 0..(end - 1)
        BY <1>9, <3>2, <4>1 DEF Spare
      <4> QED BY <1>1, <4>1, <4>2 DEF Spare
    <3>3. ASSUME b + Struct <= x /\ x < c PROVE x \in Spare(g, end)
      <4>1. x \in 0..(end - 1)
        BY <1>6, <3>3
      <4> QED BY <1>1, <1>2, <3>3, <4>1 DEF Spare
    <3> QED BY <3>1, <3>2, <3>3
  <2>5. ASSUME NEW x \in Spare(h, end) PROVE x < b + Struct \/ c <= x
    <3>1. x \in Nat
      BY <1>2 DEF Spare
    <3>2. PICK k \in DOMAIN h : k # end /\ ~h[k].used /\ k + Struct <= x /\ x < h[k].next
      BY DEF Spare
    <3>3. k # a /\ k <= x
      BY <1>2, <1>9, <3>1, <3>2
    <3>4. ~(a <= x /\ x < c)
      BY <1>4, <1>7, <3>1, <3>2, <3>3
    <3> QED BY <1>2, <3>1, <3>4
  <2>6. /\ Cardinality(Spare(h, end)) \in Nat /\ Cardinality(Spare(g, end)) \in Nat
        /\ Cardinality(Spare(g, end)) = Cardinality(Spare(h, end)) + (c - (b + Struct))
    <3>1. b + Struct \in Nat
      BY <1>2
    <3>2. More(Spare(h, end), Spare(g, end), b + Struct, c)
      BY <1>2, <2>4, <2>5, <3>1, UnitsFinite DEF More
    <3> QED BY <3>2, CountMore
  <2> QED BY <1>7, <1>9, <2>3, <2>6
<1> QED BY <1>8, <1>9

-----------------------------------------------------------------------------
(* The steps of which the calls are made *)

\* The callers' blocks are the same.
SameTaken(h, g, end) ==
  /\ \A k \in DOMAIN h : k # end /\ h[k].used => k \in DOMAIN g /\ g[k].used /\ g[k].next = h[k].next
  /\ \A k \in DOMAIN g : k # end /\ g[k].used => k \in DOMAIN h /\ h[k].used

\* Two free blocks become one.
LEMMA JoinStep ==
  ASSUME NEW h, NEW end, Laid(h, end), NEW a \in DOMAIN h, a # end, h[a].next # end,
         ~h[a].used, ~h[h[a].next].used
  PROVE  LET b == h[a].next
             g == Heap!Joined(h, a, b)
         IN /\ Laid(g, end) /\ IsJoin(h, g, a, b) /\ g[0].prev = h[0].prev
            /\ a < b /\ b < h[b].next /\ b # 0 /\ SameTaken(h, g, end)
            /\ Cardinality(Taken(g, end)) = Cardinality(Taken(h, end))
            /\ Cardinality(Spare(h, end)) \in Nat
            /\ Cardinality(Spare(g, end)) = Cardinality(Spare(h, end)) + Struct
<1> DEFINE b == h[a].next
           c == h[b].next
           g == Heap!Joined(h, a, b)
<1> HIDE DEF g
<1>1. /\ Laid(g, end) /\ IsJoin(h, g, a, b)
      /\ DOMAIN g = DOMAIN h \ {b} /\ g \in [DOMAIN g -> Header]
      /\ \A m \in DOMAIN g : /\ g[m].used = h[m].used
                             /\ g[m].next = IF m = a THEN c ELSE h[m].next
                             /\ g[m].prev = IF m = c THEN a ELSE h[m].prev
  <2>1. Laid(g, end) /\ IsJoin(h, g, a, b)
    BY JoinedLaid DEF g
  <2> QED BY <2>1 DEF IsJoin
<1>2. b = h[a].next /\ c = h[b].next
  OBVIOUS
<1> HIDE DEF b, c
<1>3. /\ b \in DOMAIN h /\ a \in Nat /\ b \in Nat /\ c \in Nat /\ a < b /\ b < c
      /\ 0 \in DOMAIN g /\ b # 0 /\ c # 0
  <2>1. b \in DOMAIN h /\ 0 \in DOMAIN g
    BY <1>1, <1>2 DEF Laid
  <2>2. a \in Nat /\ b \in Nat /\ c \in Nat /\ a < b /\ b < c
    BY <1>2, <2>1, LaidFacts
  <2> QED BY <2>1, <2>2
<1>4. g[0].prev = h[0].prev
  BY <1>1, <1>3
<1>5. a \in DOMAIN g /\ b \notin DOMAIN g /\ DOMAIN h = DOMAIN g \union {b}
  <2>1. a # b /\ DOMAIN g = DOMAIN h \ {b} /\ b \in DOMAIN h
    BY <1>1, <1>3
  <2> QED BY <2>1
<1>6. Parted(g, h, a, b)
  BY <1>1, <1>2, <1>5 DEF Parted
<1>7. SameTaken(h, g, end)
  BY <1>1, <1>2 DEF SameTaken
<1>8. ~g[a].used
  BY <1>1, <1>5
<1>9. /\ Cardinality(Spare(h, end)) \in Nat /\ Cardinality(Taken(h, end)) \in Nat
      /\ Cardinality(Taken(g, end)) = Cardinality(Taken(h, end)) + 0
      /\ Cardinality(Spare(g, end)) = Cardinality(Spare(h, end)) + Struct
  BY <1>1, <1>5, <1>6, <1>8, PartedCounts
<1>10. Cardinality(Taken(g, end)) = Cardinality(Taken(h, end))
  BY <1>9
<1> QED BY <1>1, <1>3, <1>4, <1>7, <1>9, <1>10 DEF b, c, g

\* Only marks, and what is before the end, differ.
LEMMA SameLaid ==
  ASSUME NEW h, NEW g, NEW end, Laid(h, end), DOMAIN g = DOMAIN h, g \in [DOMAIN h -> Header],
         \A k \in DOMAIN h : g[k].next = h[k].next /\ (k # end => g[k].prev = h[k].prev),
         g[end].used
  PROVE  Laid(g, end)
<1>1. \A m \in DOMAIN g : m # end =>
       /\ g[m].next \in DOMAIN g /\ m + Struct <= g[m].next
       /\ \A k \in DOMAIN g : k <= m \/ g[m].next <= k
  BY DEF Laid
<1>2. \A m \in DOMAIN g : m # 0 /\ m # end =>
       /\ g[m].prev \in DOMAIN g /\ g[m].prev # end /\ g[g[m].prev].next = m
  BY DEF Laid
<1> QED BY <1>1, <1>2 DEF Laid

\* A block is taken, or given back.
Mark(h, m, u) == [h EXCEPT ![m].used = u]
Marked(h, g, end, m, u) ==
  /\ Laid(g, end) /\ DOMAIN g = DOMAIN h
  /\ \A k \in DOMAIN h : /\ g[k].next = h[k].next /\ g[k].prev = h[k].prev
                         /\ k # m => g[k].used = h[k].used
  /\ g[m].used = u

LEMMA MarkStep ==
  ASSUME NEW h, NEW end, Laid(h, end), NEW m \in DOMAIN h, m # end, NEW u \in BOOLEAN
  PROVE  Marked(h, Mark(h, m, u), end, m, u)
<1> DEFINE g == [h EXCEPT ![m].used = u]
<1>1. h \in [DOMAIN h -> Header] /\ \A k \in DOMAIN h : h[k] \in Header
  BY LaidFacts DEF Laid
<1>2. /\ DOMAIN g = DOMAIN h /\ g = [k \in DOMAIN h |-> g[k]]
      /\ g[m] = [h[m] EXCEPT !.used = u] /\ \A k \in DOMAIN h : k # m => g[k] = h[k]
  OBVIOUS
<1> HIDE DEF g
<1>3. g[m].next = h[m].next /\ g[m].prev = h[m].prev /\ g[m].used = u /\ g[m] \in Header
  BY <1>1, <1>2 DEF Header
<1>4. g \in [DOMAIN h -> Header]
  BY <1>1, <1>2, <1>3
<1>5. \A k \in DOMAIN h : /\ g[k].next = h[k].next /\ g[k].prev = h[k].prev
                          /\ k # m => g[k].used = h[k].used
  BY <1>2, <1>3
<1>6. g[end].used
  BY <1>5 DEF Laid
<1>7. Laid(g, end)
  BY <1>2, <1>4, <1>5, <1>6, SameLaid
<1>8. Marked(h, g, end, m, u)
  BY <1>2, <1>3, <1>5, <1>7 DEF Marked
<1> QED BY <1>8 DEF g, Mark

\* What follows the last block is left as it was.
Last(h, end, v) == [h EXCEPT ![end].prev = v]
LastSet(h, g, end) ==
  /\ Laid(g, end) /\ DOMAIN g = DOMAIN h
  /\ \A k \in DOMAIN h : /\ g[k].next = h[k].next /\ g[k].used = h[k].used
                         /\ k # end => g[k].prev = h[k].prev

LEMMA LastStep ==
  ASSUME NEW h, NEW end, Laid(h, end), NEW v \in Nat
  PROVE  LastSet(h, Last(h, end, v), end)
<1> DEFINE g == [h EXCEPT ![end].prev = v]
<1>1. end \in DOMAIN h /\ h \in [DOMAIN h -> Header] /\ \A k \in DOMAIN h : h[k] \in Header
  BY LaidFacts DEF Laid
<1>2. /\ DOMAIN g = DOMAIN h /\ g = [k \in DOMAIN h |-> g[k]]
      /\ g[end] = [h[end] EXCEPT !.prev = v] /\ \A k \in DOMAIN h : k # end => g[k] = h[k]
  BY <1>1
<1> HIDE DEF g
<1>3. g[end].next = h[end].next /\ g[end].used = h[end].used /\ g[end] \in Header
  BY <1>1, <1>2 DEF Header
<1>4. g \in [DOMAIN h -> Header]
  BY <1>1, <1>2, <1>3
<1>5. \A k \in DOMAIN h : /\ g[k].next = h[k].next /\ g[k].used = h[k].used
                          /\ k # end => g[k].prev = h[k].prev
  BY <1>2, <1>3
<1>6. g[end].used
  BY <1>1, <1>5 DEF Laid
<1>7. Laid(g, end)
  BY <1>2, <1>4, <1>5, <1>6, SameLaid
<1>8. LastSet(h, g, end)
  BY <1>2, <1>5, <1>7 DEF LastSet
<1> QED BY <1>8 DEF g, Last

-----------------------------------------------------------------------------
(* The heap of mem.c *)

End == Heap!End

\* low is the lowest free block, or the end.
LowOf(h, low) ==
  /\ low \in DOMAIN h /\ (low = End \/ ~h[low].used)
  /\ \A k \in DOMAIN h : ~h[k].used => low <= k

\* m is free, and so may be its neighbours, but no others that meet.
MergedBut(h, m) ==
  /\ m \in DOMAIN h /\ m # End /\ ~h[m].used
  /\ \A k \in DOMAIN h : k # m /\ k # End /\ ~h[k].used /\ h[k].next # m => h[h[k].next].used

\* p is h without holes, with its lowest free block.
Plugged(h, p) ==
  /\ Laid(p.heap, End) /\ Merged(p.heap, End) /\ p.heap[0].prev = 0 /\ LowOf(p.heap, p.lfree)
  /\ SameTaken(h, p.heap, End)
  /\ Cardinality(Taken(p.heap, End)) = Cardinality(Taken(h, End))

LEMMA PlugHolesHolds ==
  ASSUME NEW h, NEW low, NEW m, Laid(h, End), h[0].prev = 0, LowOf(h, low), MergedBut(h, m)
  PROVE  Plugged(h, Heap!PlugHoles(h, low, m))
<1> DEFINE n == h[m].next
           ahead == ~h[n].used
           h1 == IF ahead THEN Heap!Joined(h, m, n) ELSE h
           low1 == IF ahead /\ low = n THEN m ELSE low
           p == h1[m].prev
           behind == p # m /\ ~h1[p].used
           h2 == IF behind THEN Heap!Joined(h1, p, m) ELSE h1
           low2 == IF behind /\ low1 = m THEN p ELSE low1
<1>1. Heap!PlugHoles(h, low, m) = [heap |-> h2, lfree |-> low2]
  BY DEF Heap!PlugHoles
<1>2. /\ m \in DOMAIN h /\ m # End /\ ~h[m].used /\ n \in DOMAIN h /\ n \in Nat /\ m \in Nat /\ m < n
      /\ low \in DOMAIN h /\ (low = End \/ ~h[low].used) /\ low \in Nat /\ low <= m
      /\ h[End].used
      /\ \A k \in DOMAIN h : ~h[k].used => low <= k
  BY LaidFacts DEF MergedBut, LowOf, Laid
<1>3. low # n /\ low1 = low
  BY <1>2
<1>4. n = h[m].next /\ h1 = (IF ahead THEN Heap!Joined(h, m, n) ELSE h) /\ (ahead <=> ~h[n].used)
  OBVIOUS
<1>5. /\ p = h1[m].prev /\ h2 = (IF behind THEN Heap!Joined(h1, p, m) ELSE h1)
      /\ (behind <=> p # m /\ ~h1[p].used) /\ low2 = IF behind /\ low1 = m THEN p ELSE low1
  OBVIOUS
<1> HIDE DEF n, ahead, h1, low1, p, behind, h2, low2
<1>6. /\ Laid(h1, End) /\ h1[0].prev = 0 /\ LowOf(h1, low) /\ MergedBut(h1, m) /\ h1[h1[m].next].used
      /\ SameTaken(h, h1, End) /\ Cardinality(Taken(h1, End)) = Cardinality(Taken(h, End))
  <2>1. CASE ~ahead
    BY <1>2, <1>4, <2>1 DEF SameTaken
  <2>2. CASE ahead
    <3>1. n # End /\ ~h[n].used /\ h1 = Heap!Joined(h, m, n)
      BY <1>2, <1>4, <2>2
    <3>2. /\ Laid(h1, End) /\ IsJoin(h, h1, m, n) /\ h1[0].prev = h[0].prev /\ n < h[n].next
          /\ SameTaken(h, h1, End) /\ Cardinality(Taken(h1, End)) = Cardinality(Taken(h, End))
      BY <1>2, <1>4, <3>1, JoinStep
    <3>3. /\ DOMAIN h1 = DOMAIN h \ {n}
          /\ \A k \in DOMAIN h1 : /\ h1[k].used = h[k].used
                                  /\ h1[k].next = IF k = m THEN h[n].next ELSE h[k].next
      BY <3>2 DEF IsJoin
    <3>4. LowOf(h1, low)
      BY <1>2, <1>3, <3>3 DEF LowOf
    <3>5. h[n].next \in DOMAIN h /\ h[n].next \in Nat /\ h[n].next # n /\ h[n].next # m
      BY <1>2, <3>1, <3>2, LaidFacts DEF Laid
    <3>6. h[h[n].next].used
      BY <1>2, <3>1, <3>5 DEF MergedBut
    <3>7. m \in DOMAIN h1 /\ h1[m].next = h[n].next /\ h1[h1[m].next].used
      BY <1>2, <3>3, <3>5, <3>6
    <3>8. \A k, j \in DOMAIN h : k # End /\ j # End /\ h[k].next = h[j].next => k = j
      BY LaidFacts
    <3>9. MergedBut(h1, m)
      <4>1. ASSUME NEW k \in DOMAIN h1, k # m, k # End, ~h1[k].used, h1[k].next # m
            PROVE  h1[h1[k].next].used
        <5>1. h1[k].next = h[k].next /\ k \in DOMAIN h /\ ~h[k].used /\ h[k].next # n
          BY <1>2, <1>4, <3>3, <3>8, <4>1
        <5>2. h[h[k].next].used /\ h[k].next \in DOMAIN h
          BY <4>1, <5>1 DEF MergedBut, Laid
        <5> QED BY <3>3, <5>1, <5>2
      <4> QED BY <1>2, <3>3, <3>7, <4>1 DEF MergedBut
    <3> QED BY <3>2, <3>4, <3>7, <3>9
  <2> QED BY <2>1, <2>2
<1>7. /\ m \in DOMAIN h1 /\ ~h1[m].used /\ h1[End].used
      /\ \A k \in DOMAIN h1 : k # m /\ k # End /\ ~h1[k].used /\ h1[k].next # m => h1[h1[k].next].used
  BY <1>6 DEF MergedBut, Laid
<1>8. \A k, j \in DOMAIN h1 : k # End /\ j # End /\ h1[k].next = h1[j].next => k = j
  BY <1>6, LaidFacts
<1>9. m # 0 => p \in DOMAIN h1 /\ p # End /\ h1[p].next = m
  BY <1>2, <1>5, <1>6, <1>7 DEF Laid
<1>10. CASE ~behind
  <2>1. h2 = h1 /\ low2 = low
    BY <1>3, <1>5, <1>10
  <2>2. ASSUME NEW k \in DOMAIN h1, k # End, ~h1[k].used PROVE h1[h1[k].next].used
    <3>1. CASE h1[k].next = m
      <4>1. k < m /\ k \in Nat
        BY <1>6, <2>2, <3>1, LaidFacts
      <4>2. m # 0 /\ p = k
        BY <1>2, <1>8, <1>9, <2>2, <3>1, <4>1
      <4> QED BY <1>2, <1>5, <1>10, <2>2, <4>1, <4>2
    <3>2. CASE h1[k].next # m
      BY <1>6, <1>7, <2>2, <3>2
    <3> QED BY <3>1, <3>2
  <2>3. Merged(h1, End)
    BY <2>2 DEF Merged
  <2> QED BY <1>1, <1>6, <2>1, <2>3 DEF Plugged
<1>11. CASE behind
  <2>1. m # 0
    BY <1>5, <1>6, <1>11
  <2>2. p \in DOMAIN h1 /\ p # End /\ h1[p].next = m /\ ~h1[p].used /\ h2 = Heap!Joined(h1, p, m)
    BY <1>5, <1>9, <1>11, <2>1
  <2>3. /\ Laid(h2, End) /\ IsJoin(h1, h2, p, m) /\ h2[0].prev = h1[0].prev /\ p < m /\ m < h1[m].next
        /\ SameTaken(h1, h2, End) /\ Cardinality(Taken(h2, End)) = Cardinality(Taken(h1, End))
    BY <1>2, <1>6, <1>7, <2>2, JoinStep
  <2>4. /\ DOMAIN h2 = DOMAIN h1 \ {m}
        /\ \A k \in DOMAIN h2 : /\ h2[k].used = h1[k].used
                                /\ h2[k].next = IF k = p THEN h1[m].next ELSE h1[k].next
    BY <2>3 DEF IsJoin
  <2>5. /\ low \in DOMAIN h1 /\ (low = End \/ ~h1[low].used)
        /\ \A k \in DOMAIN h1 : ~h1[k].used => low <= k
    BY <1>6 DEF LowOf
  <2>6. p \in Nat /\ low <= p /\ low # m
    BY <1>2, <1>6, <2>2, <2>3, <2>5, LaidFacts
  <2>7. low2 = low /\ LowOf(h2, low)
    BY <1>3, <1>5, <2>4, <2>5, <2>6 DEF LowOf
  <2>8. ASSUME NEW k \in DOMAIN h2, k # End, ~h2[k].used PROVE h2[h2[k].next].used
    <3>1. k \in DOMAIN h1 /\ k # m /\ ~h1[k].used
      BY <2>4, <2>8
    <3>2. CASE k = p
      <4>1. h2[k].next = h1[m].next /\ h1[m].next \in DOMAIN h1 /\ h1[m].next # m
        BY <1>2, <1>6, <1>7, <2>3, <2>4, <2>8, <3>2 DEF Laid
      <4> QED BY <1>6, <2>4, <4>1
    <3>3. CASE k # p
      <4>1. h2[k].next = h1[k].next /\ h1[k].next # m /\ h1[k].next \in DOMAIN h1
        BY <1>6, <1>8, <2>2, <2>4, <2>8, <3>1, <3>3 DEF Laid
      <4> QED BY <1>7, <2>4, <2>8, <3>1, <4>1
    <3> QED BY <3>2, <3>3
  <2>9. Merged(h2, End)
    BY <2>8 DEF Merged
  <2>10. SameTaken(h, h2, End)
    BY <1>6, <2>3 DEF SameTaken
  <2> QED BY <1>1, <1>6, <2>3, <2>7, <2>9, <2>10 DEF Plugged
<1> QED BY <1>10, <1>11

HeapCore ==
  /\ Laid(heap, End) /\ Merged(heap, End) /\ heap[0].prev = 0 /\ LowOf(heap, lfree)
  /\ usedMem = Cardinality(Taken(heap, End))

\* The callers' blocks, and what they were asked for.
GivenInv ==
  /\ \A m : m \in DOMAIN given <=> m \in DOMAIN heap /\ m # End /\ heap[m].used
  /\ \A m \in DOMAIN given : given[m] \in Nat /\ m + Struct + given[m] <= heap[m].next

HeapInv == HeapCore /\ GivenInv

LEMMA HeapNumbers ==
  ASSUME PartsAssumption
  PROVE  /\ Struct \in Nat /\ Struct > 0 /\ MinSize \in Nat /\ MinSize > 0
         /\ HeapSize \in Nat /\ HeapSize >= MinSize /\ None \notin Nat
         /\ End = HeapSize + Struct
BY DEF PartsAssumption, Heap!HeapConstants, End, Heap!End

\* A set of naturals has a least member.
LEMMA HeapLeast ==
  ASSUME NEW S, S \subseteq Nat, S # {}
  PROVE  Heap!Least(S) \in S /\ \A k \in S : Heap!Least(S) <= k
<1>1. \E m \in S : \A k \in S : m <= k
  BY Least
<1> QED BY <1>1 DEF Heap!Least

LEMMA FoundIs ==
  ASSUME PartsAssumption, HeapCore, NEW n \in Nat
  PROVE  /\ Heap!Found(n) # None =>
              /\ Heap!Found(n) \in DOMAIN heap /\ Heap!Found(n) # End /\ ~heap[Heap!Found(n)].used
              /\ Heap!Found(n) + Struct + n <= heap[Heap!Found(n)].next
         /\ Heap!Found(n) = None =>
              \A m \in DOMAIN heap : ~heap[m].used /\ m < HeapSize - n => Heap!Room(heap, m) < n
<1> DEFINE fits == {m \in DOMAIN heap :
                      lfree <= m /\ m < HeapSize - n /\ ~heap[m].used /\ Heap!Room(heap, m) >= n}
<1>1. Heap!Found(n) = IF fits = {} THEN None ELSE Heap!Least(fits)
  BY DEF Heap!Found
<1>2. /\ \A m \in DOMAIN heap : m \in Nat /\ heap[m].next \in Nat
      /\ heap[End].used /\ (\A m \in DOMAIN heap : ~heap[m].used => lfree <= m)
      /\ Struct \in Nat /\ None \notin Nat
  BY HeapNumbers, LaidFacts DEF HeapCore, LowOf, Laid
<1>3. fits \subseteq Nat
  BY <1>2
<1>4. CASE fits = {}
  <2>1. Heap!Found(n) = None
    BY <1>1, <1>4
  <2>2. ASSUME NEW m \in DOMAIN heap, ~heap[m].used, m < HeapSize - n
        PROVE  Heap!Room(heap, m) < n
    <3>1. ~(Heap!Room(heap, m) >= n)
      BY <1>2, <1>4, <2>2
    <3>2. Heap!Room(heap, m) \in Int
      BY <1>2 DEF Heap!Room
    <3> QED BY <3>1, <3>2
  <2> QED BY <2>1, <2>2
<1>5. CASE fits # {}
  <2> DEFINE m == Heap!Least(fits)
  <2>1. m \in fits
    BY <1>3, <1>5, HeapLeast
  <2>2. Heap!Found(n) = m /\ m # None
    BY <1>1, <1>2, <1>3, <1>5, <2>1
  <2> HIDE DEF m
  <2>3. m \in DOMAIN heap /\ ~heap[m].used /\ Heap!Room(heap, m) >= n
    BY <2>1
  <2> HIDE DEF fits
  <2>4. m # End /\ m + Struct + n <= heap[m].next
    BY <1>2, <2>3 DEF Heap!Room
  <2> QED BY <2>2, <2>3, <2>4
<1> QED BY <1>4, <1>5

\* A block is split: of a free one, whose rest is free too, or of one that is taken.
\* g is h with m split at r, and the units are counted.
SplitAt(h, g, end, m, r) ==
  /\ Laid(g, end) /\ Parted(h, g, m, r) /\ r \in Nat /\ m < r /\ r < h[m].next
  /\ \A k \in DOMAIN h : k # end => g[k].prev = IF k = h[m].next THEN r ELSE h[k].prev
  /\ Cardinality(Taken(h, end)) \in Nat /\ Cardinality(Taken(g, end)) \in Nat
  /\ Cardinality(Spare(h, end)) \in Nat /\ Cardinality(Spare(g, end)) \in Nat
  /\ ~h[m].used => /\ Cardinality(Taken(g, end)) = Cardinality(Taken(h, end))
                   /\ Cardinality(Spare(g, end)) = Cardinality(Spare(h, end)) - Struct
  /\ h[m].used => /\ Cardinality(Taken(g, end)) = Cardinality(Taken(h, end)) - (h[m].next - r)
                  /\ Cardinality(Spare(g, end)) =
                       Cardinality(Spare(h, end)) + (h[m].next - (r + Struct))

LEMMA SplitStep ==
  ASSUME NEW h, NEW end, Laid(h, end), NEW m \in DOMAIN h, m # end, NEW n \in Nat,
         m + Struct + n + Struct <= h[m].next
  PROVE  SplitAt(h, Heap!Split(h, m, n), end, m, m + Struct + n)
<1> DEFINE r == m + Struct + n
           c == h[m].next
           g == Heap!Split(h, m, n)
<1>1. c = h[m].next /\ Struct \in Nat /\ c \in Nat /\ r \in Nat /\ m < r /\ r < c
  <2>1. Struct \in Nat /\ Struct > 0 /\ c \in Nat /\ m \in Nat
    BY LaidFacts DEF Laid
  <2> QED BY <2>1
<1> HIDE DEF c, g
<1>2. Laid(g, end) /\ IsSplit(h, g, m, r) /\ r \notin DOMAIN h
  BY SplitLaid DEF g, r
<1> HIDE DEF r
<1>3. Parted(h, g, m, r) /\ \A k \in DOMAIN h : g[k].prev = IF k = c THEN r ELSE h[k].prev
  BY <1>1, <1>2 DEF Parted, IsSplit
<1>4. /\ Cardinality(Taken(h, end)) \in Nat /\ Cardinality(Spare(h, end)) \in Nat
      /\ Cardinality(Taken(g, end)) \in Nat /\ Cardinality(Spare(g, end)) \in Nat
      /\ Cardinality(Taken(h, end)) =
           Cardinality(Taken(g, end)) + (IF h[m].used THEN c - r ELSE 0)
      /\ ~h[m].used => Cardinality(Spare(h, end)) = Cardinality(Spare(g, end)) + Struct
      /\ h[m].used => Cardinality(Spare(g, end)) = Cardinality(Spare(h, end)) + (c - (r + Struct))
  BY <1>1, <1>2, <1>3, PartedCounts
<1>5. ~h[m].used => /\ Cardinality(Taken(g, end)) = Cardinality(Taken(h, end))
                    /\ Cardinality(Spare(g, end)) = Cardinality(Spare(h, end)) - Struct
  BY <1>1, <1>4
<1>6. h[m].used => Cardinality(Taken(g, end)) = Cardinality(Taken(h, end)) - (c - r)
  BY <1>1, <1>4
<1>7. SplitAt(h, g, end, m, r)
  BY <1>1, <1>2, <1>3, <1>4, <1>5, <1>6 DEF SplitAt
<1> QED BY <1>7 DEF r, g

LEMMA SplitOffStep ==
  ASSUME PartsAssumption, HeapCore, NEW m \in DOMAIN heap, m # End, NEW n \in Nat,
         m + Struct + n + Struct <= heap[m].next
  PROVE  /\ SplitAt(heap, Heap!SplitOff(m, n), End, m, m + Struct + n)
         /\ Heap!SplitOff(m, n)[0].prev = 0
<1> DEFINE r == m + Struct + n
           f == Heap!Split(heap, m, n)
           g == Heap!SplitOff(m, n)
<1>1. Laid(heap, End) /\ heap[0].prev = 0 /\ End \in Nat /\ End > 0
  BY HeapNumbers DEF HeapCore
<1> HIDE DEF g
<1>2. SplitAt(heap, f, End, m, r)
  BY <1>1, SplitStep
<1>3. g = [f EXCEPT ![End].prev = heap[End].prev]
  BY DEF Heap!SplitOff, End, g
<1>11. g = Last(f, End, heap[End].prev)
  BY <1>3 DEF Last
<1>4. heap[End].prev \in Nat
  BY <1>1, LaidFacts DEF Laid
<1> HIDE DEF r, f
<1>5. /\ Laid(g, End) /\ DOMAIN g = DOMAIN f
      /\ \A k \in DOMAIN f : /\ g[k].next = f[k].next /\ g[k].used = f[k].used
                             /\ k # End => g[k].prev = f[k].prev
  <2>1. Laid(f, End)
    BY <1>2 DEF SplitAt
  <2>2. LastSet(f, g, End)
    BY <1>4, <1>11, <2>1, LastStep
  <2> QED BY <2>2 DEF LastSet
<1>6. Parted(heap, g, m, r)
  BY <1>2, <1>5 DEF Parted, SplitAt
<1>7. Taken(g, End) = Taken(f, End) /\ Spare(g, End) = Spare(f, End)
  BY <1>5 DEF Taken, Spare
<1>8. r \in Nat /\ m < r /\ r < heap[m].next /\ DOMAIN f = DOMAIN heap \union {r}
      /\ \A k \in DOMAIN heap : k # End => f[k].prev = IF k = heap[m].next THEN r ELSE heap[k].prev
  BY <1>2 DEF SplitAt, Parted
<1>9. g[0].prev = 0
  <2>1. 0 \in DOMAIN heap /\ 0 \in DOMAIN f /\ 0 # End /\ m \in Nat /\ heap[m].next \in Nat
    BY <1>1, <1>8, LaidFacts DEF Laid
  <2>2. heap[m].next # 0
    BY <1>8, <2>1
  <2> QED BY <1>1, <1>5, <1>8, <2>1, <2>2
<1>10. SplitAt(heap, g, End, m, r)
  <2>1. \A k \in DOMAIN heap : k # End => g[k].prev = IF k = heap[m].next THEN r ELSE heap[k].prev
    BY <1>5, <1>8
  <2> QED BY <1>2, <1>5, <1>6, <1>7, <1>8, <2>1 DEF SplitAt
<1> QED BY <1>9, <1>10 DEF r, g

\* rt_malloc takes m, with what is behind the n units when that is enough for a block.
LEMMA TakeHolds ==
  ASSUME PartsAssumption, HeapCore, NEW m \in DOMAIN heap, m # End, ~heap[m].used,
         NEW n \in Nat, m + Struct + n <= heap[m].next, Heap!Take(m, n)
  PROVE  /\ HeapCore'
         /\ m \in DOMAIN heap' /\ heap'[m].used /\ m + Struct + n <= heap'[m].next
         /\ \A k : k \in DOMAIN heap' /\ k # End /\ heap'[k].used
                     <=> k = m \/ (k \in DOMAIN heap /\ k # End /\ heap[k].used)
         /\ \A k \in DOMAIN heap : k # m => heap'[k].next = heap[k].next
<1> DEFINE split == Heap!Room(heap, m) >= n + Struct + MinSize
           f == IF split THEN Heap!SplitOff(m, n) ELSE heap
           h == [f EXCEPT ![m].used = TRUE]
           low == {k \in DOMAIN h : lfree <= k /\ (~h[k].used \/ k = End)}
<1>1. /\ heap' = h /\ usedMem' = usedMem + (h[m].next - m)
      /\ lfree' = IF m = lfree THEN Heap!Least(low) ELSE lfree
  BY DEF Heap!Take, End
<1>2. /\ Laid(heap, End) /\ Merged(heap, End) /\ heap[0].prev = 0 /\ LowOf(heap, lfree)
      /\ usedMem = Cardinality(Taken(heap, End))
  BY DEF HeapCore
<1>3. /\ Struct \in Nat /\ Struct > 0 /\ MinSize \in Nat /\ MinSize > 0 /\ End \in Nat /\ End > 0
      /\ \A k \in DOMAIN heap : k \in Nat /\ k <= End /\ heap[k].next \in Nat
      /\ heap[m].next \in DOMAIN heap
  BY <1>2, HeapNumbers, LaidFacts DEF Laid
<1>4. split => m + Struct + n + Struct <= heap[m].next
  <2>1. m \in Nat /\ heap[m].next \in Nat /\ Heap!Room(heap, m) = heap[m].next - (m + Struct)
    BY <1>3 DEF Heap!Room
  <2>2. ASSUME split PROVE heap[m].next - (m + Struct) >= n + Struct + MinSize
    BY <2>1, <2>2
  <2> HIDE DEF split
  <2> QED BY <1>3, <2>1, <2>2
<1> HIDE DEF split
<1>5. /\ Laid(f, End) /\ f[0].prev = 0 /\ m \in DOMAIN f /\ ~f[m].used
      /\ DOMAIN heap \subseteq DOMAIN f
      /\ \A k \in DOMAIN heap : f[k].used = heap[k].used /\ (k # m => f[k].next = heap[k].next)
      /\ \A k \in DOMAIN f : k \notin DOMAIN heap => ~f[k].used /\ m <= k /\ f[k].next = heap[m].next
      /\ m + Struct + n <= f[m].next
      /\ f[m].next = heap[m].next \/ f[m].next \notin DOMAIN heap
      /\ Cardinality(Taken(f, End)) = Cardinality(Taken(heap, End))
  <2>1. CASE ~split
    BY <1>2, <2>1
  <2>2. CASE split
    <3> DEFINE r == m + Struct + n
    <3>1. f = Heap!SplitOff(m, n) /\ r = m + Struct + n
      BY <2>2
    <3> HIDE DEF r
    <3> HIDE DEF f
    <3>5. SplitAt(heap, f, End, m, r) /\ f[0].prev = 0
      BY <1>4, <2>2, <3>1, SplitOffStep
    <3>2. /\ Laid(f, End) /\ Parted(heap, f, m, r) /\ f[0].prev = 0
          /\ r \in Nat /\ m < r /\ r < heap[m].next
          /\ Cardinality(Taken(f, End)) = Cardinality(Taken(heap, End))
      BY <3>5 DEF SplitAt
    <3>3. /\ r \notin DOMAIN heap /\ DOMAIN f = DOMAIN heap \union {r}
          /\ \A k \in DOMAIN heap : f[k].used = heap[k].used /\ (k # m => f[k].next = heap[k].next)
          /\ f[m].next = r /\ ~f[r].used /\ f[r].next = heap[m].next
      BY <3>2 DEF Parted
    <3>4. m + Struct + n <= f[m].next /\ m <= r
      BY <1>3, <3>1, <3>2, <3>3
    <3> QED BY <3>2, <3>3, <3>4
  <2> QED BY <2>1, <2>2
<1>6. h = Mark(f, m, TRUE)
  BY DEF Mark
<1> HIDE DEF f, h
<1>7. /\ Laid(h, End) /\ DOMAIN h = DOMAIN f
      /\ \A k \in DOMAIN f : /\ h[k].next = f[k].next /\ h[k].prev = f[k].prev
                             /\ k # m => h[k].used = f[k].used
      /\ h[m].used
  <2>1. Marked(f, h, End, m, TRUE)
    BY <1>5, <1>6, MarkStep
  <2> QED BY <2>1 DEF Marked
<1>8. Flipped(f, h, m)
  BY <1>5, <1>7 DEF Flipped
<1>9. Cardinality(Taken(h, End)) = Cardinality(Taken(f, End)) + (f[m].next - m)
  BY <1>5, <1>7, <1>8, FlippedCounts
<1>10. usedMem' = Cardinality(Taken(h, End))
  BY <1>1, <1>2, <1>5, <1>7, <1>9
<1>11. h[0].prev = 0
  <2>1. 0 \in DOMAIN f
    BY <1>5 DEF Laid
  <2> QED BY <1>5, <1>7, <2>1
<1>12. Merged(h, End)
  <2>1. ASSUME NEW k \in DOMAIN h, k # End, ~h[k].used PROVE h[h[k].next].used
    <3>1. k # m /\ k \in DOMAIN f /\ ~f[k].used /\ h[k].next = f[k].next
      BY <1>7, <2>1
    <3>2. heap[heap[m].next].used /\ heap[m].next # m
      BY <1>2, <1>3, LaidFacts DEF Merged
    <3>3. CASE k \notin DOMAIN heap
      BY <1>3, <1>5, <1>7, <3>1, <3>2, <3>3
    <3>4. CASE k \in DOMAIN heap
      <4>1. heap[k].next \in DOMAIN heap /\ heap[heap[k].next].used /\ f[k].next = heap[k].next
        BY <1>2, <1>5, <2>1, <3>1, <3>4 DEF Merged, Laid
      <4>2. heap[k].next # m
        BY <4>1
      <4> QED BY <1>5, <1>7, <3>1, <4>1, <4>2
    <3> QED BY <3>3, <3>4
  <2> QED BY <2>1 DEF Merged
<1>13. LowOf(h, lfree')
  <2>1. /\ lfree \in DOMAIN heap /\ (lfree = End \/ ~heap[lfree].used)
        /\ \A k \in DOMAIN heap : ~heap[k].used => lfree <= k
    BY <1>2 DEF LowOf
  <2>2. h[End].used /\ End \in DOMAIN h /\ \A k \in DOMAIN h : k \in Nat /\ k <= End
    BY <1>7, LaidFacts DEF Laid
  <2>3. \A k \in DOMAIN h : ~h[k].used => lfree <= k
    <3>1. ASSUME NEW k \in DOMAIN h, ~h[k].used PROVE lfree <= k
      <4>1. k \in DOMAIN f /\ ~f[k].used
        BY <1>5, <1>7, <3>1
      <4>2. lfree <= m /\ lfree \in Nat /\ m \in Nat /\ k \in Nat
        BY <1>3, <2>1, <2>2
      <4> QED BY <1>5, <2>1, <4>1, <4>2
    <3> QED BY <3>1
  <2>4. CASE m # lfree
    BY <1>1, <1>5, <1>7, <2>1, <2>3, <2>4 DEF LowOf
  <2>5. CASE m = lfree
    <3>1. low \subseteq Nat /\ End \in low
      <4>1. lfree <= End
        BY <1>3, <2>1, <2>5
      <4>2. End \in low
        BY <2>2, <4>1 DEF low
      <4>3. low \subseteq DOMAIN h
        BY DEF low
      <4> QED BY <2>2, <4>2, <4>3
    <3>2. Heap!Least(low) \in low /\ \A k \in low : Heap!Least(low) <= k
      BY <3>1, HeapLeast
    <3> QED BY <1>1, <2>3, <2>5, <3>2 DEF LowOf
  <2> QED BY <2>4, <2>5
<1>14. ASSUME NEW k
       PROVE  k \in DOMAIN h /\ k # End /\ h[k].used
                     <=> k = m \/ (k \in DOMAIN heap /\ k # End /\ heap[k].used)
  BY <1>5, <1>7
<1>15. HeapCore'
  <2>1. End' = End
    BY DEF End, Heap!End
  <2> QED BY <1>1, <1>7, <1>10, <1>11, <1>12, <1>13, <2>1 DEF HeapCore
<1>16. m \in DOMAIN h /\ m + Struct + n <= h[m].next /\ \A k \in DOMAIN heap : k # m => h[k].next = heap[k].next
  BY <1>5, <1>7
<1> QED BY <1>1, <1>7, <1>14, <1>15, <1>16

\* rt_free gives m back.
LEMMA GiveBackHolds ==
  ASSUME PartsAssumption, HeapCore, NEW m \in DOMAIN heap, m # End, heap[m].used, Heap!GiveBack(m)
  PROVE  /\ HeapCore'
         /\ \A k : k \in DOMAIN heap' /\ k # End /\ heap'[k].used
                     <=> k # m /\ k \in DOMAIN heap /\ k # End /\ heap[k].used
         /\ \A k \in DOMAIN heap :
              k # m /\ k # End /\ heap[k].used => heap'[k].next = heap[k].next
<1> DEFINE h == Mark(heap, m, FALSE)
           low == IF m < lfree THEN m ELSE lfree
           p == Heap!PlugHoles(h, low, m)
<1>1. heap' = p.heap /\ lfree' = p.lfree /\ usedMem' = usedMem - (heap[m].next - m)
  BY DEF Heap!GiveBack, Mark
<1>2. /\ Laid(heap, End) /\ Merged(heap, End) /\ heap[0].prev = 0 /\ LowOf(heap, lfree)
      /\ usedMem = Cardinality(Taken(heap, End))
  BY DEF HeapCore
<1> HIDE DEF p, h
<1>3. Marked(heap, h, End, m, FALSE)
  BY <1>2, MarkStep DEF h
<1>4. /\ Laid(h, End) /\ DOMAIN h = DOMAIN heap /\ h[m].used = FALSE
      /\ \A k \in DOMAIN heap : /\ h[k].next = heap[k].next /\ h[k].prev = heap[k].prev
                                /\ k # m => h[k].used = heap[k].used
  BY <1>3 DEF Marked
<1>5. h[0].prev = 0
  <2>1. 0 \in DOMAIN heap
    BY <1>2 DEF Laid
  <2> QED BY <1>2, <1>4, <2>1
<1>6. LowOf(h, low)
  <2>1. /\ lfree \in DOMAIN heap /\ (lfree = End \/ ~heap[lfree].used)
        /\ \A k \in DOMAIN heap : ~heap[k].used => lfree <= k
    BY <1>2 DEF LowOf
  <2>2. \A k \in DOMAIN heap : k \in Nat
    BY <1>2, LaidFacts
  <2>3. ASSUME NEW k \in DOMAIN h, ~h[k].used PROVE low <= k
    BY <1>4, <2>1, <2>2, <2>3
  <2>4. low \in DOMAIN h /\ (low = End \/ ~h[low].used)
    BY <1>4, <2>1
  <2> QED BY <2>3, <2>4 DEF LowOf
<1>7. MergedBut(h, m)
  <2>1. ASSUME NEW k \in DOMAIN h, k # m, k # End, ~h[k].used, h[k].next # m
        PROVE  h[h[k].next].used
    <3>1. heap[k].next \in DOMAIN heap /\ heap[heap[k].next].used
      BY <1>2, <1>4, <2>1 DEF Merged, Laid
    <3> QED BY <1>4, <2>1, <3>1
  <2> QED BY <1>4, <2>1 DEF MergedBut
<1> HIDE DEF low
<1>8. Plugged(h, p)
  BY <1>4, <1>5, <1>6, <1>7, PlugHolesHolds DEF p
<1>9. /\ Laid(p.heap, End) /\ Merged(p.heap, End) /\ p.heap[0].prev = 0 /\ LowOf(p.heap, p.lfree)
      /\ SameTaken(h, p.heap, End)
      /\ Cardinality(Taken(p.heap, End)) = Cardinality(Taken(h, End))
  BY <1>8 DEF Plugged
<1>10. Flipped(h, heap, m)
  BY <1>4 DEF Flipped
<1>11. usedMem' = Cardinality(Taken(h, End))
  <2>1. /\ Cardinality(Taken(h, End)) \in Nat
        /\ Cardinality(Taken(heap, End)) = Cardinality(Taken(h, End)) + (h[m].next - m)
    BY <1>2, <1>4, <1>10, FlippedCounts
  <2>2. heap[m].next \in Nat /\ m \in Nat
    BY <1>2, LaidFacts
  <2> QED BY <1>1, <1>2, <1>4, <2>1, <2>2
<1>12. HeapCore'
  <2>1. End' = End
    BY DEF End, Heap!End
  <2> QED BY <1>1, <1>9, <1>11, <2>1 DEF HeapCore
<1>13. ASSUME NEW k
       PROVE  k \in DOMAIN p.heap /\ k # End /\ p.heap[k].used
                     <=> k # m /\ k \in DOMAIN heap /\ k # End /\ heap[k].used
  BY <1>4, <1>9 DEF SameTaken
<1>14. ASSUME NEW k \in DOMAIN heap, k # m, k # End, heap[k].used
       PROVE  p.heap[k].next = heap[k].next
  BY <1>4, <1>9, <1>14 DEF SameTaken
<1> QED BY <1>1, <1>12, <1>13, <1>14

\* rt_realloc shrinks m to n.
LEMMA ShrinkHolds ==
  ASSUME PartsAssumption, HeapInv, NEW m \in DOMAIN given, NEW n \in Nat, Heap!ReallocShrink(m, n)
  PROVE  HeapInv'
<1> DEFINE r == m + Struct + n
           f == Heap!SplitOff(m, n)
           low == IF r < lfree THEN r ELSE lfree
           p == Heap!PlugHoles(f, low, r)
<1>1. /\ heap' = p.heap /\ lfree' = p.lfree /\ usedMem' = usedMem - (Heap!Room(heap, m) - n)
      /\ given' = [given EXCEPT ![m] = n] /\ n + Struct + MinSize < Heap!Room(heap, m)
  BY DEF Heap!ReallocShrink, Heap!Shrinks
<1>2. /\ HeapCore /\ GivenInv /\ Laid(heap, End) /\ Merged(heap, End) /\ heap[0].prev = 0
      /\ LowOf(heap, lfree) /\ usedMem = Cardinality(Taken(heap, End))
  BY DEF HeapInv, HeapCore
<1>3. m \in DOMAIN heap /\ m # End /\ heap[m].used
  BY <1>2 DEF GivenInv
<1>4. /\ Struct \in Nat /\ Struct > 0 /\ MinSize \in Nat /\ MinSize > 0
      /\ \A k \in DOMAIN heap : k \in Nat /\ heap[k].next \in Nat
  BY <1>2, HeapNumbers, LaidFacts
<1>5. /\ m + Struct + n + Struct <= heap[m].next /\ r \in Nat /\ r = m + Struct + n
      /\ Heap!Room(heap, m) - n = heap[m].next - r
  <2>1. m \in Nat /\ heap[m].next \in Nat /\ Heap!Room(heap, m) = heap[m].next - (m + Struct)
    BY <1>3, <1>4 DEF Heap!Room
  <2> QED BY <1>1, <1>4, <2>1
<1> HIDE DEF p, f
<1>6. SplitAt(heap, f, End, m, r) /\ f[0].prev = 0
  BY <1>2, <1>3, <1>5, SplitOffStep DEF f
<1> HIDE DEF r
<1>7. /\ Laid(f, End) /\ m < r /\ r < heap[m].next
      /\ r \notin DOMAIN heap /\ DOMAIN f = DOMAIN heap \union {r}
      /\ \A k \in DOMAIN heap : f[k].used = heap[k].used /\ (k # m => f[k].next = heap[k].next)
      /\ f[m].next = r /\ ~f[r].used /\ f[r].next = heap[m].next
      /\ Cardinality(Taken(heap, End)) \in Nat
      /\ Cardinality(Taken(f, End)) = Cardinality(Taken(heap, End)) - (heap[m].next - r)
  BY <1>3, <1>6 DEF SplitAt, Parted
<1>8. LowOf(f, low)
  <2>1. /\ lfree \in DOMAIN heap /\ (lfree = End \/ ~heap[lfree].used)
        /\ \A k \in DOMAIN heap : ~heap[k].used => lfree <= k
    BY <1>2 DEF LowOf
  <2>2. ASSUME NEW k \in DOMAIN f, ~f[k].used PROVE low <= k
    <3>1. lfree \in Nat /\ k \in Nat /\ (k = r \/ lfree <= k)
      BY <1>4, <1>5, <1>7, <2>1, <2>2
    <3> QED BY <1>5, <3>1
  <2>3. low \in DOMAIN f /\ (low = End \/ ~f[low].used)
    BY <1>7, <2>1
  <2> QED BY <2>2, <2>3 DEF LowOf
<1>9. MergedBut(f, r)
  <2>1. ASSUME NEW k \in DOMAIN f, k # r, k # End, ~f[k].used, f[k].next # r
        PROVE  f[f[k].next].used
    <3>1. k \in DOMAIN heap /\ k # m /\ ~heap[k].used /\ f[k].next = heap[k].next
      BY <1>7, <2>1
    <3>2. heap[k].next \in DOMAIN heap /\ heap[heap[k].next].used
      BY <1>2, <2>1, <3>1 DEF Merged, Laid
    <3> QED BY <1>7, <3>1, <3>2
  <2>2. r \in DOMAIN f /\ r # End
    BY <1>2, <1>7 DEF Laid
  <2> QED BY <1>7, <2>1, <2>2 DEF MergedBut
<1> HIDE DEF low
<1>10. Plugged(f, p)
  BY <1>6, <1>7, <1>8, <1>9, PlugHolesHolds DEF p
<1>11. /\ Laid(p.heap, End) /\ Merged(p.heap, End) /\ p.heap[0].prev = 0 /\ LowOf(p.heap, p.lfree)
       /\ SameTaken(f, p.heap, End)
       /\ Cardinality(Taken(p.heap, End)) = Cardinality(Taken(f, End))
  BY <1>10 DEF Plugged
<1>12. End' = End
  BY DEF End, Heap!End
<1>13. HeapCore'
  <2>1. usedMem' = Cardinality(Taken(f, End))
    BY <1>1, <1>2, <1>5, <1>7
  <2> QED BY <1>1, <1>11, <1>12, <2>1 DEF HeapCore
<1>14. ASSUME NEW k
       PROVE  k \in DOMAIN p.heap /\ k # End /\ p.heap[k].used
                     <=> k \in DOMAIN heap /\ k # End /\ heap[k].used
  BY <1>7, <1>11 DEF SameTaken
<1>15. ASSUME NEW k \in DOMAIN heap, k # End, heap[k].used
       PROVE  p.heap[k].next = IF k = m THEN r ELSE heap[k].next
  BY <1>7, <1>11, <1>15 DEF SameTaken
<1>16. DOMAIN given' = DOMAIN given /\ \A k \in DOMAIN given : given'[k] = IF k = m THEN n ELSE given[k]
  BY <1>1
<1>17. GivenInv'
  <2>1. ASSUME NEW k PROVE k \in DOMAIN given' <=> k \in DOMAIN heap' /\ k # End /\ heap'[k].used
    BY <1>1, <1>2, <1>14, <1>16 DEF GivenInv
  <2>2. ASSUME NEW k \in DOMAIN given PROVE given'[k] \in Nat /\ k + Struct + given'[k] <= heap'[k].next
    <3>1. /\ k \in DOMAIN heap /\ k # End /\ heap[k].used
          /\ given[k] \in Nat /\ k + Struct + given[k] <= heap[k].next
      BY <1>2 DEF GivenInv
    <3>2. CASE k = m
      BY <1>1, <1>5, <1>15, <1>16, <3>1, <3>2
    <3>3. CASE k # m
      BY <1>1, <1>15, <1>16, <3>1, <3>3
    <3> QED BY <3>2, <3>3
  <2> QED BY <1>12, <1>16, <2>1, <2>2 DEF GivenInv
<1> QED BY <1>13, <1>17 DEF HeapInv

LEMMA WithoutIs ==
  ASSUME NEW sizes, NEW m
  PROVE  /\ DOMAIN Heap!Without(sizes, m) = DOMAIN sizes \ {m}
         /\ \A k \in DOMAIN sizes \ {m} : Heap!Without(sizes, m)[k] = sizes[k]
BY DEF Heap!Without

LEMMA TakeGiven ==
  ASSUME PartsAssumption, HeapInv, NEW n \in Nat,
         Heap!Found(Heap!AtLeastMin(n)) # None,
         Heap!Take(Heap!Found(Heap!AtLeastMin(n)), Heap!AtLeastMin(n)),
         given' = Heap!Noted(given, Heap!Found(Heap!AtLeastMin(n)), n)
  PROVE  HeapInv'
<1> DEFINE l == Heap!AtLeastMin(n)
           m == Heap!Found(l)
<1>1. l \in Nat /\ n <= l
  BY HeapNumbers DEF Heap!AtLeastMin
<1>2. m # None /\ Heap!Take(m, l) /\ given' = Heap!Noted(given, m, n)
  OBVIOUS
<1>3. HeapCore /\ GivenInv
  BY DEF HeapInv
<1> HIDE DEF l
<1>4. m \in DOMAIN heap /\ m # End /\ ~heap[m].used /\ m + Struct + l <= heap[m].next
  BY <1>1, <1>2, <1>3, FoundIs
<1> HIDE DEF m
<1>5. /\ HeapCore'
      /\ m \in DOMAIN heap' /\ heap'[m].used /\ m + Struct + l <= heap'[m].next
      /\ \A k : k \in DOMAIN heap' /\ k # End /\ heap'[k].used
                  <=> k = m \/ (k \in DOMAIN heap /\ k # End /\ heap[k].used)
      /\ \A k \in DOMAIN heap : k # m => heap'[k].next = heap[k].next
  BY <1>1, <1>2, <1>3, <1>4, TakeHolds
<1>6. /\ DOMAIN given' = DOMAIN given \union {m}
      /\ \A k \in DOMAIN given \union {m} : given'[k] = IF k = m THEN n ELSE given[k]
  <2>1. given' = Heap!Noted(given, m, n)
    BY <1>2
  <2> QED BY <2>1 DEF Heap!Noted
<1>7. GivenInv'
  <2>1. End' = End
    BY DEF End, Heap!End
  <2>2. ASSUME NEW k PROVE k \in DOMAIN given' <=> k \in DOMAIN heap' /\ k # End /\ heap'[k].used
    BY <1>3, <1>5, <1>6 DEF GivenInv
  <2>3. ASSUME NEW k \in DOMAIN given \union {m}
        PROVE  given'[k] \in Nat /\ k + Struct + given'[k] <= heap'[k].next
    <3>1. CASE k = m
      <4>1. m \in Nat /\ Struct \in Nat /\ heap'[m].next \in Nat
        <5>1. Laid(heap', End)
          BY <1>5, <2>1 DEF HeapCore
        <5> QED BY <1>5, <5>1, HeapNumbers, LaidFacts
      <4> QED BY <1>1, <1>5, <1>6, <3>1, <4>1
    <3>2. CASE k # m
      <4>1. k \in DOMAIN heap /\ given[k] \in Nat /\ k + Struct + given[k] <= heap[k].next
        BY <1>3, <2>3, <3>2 DEF GivenInv
      <4> QED BY <1>5, <1>6, <3>2, <4>1
    <3> QED BY <3>1, <3>2
  <2> QED BY <1>6, <2>1, <2>2, <2>3 DEF GivenInv
<1> QED BY <1>5, <1>7 DEF HeapInv

LEMMA GiveBackGiven ==
  ASSUME PartsAssumption, HeapInv, NEW m \in DOMAIN given, Heap!GiveBack(m),
         given' = Heap!Without(given, m)
  PROVE  HeapInv'
<1>1. HeapCore /\ GivenInv /\ m \in DOMAIN heap /\ m # End /\ heap[m].used
  BY DEF HeapInv, GivenInv
<1>2. /\ HeapCore'
      /\ \A k : k \in DOMAIN heap' /\ k # End /\ heap'[k].used
                  <=> k # m /\ k \in DOMAIN heap /\ k # End /\ heap[k].used
      /\ \A k \in DOMAIN heap : k # m /\ k # End /\ heap[k].used => heap'[k].next = heap[k].next
  BY <1>1, GiveBackHolds
<1>3. /\ DOMAIN given' = DOMAIN given \ {m}
      /\ \A k \in DOMAIN given \ {m} : given'[k] = given[k]
  BY WithoutIs
<1>4. GivenInv'
  <2>1. End' = End
    BY DEF End, Heap!End
  <2>2. ASSUME NEW k PROVE k \in DOMAIN given' <=> k \in DOMAIN heap' /\ k # End /\ heap'[k].used
    <3>1. k \in DOMAIN given <=> k \in DOMAIN heap /\ k # End /\ heap[k].used
      BY <1>1 DEF GivenInv
    <3>2. k \in DOMAIN given' <=> k # m /\ k \in DOMAIN given
      BY <1>3
    <3> QED BY <1>2, <3>1, <3>2
  <2>3. ASSUME NEW k \in DOMAIN given \ {m}
        PROVE  given'[k] \in Nat /\ k + Struct + given'[k] <= heap'[k].next
    <3>1. /\ k \in DOMAIN heap /\ k # End /\ heap[k].used
          /\ given[k] \in Nat /\ k + Struct + given[k] <= heap[k].next
      BY <1>1, <2>3 DEF GivenInv
    <3> QED BY <1>2, <1>3, <2>3, <3>1
  <2> QED BY <1>3, <2>1, <2>2, <2>3 DEF GivenInv
<1> QED BY <1>2, <1>4 DEF HeapInv

LEMMA HeapStep ==
  ASSUME PartsAssumption, HeapInv, Heap!Next PROVE HeapInv'
<1>1. HeapSize \in Nat /\ 1..HeapSize \subseteq Nat
  BY HeapNumbers
<1>2. ASSUME NEW n \in 1..HeapSize, Heap!Malloc(n) PROVE HeapInv'
  BY <1>1, <1>2, TakeGiven DEF Heap!Malloc
<1>3. ASSUME NEW m \in DOMAIN given, Heap!Free(m) PROVE HeapInv'
  BY <1>3, GiveBackGiven DEF Heap!Free, Heap!Forgotten
<1>4. ASSUME NEW m \in DOMAIN given, Heap!ReallocFree(m) PROVE HeapInv'
  BY <1>4, GiveBackGiven DEF Heap!ReallocFree, Heap!Forgotten
<1>5. ASSUME NEW m \in DOMAIN given, NEW n \in 1..HeapSize, Heap!ReallocSame(m, n) PROVE HeapInv'
  <2>1. /\ given' = [given EXCEPT ![m] = n] /\ heap' = heap /\ lfree' = lfree /\ usedMem' = usedMem
        /\ Heap!Room(heap, m) = n /\ n \in Nat
    BY <1>1, <1>5 DEF Heap!ReallocSame
  <2>2. DOMAIN given' = DOMAIN given /\ \A k \in DOMAIN given : given'[k] = IF k = m THEN n ELSE given[k]
    BY <2>1
  <2>3. End' = End
    BY DEF End, Heap!End
  <2>4. HeapCore'
    BY <2>1, <2>3 DEF HeapInv, HeapCore
  <2>5. m + Struct + n <= heap[m].next
    <3>1. m \in DOMAIN heap /\ Laid(heap, End)
      BY DEF HeapInv, HeapCore, GivenInv
    <3>2. m \in Nat /\ heap[m].next \in Nat /\ Struct \in Nat
      BY <3>1, LaidFacts, HeapNumbers
    <3> QED BY <2>1, <3>2 DEF Heap!Room
  <2>6. GivenInv'
    BY <2>1, <2>2, <2>3, <2>5 DEF HeapInv, GivenInv
  <2> QED BY <2>4, <2>6 DEF HeapInv
<1>6. ASSUME NEW m \in DOMAIN given, NEW n \in 1..HeapSize, Heap!ReallocShrink(m, n) PROVE HeapInv'
  BY <1>1, <1>6, ShrinkHolds
<1>7. ASSUME NEW m \in DOMAIN given, NEW n \in 1..HeapSize, Heap!ReallocMove(m, n) PROVE HeapInv'
  BY <1>1, <1>7, TakeGiven DEF Heap!ReallocMove
<1> QED BY <1>2, <1>3, <1>4, <1>5, <1>6, <1>7 DEF Heap!Next

LEMMA HeapStart == ASSUME PartsAssumption, Heap!Init PROVE HeapInv
<1>1. /\ heap = [m \in {0, End} |-> [used |-> m = End, next |-> End, prev |-> m]]
      /\ lfree = 0 /\ usedMem = 0 /\ given = <<>>
  BY DEF Heap!Init, End
<1>2. /\ Struct \in Nat /\ Struct > 0 /\ End \in Nat /\ End > 0 /\ Struct <= End
  BY HeapNumbers
<1>3. /\ DOMAIN heap = {0, End} /\ 0 # End
      /\ heap[0] = [used |-> FALSE, next |-> End, prev |-> 0]
      /\ heap[End] = [used |-> TRUE, next |-> End, prev |-> End]
  <2>1. DOMAIN heap = {0, End} /\ 0 # End
    BY <1>1, <1>2
  <2>2. \A m \in {0, End} : heap[m] = [used |-> m = End, next |-> End, prev |-> m]
    BY <1>1
  <2>3. /\ heap[0] = [used |-> 0 = End, next |-> End, prev |-> 0]
        /\ heap[End] = [used |-> End = End, next |-> End, prev |-> End]
    BY <2>2
  <2>4. (0 = End) = FALSE /\ (End = End) = TRUE
    BY <2>1
  <2> QED BY <2>1, <2>3, <2>4
<1>4. heap \in [DOMAIN heap -> Header]
  <2>1. heap[0] \in Header /\ heap[End] \in Header
    BY <1>2, <1>3 DEF Header
  <2>2. heap = [m \in DOMAIN heap |-> heap[m]]
    BY <1>1
  <2> QED BY <1>3, <2>1, <2>2
<1>5. Laid(heap, End)
  BY <1>2, <1>3, <1>4 DEF Laid
<1>6. Merged(heap, End) /\ LowOf(heap, lfree) /\ heap[0].prev = 0
  BY <1>1, <1>2, <1>3 DEF Merged, LowOf
<1>7. usedMem = Cardinality(Taken(heap, End))
  <2>1. Taken(heap, End) = {}
    BY <1>2, <1>3 DEF Taken
  <2> QED BY <1>1, <2>1, FS_EmptySet
<1>8. DOMAIN given = {}
  BY <1>1
<1>9. GivenInv
  BY <1>3, <1>8 DEF GivenInv
<1> QED BY <1>5, <1>6, <1>7, <1>9 DEF HeapInv, HeapCore

LEMMA LaidTiles ==
  ASSUME NEW h, NEW end, Laid(h, end), Merged(h, end)
  PROVE  Heap!Tiles(h, end)
<1>1. {0, end} \subseteq DOMAIN h
  BY DEF Laid
<1>2. ASSUME NEW m \in DOMAIN h \ {end}
      PROVE  /\ h[m].next = Heap!Least({k \in DOMAIN h : k > m})
             /\ h[m].next >= m + Struct
             /\ h[m].next # end => h[h[m].next].prev = m
             /\ ~h[m].used => h[h[m].next].used
  <2> DEFINE S == {k \in DOMAIN h : k > m}
             n == h[m].next
  <2>1. /\ n \in DOMAIN h /\ m + Struct <= n /\ n \in Nat /\ m \in Nat /\ Struct \in Nat /\ m < n
        /\ \A k \in DOMAIN h : k \in Nat /\ (k <= m \/ n <= k)
    BY <1>2, LaidFacts DEF Laid
  <2>2. n = h[m].next
    OBVIOUS
  <2> HIDE DEF n
  <2>3. n \in S /\ S \subseteq Nat /\ \A k \in S : n <= k
    BY <2>1
  <2>4. Heap!Least(S) \in S /\ \A k \in S : Heap!Least(S) <= k
    BY <2>3, HeapLeast
  <2> HIDE DEF S
  <2>5. n = Heap!Least(S)
    <3>1. Heap!Least(S) <= n /\ n <= Heap!Least(S) /\ Heap!Least(S) \in Nat
      BY <2>3, <2>4
    <3> QED BY <2>1, <3>1
  <2>6. n >= m + Struct
    BY <2>1
  <2>7. ASSUME n # end PROVE h[n].prev = m
    <3>1. n # 0 /\ h[n].prev \in DOMAIN h /\ h[n].prev # end /\ h[h[n].prev].next = n
      BY <2>1, <2>7 DEF Laid
    <3> QED BY <1>2, <2>2, <3>1, LaidFacts
  <2>8. ~h[m].used => h[n].used
    BY <1>2, <2>2 DEF Merged
  <2> QED BY <2>2, <2>5, <2>6, <2>7, <2>8 DEF S
<1> QED BY <1>1, <1>2 DEF Heap!Tiles

LEMMA HeapSays == ASSUME PartsAssumption, HeapInv PROVE Heap!HeapExact
<1>1. /\ HeapCore /\ GivenInv /\ Laid(heap, End) /\ Merged(heap, End) /\ LowOf(heap, lfree)
      /\ usedMem = Cardinality(Taken(heap, End))
  BY DEF HeapInv, HeapCore
<1>2. /\ Struct \in Nat /\ Struct > 0 /\ MinSize \in Nat /\ HeapSize \in Nat
      /\ End = HeapSize + Struct /\ End \in Nat
      /\ \A k \in DOMAIN heap : k \in Nat /\ k <= End /\ heap[k].next \in Nat
  BY <1>1, HeapNumbers, LaidFacts
<1>3. heap[End].used /\ \A k \in DOMAIN heap : k # End => heap[k].next \in DOMAIN heap /\ k + Struct <= heap[k].next
  BY <1>1 DEF Laid
<1>4. Heap!Tiles(heap, Heap!End)
  BY <1>1, LaidTiles DEF End
<1>5. Heap!GivenFit
  <2>1. DOMAIN given = {m \in Heap!Blocks : heap[m].used}
    BY <1>1 DEF GivenInv, Heap!Blocks, End
  <2>2. ASSUME NEW m \in DOMAIN given PROVE Heap!Room(heap, m) >= given[m]
    <3>1. m \in DOMAIN heap /\ given[m] \in Nat /\ m + Struct + given[m] <= heap[m].next
      BY <1>1 DEF GivenInv
    <3>2. m \in Nat /\ heap[m].next \in Nat
      BY <1>2, <3>1
    <3>3. heap[m].next - (m + Struct) >= given[m]
      BY <1>2, <3>1, <3>2
    <3> QED BY <3>3 DEF Heap!Room
  <2> QED BY <2>1, <2>2 DEF Heap!GivenFit
<1>6. Heap!FreeBlocks = {m \in DOMAIN heap : ~heap[m].used}
  BY <1>3 DEF Heap!FreeBlocks, Heap!Blocks, End
<1>7. Heap!LowestFree
  <2> DEFINE F == Heap!FreeBlocks
  <2>1. /\ lfree \in DOMAIN heap /\ (lfree = End \/ ~heap[lfree].used)
        /\ \A k \in DOMAIN heap : ~heap[k].used => lfree <= k
    BY <1>1 DEF LowOf
  <2>2. F = {m \in DOMAIN heap : ~heap[m].used} /\ F \subseteq Nat
    BY <1>2, <1>6
  <2>3. CASE F = {}
    <3>1. lfree = End
      BY <2>1, <2>2, <2>3
    <3> QED BY <2>3, <3>1 DEF Heap!LowestFree, End
  <2>4. CASE F # {}
    <3>1. Heap!Least(F) \in F /\ \A k \in F : Heap!Least(F) <= k
      BY <2>2, <2>4, HeapLeast
    <3> DEFINE x == Heap!Least(F)
    <3>2. x \in F /\ (\A k \in F : x <= k) /\ x = Heap!Least(F)
      BY <3>1
    <3> HIDE DEF x, F
    <3>3. x \in DOMAIN heap /\ ~heap[x].used /\ x # End /\ x \in Nat /\ lfree \in Nat /\ x <= End /\ lfree <= End
      BY <1>2, <1>3, <2>1, <2>2, <3>2
    <3>4. lfree <= x /\ lfree # End
      BY <1>2, <2>1, <3>3
    <3>5. x <= lfree
      BY <2>1, <2>2, <3>2, <3>4
    <3>6. lfree = x
      BY <3>3, <3>4, <3>5
    <3>7. F # {} /\ lfree = Heap!Least(F)
      BY <2>4, <3>2, <3>6
    <3> QED BY <3>7 DEF Heap!LowestFree, F
  <2> QED BY <2>3, <2>4
<1>8. Heap!UsedExact
  <2>1. ASSUME NEW x PROVE x \in Heap!UnitsUsed <=> x \in Taken(heap, End)
    <3>1. ASSUME x \in Heap!UnitsUsed PROVE x \in Taken(heap, End)
      <4>1. PICK m \in DOMAIN given : x \in m .. heap[m].next - 1
        BY <3>1 DEF Heap!UnitsUsed
      <4>2. m \in DOMAIN heap /\ m # End /\ heap[m].used
        BY <1>1 DEF GivenInv
      <4>3. m \in Nat /\ heap[m].next \in Nat /\ heap[m].next <= End
        BY <1>2, <1>3, <4>2
      <4>4. x \in 0..(End - 1) /\ m <= x /\ x < heap[m].next
        BY <1>2, <4>1, <4>3
      <4> QED BY <4>2, <4>4 DEF Taken
    <3>2. ASSUME x \in Taken(heap, End) PROVE x \in Heap!UnitsUsed
      <4>1. x \in Nat
        BY <1>2, <3>2 DEF Taken
      <4>2. PICK m \in DOMAIN heap : m # End /\ heap[m].used /\ m <= x /\ x < heap[m].next
        BY <3>2 DEF Taken
      <4>3. m \in DOMAIN given
        BY <1>1, <4>2 DEF GivenInv
      <4>4. x \in m .. heap[m].next - 1
        BY <1>2, <4>1, <4>2
      <4> DEFINE I == m .. heap[m].next - 1
      <4>5. I \in {k .. heap[k].next - 1 : k \in DOMAIN given} /\ x \in I
        BY <4>3, <4>4
      <4> HIDE DEF I
      <4> QED BY <4>5 DEF Heap!UnitsUsed
    <3> QED BY <3>1, <3>2
  <2>2. Heap!UnitsUsed = Taken(heap, End)
    BY <2>1
  <2>3. Heap!Cardinality(Heap!UnitsUsed) = Cardinality(Heap!UnitsUsed)
    BY DEF Heap!Cardinality, Cardinality
  <2> QED BY <1>1, <2>2, <2>3 DEF Heap!UsedExact
<1>9. Heap!FindsWhatFits
  <2>1. ASSUME NEW n \in MinSize..HeapSize, Heap!Found(n) = None, NEW m \in Heap!FreeBlocks
        PROVE  Heap!Room(heap, m) < n \/ (Heap!Room(heap, m) = n /\ heap[m].next = Heap!End)
    <3>1. n \in Nat
      BY <1>2
    <3>2. m \in DOMAIN heap /\ ~heap[m].used /\ m # End
      BY <1>3, <1>6
    <3>3. m < HeapSize - n => Heap!Room(heap, m) < n
      BY <1>1, <2>1, <3>1, <3>2, FoundIs
    <3>4. m \in Nat /\ heap[m].next \in Nat /\ heap[m].next <= End
      BY <1>2, <1>3, <3>2
    <3>5. Heap!Room(heap, m) = heap[m].next - (m + Struct)
      BY DEF Heap!Room
    <3>6. Heap!Room(heap, m) < n \/ (Heap!Room(heap, m) = n /\ heap[m].next = End)
      BY <1>2, <3>1, <3>3, <3>4, <3>5
    <3> QED BY <3>6 DEF End
  <2> QED BY <2>1 DEF Heap!FindsWhatFits
<1> QED BY <1>4, <1>5, <1>7, <1>8, <1>9 DEF Heap!HeapExact

-----------------------------------------------------------------------------
(* The heap of memheap.c *)

Tail0 == MemHeap!Tail0

LEMMA MemHeapOps ==
  /\ \A h, a, b : MemHeap!Joined(h, a, b) = Heap!Joined(h, a, b)
  /\ \A h, m, n : MemHeap!Split(h, m, n) = Heap!Split(h, m, n)
  /\ \A h, m : MemHeap!Room(h, m) = Heap!Room(h, m)
  /\ \A S : MemHeap!Least(S) = Heap!Least(S)
  /\ \A s, m, n : MemHeap!Noted(s, m, n) = Heap!Noted(s, m, n)
  /\ \A s, m : MemHeap!Without(s, m) = Heap!Without(s, m)
<1>1. \A h, a, b : MemHeap!Joined(h, a, b) = Heap!Joined(h, a, b)
  BY Zenon DEF MemHeap!Joined, Heap!Joined
<1>2. \A h, m, n : MemHeap!Split(h, m, n) = Heap!Split(h, m, n)
  BY Zenon DEF MemHeap!Split, Heap!Split
<1>3. \A h, m : MemHeap!Room(h, m) = Heap!Room(h, m)
  BY Zenon DEF MemHeap!Room, Heap!Room
<1>4. \A S : MemHeap!Least(S) = Heap!Least(S)
  BY Zenon DEF MemHeap!Least, Heap!Least
<1>5. \A s, m, n : MemHeap!Noted(s, m, n) = Heap!Noted(s, m, n)
  BY Zenon DEF MemHeap!Noted, Heap!Noted
<1>6. \A s, m : MemHeap!Without(s, m) = Heap!Without(s, m)
  BY Zenon DEF MemHeap!Without, Heap!Without
<1> QED BY <1>1, <1>2, <1>3, <1>4, <1>5, <1>6

LEMMA MemHeapTiles == ASSUME NEW h, NEW end, Heap!Tiles(h, end) PROVE MemHeap!Tiles(h, end)
<1>1. \A S : MemHeap!Least(S) = Heap!Least(S)
  BY MemHeapOps
<1> QED BY <1>1 DEF MemHeap!Tiles, Heap!Tiles

LEMMA MemHeapLists ==
  /\ \A l, n : MemHeap!Linked(l, n) = Linked(l, n) /\ MemHeap!Unlink(l, n) = Unlink(l, n)
  /\ \A l, n : MemHeap!LinkFirst(l, n) = LinkFirst(l, n)
  /\ \A l : MemHeap!Once(l) = Once(l)
<1>1. \A l, n : MemHeap!Linked(l, n) = Linked(l, n)
  BY Zenon DEF MemHeap!Linked, Linked
<1>2. \A l, n : MemHeap!Unlink(l, n) = Unlink(l, n)
  BY Zenon DEF MemHeap!Unlink, Unlink, MemHeap!CutOut, CutOut, MemHeap!Position, Position,
                MemHeap!Linked, Linked
<1>3. \A l, n : MemHeap!LinkFirst(l, n) = LinkFirst(l, n)
  BY Zenon DEF MemHeap!LinkFirst, LinkFirst
<1>4. \A l : MemHeap!Once(l) = Once(l)
  BY Zenon DEF MemHeap!Once, Once
<1> QED BY <1>1, <1>2, <1>3, <1>4

\* k is free, and so may be the block behind it, but no others that meet.
OnlyAhead(h, end, k) ==
  /\ k \in DOMAIN h /\ k # end /\ ~h[k].used
  /\ \A x \in DOMAIN h : x # k /\ x # end /\ ~h[x].used => h[h[x].next].used

\* The free block k takes in the one behind it when that is free too.
TakenIn(h, k) ==
  IF h[h[k].next].used THEN h ELSE Heap!Joined(h, k, h[k].next)
AheadJoined(h, g, end, k) ==
  /\ Laid(g, end) /\ Merged(g, end) /\ g[0].prev = h[0].prev /\ SameTaken(h, g, end)
  /\ k \in DOMAIN g /\ Cardinality(Spare(h, end)) \in Nat
  /\ Cardinality(Spare(g, end)) = Cardinality(Spare(h, end)) + (IF h[h[k].next].used THEN 0 ELSE Struct)
  /\ \A x : x \in DOMAIN g /\ ~g[x].used
             <=> x \in DOMAIN h /\ ~h[x].used /\ (h[h[k].next].used \/ x # h[k].next)
  /\ g[k].next = IF h[h[k].next].used THEN h[k].next ELSE h[h[k].next].next

LEMMA AheadStep ==
  ASSUME NEW h, NEW end, Laid(h, end), NEW k, OnlyAhead(h, end, k)
  PROVE  AheadJoined(h, TakenIn(h, k), end, k)
<1> DEFINE n == h[k].next
           g == TakenIn(h, k)
<1>1. /\ k \in DOMAIN h /\ k # end /\ ~h[k].used
      /\ \A x \in DOMAIN h : x # k /\ x # end /\ ~h[x].used => h[h[x].next].used
  BY DEF OnlyAhead
<1>2. /\ end \in Nat /\ h[end].used /\ n \in DOMAIN h /\ Struct \in Nat /\ 0 \in DOMAIN h
  BY <1>1 DEF Laid
<1>3. n = h[k].next
  OBVIOUS
<1> HIDE DEF n, g
<1>4. CASE h[n].used
  <2>1. g = h
    BY <1>3, <1>4 DEF g, TakenIn
  <2>2. Merged(h, end)
    BY <1>1, <1>3, <1>4 DEF Merged
  <2>3. SameTaken(h, h, end)
    BY DEF SameTaken
  <2>4. Cardinality(Spare(h, end)) \in Nat
    <3>1. IsFiniteSet(Spare(h, end))
      BY <1>2, UnitsFinite
    <3> QED BY <3>1, FS_CardinalityType
  <2>5. AheadJoined(h, h, end, k)
    BY <1>1, <1>3, <1>4, <2>2, <2>3, <2>4 DEF AheadJoined
  <2> QED BY <2>1, <2>5 DEF g
<1>5. CASE ~h[n].used
  <2>1. g = Heap!Joined(h, k, n)
    BY <1>3, <1>5 DEF g, TakenIn
  <2>2. n # end
    BY <1>2, <1>5
  <2>3. /\ Laid(g, end) /\ IsJoin(h, g, k, n) /\ g[0].prev = h[0].prev
        /\ k < n /\ n < h[n].next /\ SameTaken(h, g, end)
        /\ Cardinality(Spare(h, end)) \in Nat
        /\ Cardinality(Spare(g, end)) = Cardinality(Spare(h, end)) + Struct
    BY <1>1, <1>3, <1>5, <2>1, <2>2, JoinStep
  <2>4. /\ DOMAIN g = DOMAIN h \ {n}
        /\ \A x \in DOMAIN g : /\ g[x].used = h[x].used
                               /\ g[x].next = IF x = k THEN h[n].next ELSE h[x].next
    BY <2>3 DEF IsJoin
  <2>5. k # n /\ k \in Nat /\ n \in Nat /\ h[n].next \in DOMAIN h /\ h[n].next # n
    BY <1>1, <1>2, <2>2, <2>3, LaidFacts DEF Laid
  <2>6. Merged(g, end)
    <3>1. ASSUME NEW x \in DOMAIN g, x # end, ~g[x].used PROVE g[g[x].next].used
      <4>1. CASE x = k
        <5>1. h[h[n].next].used
          BY <1>1, <1>2, <1>5, <2>2, <2>5
        <5> QED BY <2>4, <2>5, <4>1, <5>1
      <4>2. CASE x # k
        <5>1. x \in DOMAIN h /\ ~h[x].used /\ h[h[x].next].used /\ h[x].next \in DOMAIN h /\ h[x].next # n
          BY <1>1, <1>5, <2>4, <3>1, <4>2 DEF Laid
        <5> QED BY <2>4, <4>2, <5>1
      <4> QED BY <4>1, <4>2
    <3> QED BY <3>1 DEF Merged
  <2>7. AheadJoined(h, g, end, k)
    BY <1>1, <1>3, <1>5, <2>3, <2>4, <2>5, <2>6 DEF AheadJoined
  <2> QED BY <2>7 DEF g
<1> QED BY <1>4, <1>5

\* The free list holds the free blocks, each once.
Listed(h, l) ==
  /\ l \in Seq(Nat) /\ Once(l)
  /\ \A x : Linked(l, x) <=> x \in DOMAIN h /\ ~h[x].used

MemHeapCore ==
  /\ Laid(items, Tail0) /\ Merged(items, Tail0) /\ items[0].prev = Tail0
  /\ Listed(items, freeList)
  /\ available = Cardinality(Spare(items, Tail0))

HoldsInv ==
  /\ \A m : m \in DOMAIN holds <=> m \in DOMAIN items /\ m # Tail0 /\ items[m].used
  /\ \A m \in DOMAIN holds : holds[m] \in Nat /\ m + Struct + holds[m] <= items[m].next

MemHeapInv == MemHeapCore /\ HoldsInv

LEMMA MemHeapNumbers ==
  ASSUME PartsAssumption
  PROVE  /\ Struct \in Nat /\ Struct > 0 /\ MinSize \in Nat /\ MinSize > 0
         /\ PoolSize \in Nat /\ PoolSize >= MinSize /\ None \notin Nat
         /\ Tail0 = PoolSize + Struct
BY DEF PartsAssumption, MemHeap!MemHeapConstants, Tail0, MemHeap!Tail0

LEMMA TailStays == Tail0' = Tail0
BY DEF Tail0, MemHeap!Tail0

LEMMA MemFoundIs ==
  ASSUME PartsAssumption, MemHeapCore, NEW n \in Nat, MemHeap!Found(n) # None
  PROVE  /\ MemHeap!Found(n) \in DOMAIN items /\ MemHeap!Found(n) # Tail0
         /\ ~items[MemHeap!Found(n)].used
         /\ MemHeap!Found(n) + Struct + n <= items[MemHeap!Found(n)].next
<1> DEFINE fits == {i \in DOMAIN freeList : Heap!Room(items, freeList[i]) >= n}
<1>1. MemHeap!Found(n) = IF n < available /\ fits # {} THEN freeList[Heap!Least(fits)] ELSE None
  <2>1. /\ \A h, m : MemHeap!Room(h, m) = Heap!Room(h, m)
        /\ \A S : MemHeap!Least(S) = Heap!Least(S)
    BY MemHeapOps
  <2> QED BY <2>1 DEF MemHeap!Found
<1>2. /\ freeList \in Seq(Nat) /\ (\A x : Linked(freeList, x) <=> x \in DOMAIN items /\ ~items[x].used)
      /\ items[Tail0].used /\ Struct \in Nat
      /\ \A m \in DOMAIN items : m \in Nat /\ items[m].next \in Nat
  BY LaidFacts, MemHeapNumbers DEF MemHeapCore, Listed, Laid
<1>3. fits # {} /\ fits \subseteq Nat
  <2>1. DOMAIN freeList = 1..Len(freeList) /\ Len(freeList) \in Nat
    BY <1>2
  <2>2. fits # {}
    BY <1>1
  <2> QED BY <2>1, <2>2
<1>4. Heap!Least(fits) \in fits
  BY <1>3, HeapLeast
<1> DEFINE i == Heap!Least(fits)
           m == freeList[i]
<1>5. i \in DOMAIN freeList /\ Heap!Room(items, freeList[i]) >= n
  BY <1>4
<1>6. MemHeap!Found(n) = m
  BY <1>1, <1>3
<1> HIDE DEF i, fits
<1>7. Linked(freeList, m)
  BY <1>5 DEF Linked
<1>8. m \in DOMAIN items /\ ~items[m].used /\ m # Tail0 /\ Heap!Room(items, m) >= n
  BY <1>2, <1>5, <1>7
<1> HIDE DEF m
<1>9. m + Struct + n <= items[m].next
  <2>1. m \in Nat /\ items[m].next \in Nat /\ Heap!Room(items, m) = items[m].next - (m + Struct)
    BY <1>2, <1>8 DEF Heap!Room
  <2> QED BY <1>2, <1>8, <2>1
<1> QED BY <1>6, <1>8, <1>9

\* rt_memheap_alloc takes m.
LEMMA MemTakeHolds ==
  ASSUME PartsAssumption, MemHeapCore, NEW m \in DOMAIN items, m # Tail0, ~items[m].used,
         NEW n \in Nat, m + Struct + n <= items[m].next, MemHeap!Take(m, n)
  PROVE  /\ MemHeapCore'
         /\ m \in DOMAIN items' /\ items'[m].used /\ m + Struct + n <= items'[m].next
         /\ \A k : k \in DOMAIN items' /\ k # Tail0 /\ items'[k].used
                     <=> k = m \/ (k \in DOMAIN items /\ k # Tail0 /\ items[k].used)
         /\ \A k \in DOMAIN items : k # m => items'[k].next = items[k].next
<1> DEFINE r == m + Struct + n
           split == Heap!Room(items, m) >= n + Struct + MinSize
           f == IF split THEN Heap!Split(items, m, n) ELSE items
           h == Mark(f, m, TRUE)
<1>1. /\ items' = h
      /\ freeList' = IF split THEN LinkFirst(Unlink(freeList, m), r) ELSE Unlink(freeList, m)
      /\ available' = available - (IF split THEN n + Struct ELSE Heap!Room(items, m))
  <2>1. /\ MemHeap!Room(items, m) = Heap!Room(items, m)
        /\ MemHeap!Split(items, m, n) = Heap!Split(items, m, n)
        /\ MemHeap!Unlink(freeList, m) = Unlink(freeList, m)
        /\ \A l : MemHeap!LinkFirst(l, r) = LinkFirst(l, r)
    BY MemHeapOps, MemHeapLists
  <2>2. /\ items' = [(IF split THEN Heap!Split(items, m, n) ELSE items) EXCEPT ![m].used = TRUE]
        /\ freeList' = IF split THEN LinkFirst(Unlink(freeList, m), r) ELSE Unlink(freeList, m)
        /\ available' = available - (IF split THEN n + Struct ELSE Heap!Room(items, m))
    BY <2>1 DEF MemHeap!Take
  <2>3. items' = [f EXCEPT ![m].used = TRUE]
    BY <2>2
  <2>4. items' = h
    BY <2>3, Zenon DEF Mark
  <2> HIDE DEF h
  <2> QED BY <2>2, <2>4
<1>2. /\ Laid(items, Tail0) /\ Merged(items, Tail0) /\ items[0].prev = Tail0
      /\ available = Cardinality(Spare(items, Tail0))
      /\ freeList \in Seq(Nat) /\ Once(freeList)
      /\ \A x : Linked(freeList, x) <=> x \in DOMAIN items /\ ~items[x].used
  BY DEF MemHeapCore, Listed
<1>3. /\ Struct \in Nat /\ Struct > 0 /\ MinSize \in Nat /\ MinSize > 0
      /\ \A k \in DOMAIN items : k \in Nat /\ items[k].next \in Nat
      /\ items[m].next \in DOMAIN items /\ 0 \in DOMAIN items
  <2>1. Struct \in Nat /\ Struct > 0 /\ MinSize \in Nat /\ MinSize > 0
    BY MemHeapNumbers
  <2>2. \A k \in DOMAIN items : k \in Nat /\ items[k].next \in Nat
    BY <1>2, LaidFacts
  <2>3. items[m].next \in DOMAIN items /\ 0 \in DOMAIN items
    BY <1>2 DEF Laid
  <2> QED BY <2>1, <2>2, <2>3
<1>4. split => m + Struct + n + Struct <= items[m].next
  <2>1. m \in Nat /\ items[m].next \in Nat /\ Heap!Room(items, m) = items[m].next - (m + Struct)
    BY <1>3 DEF Heap!Room
  <2>2. ASSUME split PROVE items[m].next - (m + Struct) >= n + Struct + MinSize
    BY <2>1, <2>2
  <2> HIDE DEF split
  <2> QED BY <1>3, <2>1, <2>2
<1>5. Heap!Room(items, m) = items[m].next - (m + Struct)
  BY DEF Heap!Room
<1> HIDE DEF split, h
<1>6. /\ Laid(f, Tail0) /\ f[0].prev = Tail0 /\ m \in DOMAIN f /\ ~f[m].used
      /\ DOMAIN f = (IF split THEN DOMAIN items \union {r} ELSE DOMAIN items)
      /\ \A k \in DOMAIN items : f[k].used = items[k].used /\ (k # m => f[k].next = items[k].next)
      /\ split => r \notin DOMAIN items /\ ~f[r].used /\ f[r].next = items[m].next /\ r \in Nat
      /\ f[m].next = IF split THEN r ELSE items[m].next
      /\ Cardinality(Spare(items, Tail0)) \in Nat
      /\ Cardinality(Spare(f, Tail0)) = Cardinality(Spare(items, Tail0)) - (IF split THEN Struct ELSE 0)
  <2>1. CASE ~split
    <3>1. f = items
      BY <2>1
    <3>2. Cardinality(Spare(items, Tail0)) \in Nat
      <4>1. IsFiniteSet(Spare(items, Tail0))
        BY <1>2, UnitsFinite DEF Laid
      <4> QED BY <4>1, FS_CardinalityType
    <3> HIDE DEF f
    <3> QED BY <1>2, <2>1, <3>1, <3>2
  <2>2. CASE split
    <3>1. f = Heap!Split(items, m, n)
      BY <2>2
    <3> HIDE DEF f, r
    <3>2. SplitAt(items, f, Tail0, m, r)
      BY <1>2, <1>4, <2>2, <3>1, SplitStep DEF r
    <3>3. /\ Laid(f, Tail0) /\ Parted(items, f, m, r) /\ r \in Nat /\ m < r /\ r < items[m].next
          /\ \A k \in DOMAIN items : k # Tail0 => f[k].prev = IF k = items[m].next THEN r ELSE items[k].prev
          /\ Cardinality(Spare(items, Tail0)) \in Nat
          /\ Cardinality(Spare(f, Tail0)) = Cardinality(Spare(items, Tail0)) - Struct
      BY <3>2 DEF SplitAt
    <3>4. /\ r \notin DOMAIN items /\ DOMAIN f = DOMAIN items \union {r}
          /\ \A k \in DOMAIN items : f[k].used = items[k].used /\ (k # m => f[k].next = items[k].next)
          /\ f[m].next = r /\ ~f[r].used /\ f[r].next = items[m].next
      BY <3>3 DEF Parted
    <3>5. f[0].prev = Tail0
      <4>1. items[m].next # 0 /\ 0 # Tail0
        BY <1>2, <1>3, <3>3 DEF Laid
      <4> QED BY <1>2, <1>3, <3>3, <4>1
    <3> QED BY <2>2, <3>3, <3>4, <3>5
  <2> QED BY <2>1, <2>2
<1> HIDE DEF f, r
<1>7. /\ Laid(h, Tail0) /\ DOMAIN h = DOMAIN f
      /\ \A k \in DOMAIN f : /\ h[k].next = f[k].next /\ h[k].prev = f[k].prev
                             /\ k # m => h[k].used = f[k].used
      /\ h[m].used = TRUE
  <2>1. Marked(f, h, Tail0, m, TRUE)
    BY <1>6, MarkStep DEF h
  <2> QED BY <2>1 DEF Marked
<1>8. Flipped(f, h, m)
  BY <1>6, <1>7 DEF Flipped
<1>9. /\ Cardinality(Spare(h, Tail0)) \in Nat
      /\ Cardinality(Spare(f, Tail0)) = Cardinality(Spare(h, Tail0)) + (f[m].next - (m + Struct))
  BY <1>6, <1>7, <1>8, FlippedCounts
<1>10. available' = Cardinality(Spare(h, Tail0))
  <2>1. r = m + Struct + n /\ m \in Nat
    BY <1>3 DEF r
  <2>2. CASE split
    <3>1. f[m].next - (m + Struct) = n
      BY <1>3, <1>6, <2>1, <2>2
    <3> QED BY <1>1, <1>2, <1>3, <1>6, <1>9, <2>2, <3>1
  <2>3. CASE ~split
    BY <1>1, <1>2, <1>3, <1>5, <1>6, <1>9, <2>1, <2>3
  <2> QED BY <2>2, <2>3
<1>11. h[0].prev = Tail0
  <2>1. 0 \in DOMAIN f
    BY <1>6 DEF Laid
  <2> QED BY <1>6, <1>7, <2>1
<1>12. Merged(h, Tail0)
  <2>1. ASSUME NEW k \in DOMAIN h, k # Tail0, ~h[k].used PROVE h[h[k].next].used
    <3>1. k # m /\ k \in DOMAIN f /\ ~f[k].used /\ h[k].next = f[k].next
      BY <1>7, <2>1
    <3>2. items[items[m].next].used /\ items[m].next # m
      BY <1>2, <1>3, LaidFacts DEF Merged
    <3>3. CASE k \notin DOMAIN items
      <4>1. f[k].next = items[m].next
        BY <1>6, <3>1, <3>3
      <4> QED BY <1>3, <1>6, <1>7, <3>1, <3>2, <4>1
    <3>4. CASE k \in DOMAIN items
      <4>1. items[k].next \in DOMAIN items /\ items[items[k].next].used /\ f[k].next = items[k].next
        BY <1>2, <1>6, <2>1, <3>1, <3>4 DEF Merged, Laid
      <4>2. items[k].next # m
        BY <4>1
      <4> QED BY <1>6, <1>7, <3>1, <4>1, <4>2
    <3> QED BY <3>3, <3>4
  <2> QED BY <2>1 DEF Merged
<1>13. Listed(h, freeList')
  <2> DEFINE u == Unlink(freeList, m)
  <2>1. u \in Seq(Nat) /\ Once(u) /\ \A x : Linked(u, x) <=> Linked(freeList, x) /\ x # m
    BY <1>2, UnlinkFacts
  <2> HIDE DEF u
  <2>2. CASE ~split
    <3>1. freeList' = u
      BY <1>1, <2>2 DEF u
    <3>2. ASSUME NEW x PROVE Linked(u, x) <=> x \in DOMAIN h /\ ~h[x].used
      BY <1>2, <1>6, <1>7, <2>1, <2>2
    <3> QED BY <2>1, <3>1, <3>2 DEF Listed
  <2>3. CASE split
    <3>1. freeList' = LinkFirst(u, r)
      BY <1>1, <2>3 DEF u
    <3>2. r \in Nat /\ ~Linked(u, r)
      BY <1>2, <1>6, <2>1, <2>3
    <3>3. /\ freeList' \in Seq(Nat) /\ Once(freeList')
          /\ \A x : Linked(freeList', x) <=> Linked(u, x) \/ x = r
      BY <2>1, <3>1, <3>2, LinkFirstFacts
    <3>4. r # m
      BY <1>6, <2>3
    <3>5. ASSUME NEW x PROVE Linked(u, x) \/ x = r <=> x \in DOMAIN h /\ ~h[x].used
      BY <1>2, <1>6, <1>7, <2>1, <2>3, <3>4
    <3> QED BY <3>3, <3>5 DEF Listed
  <2> QED BY <2>2, <2>3
<1>14. ASSUME NEW k
       PROVE  k \in DOMAIN h /\ k # Tail0 /\ h[k].used
                     <=> k = m \/ (k \in DOMAIN items /\ k # Tail0 /\ items[k].used)
  BY <1>6, <1>7
<1>15. MemHeapCore'
  BY <1>1, <1>7, <1>10, <1>11, <1>12, <1>13, TailStays DEF MemHeapCore
<1>16. m \in DOMAIN h /\ m + Struct + n <= h[m].next
  <2>1. m \in DOMAIN h /\ h[m].next = f[m].next /\ m + Struct + n \in Nat
    BY <1>3, <1>6, <1>7
  <2>2. m + Struct + n <= f[m].next
    BY <1>6, <2>1 DEF r
  <2> QED BY <2>1, <2>2
<1>17. \A k \in DOMAIN items : k # m => h[k].next = items[k].next
  BY <1>6, <1>7
<1> QED BY <1>1, <1>7, <1>14, <1>15, <1>16, <1>17

\* rt_memheap_free gives m back.
LEMMA MemGiveBackHolds ==
  ASSUME PartsAssumption, MemHeapCore, NEW m \in DOMAIN items, m # Tail0, items[m].used,
         MemHeap!GiveBack(m)
  PROVE  /\ MemHeapCore'
         /\ \A x : x \in DOMAIN items' /\ x # Tail0 /\ items'[x].used
                     <=> x # m /\ x \in DOMAIN items /\ x # Tail0 /\ items[x].used
         /\ \A x \in DOMAIN items :
              x # m /\ x # Tail0 /\ items[x].used => items'[x].next = items[x].next
<1> DEFINE h == Mark(items, m, FALSE)
           p == h[m].prev
           before == ~h[p].used
           k == IF before THEN p ELSE m
           h1 == IF before THEN Heap!Joined(h, k, m) ELSE h
           n == h1[k].next
           behind == ~h1[n].used
           without == IF behind THEN Unlink(freeList, n) ELSE freeList
           g == TakenIn(h1, k)
<1>1. /\ items' = g
      /\ freeList' = IF before THEN without ELSE LinkFirst(without, m)
      /\ available' = available + (items[m].next - (m + Struct))
                        + (IF before THEN Struct ELSE 0) + (IF behind THEN Struct ELSE 0)
  <2>1. /\ \A x, y, z : MemHeap!Joined(x, y, z) = Heap!Joined(x, y, z)
        /\ \A l, x : MemHeap!Unlink(l, x) = Unlink(l, x)
        /\ \A l, x : MemHeap!LinkFirst(l, x) = LinkFirst(l, x)
    BY MemHeapOps, MemHeapLists
  <2> DEFINE h0 == [items EXCEPT ![m].used = FALSE]
             k0 == IF ~h0[h0[m].prev].used THEN h0[m].prev ELSE m
             h2 == IF ~h0[h0[m].prev].used THEN MemHeap!Joined(h0, k0, m) ELSE h0
             n0 == h2[k0].next
             w0 == IF ~h2[n0].used THEN MemHeap!Unlink(freeList, n0) ELSE freeList
  <2>2. /\ items' = IF ~h2[n0].used THEN MemHeap!Joined(h2, k0, n0) ELSE h2
        /\ freeList' = IF ~h0[h0[m].prev].used THEN w0 ELSE MemHeap!LinkFirst(w0, m)
        /\ available' = available + MemHeap!Room(items, m)
                          + (IF ~h0[h0[m].prev].used THEN Struct ELSE 0) + (IF ~h2[n0].used THEN Struct ELSE 0)
    BY DEF MemHeap!GiveBack
  <2>3. h0 = h
    BY DEF Mark
  <2> HIDE DEF h0, h
  <2>4. k0 = k /\ h2 = h1
    BY <2>1, <2>3
  <2> HIDE DEF k0, h2, k, h1
  <2>5. n0 = n /\ w0 = without
    BY <2>1, <2>4
  <2>6. (~h0[h0[m].prev].used <=> before) /\ (~h2[n0].used <=> behind)
    BY <2>3, <2>4, <2>5
  <2> HIDE DEF n0, w0, n, without, before, behind
  <2>7. items' = IF behind THEN Heap!Joined(h1, k, n) ELSE h1
    BY <2>1, <2>2, <2>4, <2>5, <2>6
  <2>8. items' = g
    BY <2>7 DEF TakenIn, behind, n
  <2>9. freeList' = IF before THEN without ELSE LinkFirst(without, m)
    BY <2>1, <2>2, <2>5, <2>6
  <2>10. MemHeap!Room(items, m) = items[m].next - (m + Struct)
    BY DEF MemHeap!Room
  <2> QED BY <2>2, <2>6, <2>8, <2>9, <2>10
<1>2. /\ Laid(items, Tail0) /\ Merged(items, Tail0) /\ items[0].prev = Tail0
      /\ available = Cardinality(Spare(items, Tail0))
      /\ freeList \in Seq(Nat) /\ Once(freeList)
      /\ \A x : Linked(freeList, x) <=> x \in DOMAIN items /\ ~items[x].used
  BY DEF MemHeapCore, Listed
<1>3. /\ Struct \in Nat /\ \A x \in DOMAIN items : x \in Nat /\ items[x].next \in Nat
  BY <1>2, MemHeapNumbers, LaidFacts
<1>4. 0 \in DOMAIN items /\ Tail0 \in DOMAIN items /\ items[Tail0].used
  BY <1>2 DEF Laid
<1>5. /\ p = h[m].prev /\ (before <=> ~h[p].used) /\ k = (IF before THEN p ELSE m)
      /\ h1 = (IF before THEN Heap!Joined(h, k, m) ELSE h) /\ n = h1[k].next
      /\ (behind <=> ~h1[n].used) /\ g = TakenIn(h1, k)
      /\ without = (IF behind THEN Unlink(freeList, n) ELSE freeList)
  OBVIOUS
<1> HIDE DEF h
<1>6. /\ Laid(h, Tail0) /\ DOMAIN h = DOMAIN items /\ h[m].used = FALSE
      /\ \A x \in DOMAIN items : /\ h[x].next = items[x].next /\ h[x].prev = items[x].prev
                                 /\ x # m => h[x].used = items[x].used
  <2>1. Marked(items, h, Tail0, m, FALSE)
    BY <1>2, MarkStep DEF h
  <2> QED BY <2>1 DEF Marked
<1> HIDE DEF p, before, k, h1, n, behind, g, without
<1>7. /\ Cardinality(Spare(h, Tail0)) \in Nat
      /\ Cardinality(Spare(h, Tail0)) = Cardinality(Spare(items, Tail0)) + (items[m].next - (m + Struct))
      /\ Cardinality(Spare(items, Tail0)) \in Nat
  <2>1. Flipped(h, items, m)
    BY <1>6 DEF Flipped
  <2>2. /\ Cardinality(Spare(h, Tail0)) \in Nat /\ Cardinality(Spare(items, Tail0)) \in Nat
        /\ Cardinality(Spare(h, Tail0)) = Cardinality(Spare(items, Tail0)) + (h[m].next - (m + Struct))
    BY <1>2, <1>6, <2>1, FlippedCounts
  <2> QED BY <1>6, <2>2
<1>8. \A x, y \in DOMAIN items : x # Tail0 /\ y # Tail0 /\ items[x].next = items[y].next => x = y
  BY <1>2, LaidFacts
<1>9. m # 0 => p \in DOMAIN items /\ p # Tail0 /\ items[p].next = m
  <2>1. p = items[m].prev
    BY <1>5, <1>6
  <2>2. m # 0 => items[m].prev \in DOMAIN items /\ items[m].prev # Tail0 /\ items[items[m].prev].next = m
    BY <1>2 DEF Laid
  <2> QED BY <2>1, <2>2
<1>10. m = 0 => ~before
  BY <1>2, <1>4, <1>5, <1>6
<1>11. /\ Laid(h1, Tail0) /\ OnlyAhead(h1, Tail0, k) /\ h1[0].prev = Tail0 /\ SameTaken(h, h1, Tail0)
       /\ Cardinality(Spare(h1, Tail0)) = Cardinality(Spare(h, Tail0)) + (IF before THEN Struct ELSE 0)
       /\ \A x : x \in DOMAIN h1 /\ ~h1[x].used
                  <=> (x \in DOMAIN items /\ ~items[x].used) \/ (~before /\ x = m)
  <2>1. CASE ~before
    <3>1. h1 = h /\ k = m
      BY <1>5, <2>1
    <3>2. ASSUME NEW x \in DOMAIN h, x # m, x # Tail0, ~h[x].used PROVE h[h[x].next].used
      <4>1. items[x].next \in DOMAIN items /\ items[items[x].next].used /\ x < items[x].next /\ x \in Nat
        <5>1. x \in DOMAIN items /\ ~items[x].used
          BY <1>6, <3>2
        <5>2. x < items[x].next /\ x \in Nat
          BY <1>2, <3>2, <5>1, LaidFacts
        <5> QED BY <1>2, <3>2, <5>1, <5>2 DEF Merged, Laid
      <4>2. items[x].next # m
        BY <1>3, <1>5, <1>6, <1>8, <1>9, <2>1, <3>2, <4>1
      <4> QED BY <1>6, <3>2, <4>1, <4>2
    <3>3. OnlyAhead(h, Tail0, m)
      BY <1>6, <3>2 DEF OnlyAhead
    <3>4. h[0].prev = Tail0
      BY <1>2, <1>4, <1>6
    <3>5. \A x : x \in DOMAIN h /\ ~h[x].used <=> (x \in DOMAIN items /\ ~items[x].used) \/ x = m
      BY <1>6
    <3>6. SameTaken(h, h, Tail0)
      BY DEF SameTaken
    <3> QED BY <1>6, <1>7, <2>1, <3>1, <3>3, <3>4, <3>5, <3>6
  <2>2. CASE before
    <3>1. /\ k = p /\ h1 = Heap!Joined(h, p, m) /\ p \in DOMAIN h /\ p # Tail0 /\ h[p].next = m
          /\ ~h[p].used /\ m # 0
      BY <1>5, <1>6, <1>9, <1>10, <2>2
    <3>2. /\ Laid(h1, Tail0) /\ IsJoin(h, h1, p, m) /\ h1[0].prev = h[0].prev /\ p < m /\ m < h[m].next
          /\ SameTaken(h, h1, Tail0)
          /\ Cardinality(Spare(h1, Tail0)) = Cardinality(Spare(h, Tail0)) + Struct
      BY <1>6, <3>1, JoinStep
    <3>3. /\ DOMAIN h1 = DOMAIN h \ {m}
          /\ \A x \in DOMAIN h1 : /\ h1[x].used = h[x].used
                                  /\ h1[x].next = IF x = p THEN h[m].next ELSE h[x].next
      BY <3>2 DEF IsJoin
    <3>4. p # m
      BY <1>3, <1>6, <3>1, <3>2
    <3>5. ASSUME NEW x \in DOMAIN h1, x # p, x # Tail0, ~h1[x].used PROVE h1[h1[x].next].used
      <4>1. x \in DOMAIN items /\ x # m /\ ~items[x].used /\ h1[x].next = items[x].next
        BY <1>6, <3>3, <3>5
      <4>2. items[x].next \in DOMAIN items /\ items[items[x].next].used
        BY <1>2, <3>5, <4>1 DEF Merged, Laid
      <4>3. items[x].next # m
        BY <1>8, <1>9, <3>1, <3>5, <4>1
      <4> QED BY <1>6, <3>3, <4>1, <4>2, <4>3
    <3>6. OnlyAhead(h1, Tail0, p)
      BY <3>1, <3>3, <3>4, <3>5 DEF OnlyAhead
    <3>7. h1[0].prev = Tail0
      BY <1>2, <1>4, <1>6, <3>2
    <3>8. \A x : x \in DOMAIN h1 /\ ~h1[x].used <=> x \in DOMAIN items /\ ~items[x].used
      BY <1>6, <3>3
    <3> QED BY <2>2, <3>1, <3>2, <3>6, <3>7, <3>8
  <2> QED BY <2>1, <2>2
<1>12. AheadJoined(h1, g, Tail0, k)
  BY <1>5, <1>11, AheadStep
<1>13. /\ Laid(g, Tail0) /\ Merged(g, Tail0) /\ g[0].prev = h1[0].prev /\ SameTaken(h1, g, Tail0)
       /\ Cardinality(Spare(g, Tail0)) = Cardinality(Spare(h1, Tail0)) + (IF behind THEN Struct ELSE 0)
       /\ \A x : x \in DOMAIN g /\ ~g[x].used
                  <=> x \in DOMAIN h1 /\ ~h1[x].used /\ (~behind \/ x # n)
  BY <1>5, <1>12 DEF AheadJoined
<1>14. n # m
  <2>1. k \in DOMAIN h1 /\ k # Tail0
    BY <1>11 DEF OnlyAhead
  <2>2. n \in DOMAIN h1 /\ k < n /\ k \in Nat
    BY <1>5, <1>11, <2>1, LaidFacts DEF Laid
  <2>3. CASE ~before
    BY <1>5, <2>2, <2>3
  <2>4. CASE before
    <3>1. p < m /\ p \in Nat /\ m \in Nat
      BY <1>2, <1>3, <1>9, <1>10, <2>4, LaidFacts
    <3>2. IsJoin(h, h1, p, m)
      BY <1>5, <1>6, <1>9, <1>10, <2>4, JoinedLaid
    <3> QED BY <2>2, <3>2 DEF IsJoin
  <2> QED BY <2>3, <2>4
<1>15. Listed(g, freeList')
  <2>1. /\ without \in Seq(Nat) /\ Once(without)
        /\ \A x : Linked(without, x) <=> Linked(freeList, x) /\ (~behind \/ x # n)
    <3>1. CASE behind
      BY <1>2, <1>5, <3>1, UnlinkFacts
    <3>2. CASE ~behind
      BY <1>2, <1>5, <3>2
    <3> QED BY <3>1, <3>2
  <2>2. CASE before
    <3>1. freeList' = without
      BY <1>1, <2>2
    <3>2. ASSUME NEW x PROVE Linked(without, x) <=> x \in DOMAIN g /\ ~g[x].used
      BY <1>2, <1>11, <1>13, <2>1, <2>2
    <3> QED BY <2>1, <3>1, <3>2 DEF Listed
  <2>3. CASE ~before
    <3>1. freeList' = LinkFirst(without, m) /\ m \in Nat /\ ~Linked(without, m)
      BY <1>1, <1>2, <1>3, <2>1, <2>3
    <3>2. /\ freeList' \in Seq(Nat) /\ Once(freeList')
          /\ \A x : Linked(freeList', x) <=> Linked(without, x) \/ x = m
      BY <2>1, <3>1, LinkFirstFacts
    <3>3. ASSUME NEW x PROVE Linked(without, x) \/ x = m <=> x \in DOMAIN g /\ ~g[x].used
      BY <1>2, <1>11, <1>13, <1>14, <2>1, <2>3
    <3> QED BY <3>2, <3>3 DEF Listed
  <2> QED BY <2>2, <2>3
<1>16. available' = Cardinality(Spare(g, Tail0))
  <2>1. items[m].next - (m + Struct) \in Int
    BY <1>3
  <2> QED BY <1>1, <1>2, <1>3, <1>7, <1>11, <1>13, <2>1
<1>17. MemHeapCore'
  BY <1>1, <1>11, <1>13, <1>15, <1>16, TailStays DEF MemHeapCore
<1>18. ASSUME NEW x
       PROVE  x \in DOMAIN g /\ x # Tail0 /\ g[x].used
                     <=> x # m /\ x \in DOMAIN items /\ x # Tail0 /\ items[x].used
  <2>1. x \in DOMAIN g /\ x # Tail0 /\ g[x].used <=> x \in DOMAIN h1 /\ x # Tail0 /\ h1[x].used
    BY <1>13 DEF SameTaken
  <2>2. x \in DOMAIN h1 /\ x # Tail0 /\ h1[x].used <=> x \in DOMAIN h /\ x # Tail0 /\ h[x].used
    BY <1>11 DEF SameTaken
  <2> QED BY <1>6, <2>1, <2>2
<1>19. ASSUME NEW x \in DOMAIN items, x # m, x # Tail0, items[x].used
       PROVE  g[x].next = items[x].next
  <2>1. x \in DOMAIN h /\ h[x].used /\ h[x].next = items[x].next
    BY <1>6, <1>19
  <2>2. x \in DOMAIN h1 /\ h1[x].used /\ h1[x].next = h[x].next
    BY <1>11, <1>19, <2>1 DEF SameTaken
  <2> QED BY <1>13, <1>19, <2>1, <2>2 DEF SameTaken
<1> QED BY <1>1, <1>17, <1>18, <1>19

\* A caller's block is resized: the others are as they were.
ResizedTo(m, r) ==
  /\ \A x : x \in DOMAIN items' /\ x # Tail0 /\ items'[x].used
             <=> x \in DOMAIN items /\ x # Tail0 /\ items[x].used
  /\ \A x \in DOMAIN items :
       x # Tail0 /\ items[x].used => items'[x].next = IF x = m THEN r ELSE items[x].next

\* What is left of m becomes a free block and takes in a free block behind it.
LEMMA MemShrinkHolds ==
  ASSUME PartsAssumption, MemHeapCore, NEW m \in DOMAIN items, m # Tail0, items[m].used,
         NEW want \in Nat, MemHeap!ReallocShrinks(m, want)
  PROVE  MemHeapCore' /\ ResizedTo(m, m + Struct + MemHeap!AtLeastMin(want))
<1> DEFINE n == MemHeap!AtLeastMin(want)
           r == m + Struct + n
           c == items[m].next
           h == Heap!Split(items, m, n)
           merge == ~items[c].used
           g == IF merge THEN Heap!Joined(h, r, c) ELSE h
           without == IF merge THEN Unlink(freeList, c) ELSE freeList
<1>1. /\ n + Struct + MinSize < c - (m + Struct)
      /\ items' = g /\ freeList' = LinkFirst(without, r)
      /\ available' = available - (IF merge THEN items[c].next - (c + Struct) ELSE 0)
                                + (g[r].next - (r + Struct))
  <2>1. /\ \A x, y, z : MemHeap!Joined(x, y, z) = Heap!Joined(x, y, z)
        /\ \A x, y, z : MemHeap!Split(x, y, z) = Heap!Split(x, y, z)
        /\ \A l, x : MemHeap!Unlink(l, x) = Unlink(l, x)
        /\ \A l, x : MemHeap!LinkFirst(l, x) = LinkFirst(l, x)
    BY MemHeapOps, MemHeapLists
  <2> DEFINE h0 == MemHeap!Split(items, m, n)
             g0 == IF merge THEN MemHeap!Joined(h0, r, c) ELSE h0
             w0 == IF merge THEN MemHeap!Unlink(freeList, c) ELSE freeList
  <2>2. /\ n + Struct + MinSize < MemHeap!Room(items, m)
        /\ items' = g0 /\ freeList' = MemHeap!LinkFirst(w0, r)
        /\ available' = available - (IF merge THEN MemHeap!Room(items, c) ELSE 0) + MemHeap!Room(g0, r)
    BY DEF MemHeap!ReallocShrinks
  <2> HIDE DEF n, r, c, merge
  <2>3. h0 = h
    BY <2>1
  <2> HIDE DEF h0, h
  <2>4. g0 = g /\ w0 = without
    BY <2>1, <2>3
  <2> HIDE DEF g0, g, w0, without
  <2>5. MemHeap!Room(items, m) = c - (m + Struct)
    BY DEF MemHeap!Room, c
  <2>6. MemHeap!Room(items, c) = items[c].next - (c + Struct) /\ MemHeap!Room(g, r) = g[r].next - (r + Struct)
    BY DEF MemHeap!Room
  <2> QED BY <2>1, <2>2, <2>4, <2>5, <2>6
<1>2. /\ Laid(items, Tail0) /\ Merged(items, Tail0) /\ items[0].prev = Tail0
      /\ available = Cardinality(Spare(items, Tail0))
      /\ freeList \in Seq(Nat) /\ Once(freeList)
      /\ \A x : Linked(freeList, x) <=> x \in DOMAIN items /\ ~items[x].used
  BY DEF MemHeapCore, Listed
<1>3. /\ Struct \in Nat /\ Struct > 0 /\ MinSize \in Nat /\ MinSize > 0
  BY MemHeapNumbers
<1>4. /\ \A x \in DOMAIN items : x \in Nat /\ items[x].next \in Nat
      /\ \A x, y \in DOMAIN items : x # Tail0 /\ y # Tail0 /\ items[x].next = items[y].next => x = y
  BY <1>2, LaidFacts
<1>5. /\ c \in DOMAIN items /\ 0 \in DOMAIN items /\ 0 # Tail0
  BY <1>2 DEF Laid
<1>6. n \in Nat
  BY <1>3 DEF MemHeap!AtLeastMin
<1>7. /\ c = items[m].next /\ r = m + Struct + n /\ (merge <=> ~items[c].used)
      /\ g = (IF merge THEN Heap!Joined(h, r, c) ELSE h)
      /\ without = IF merge THEN Unlink(freeList, c) ELSE freeList
  OBVIOUS
<1> HIDE DEF n, c
<1>8. m + Struct + n + Struct <= c /\ m \in Nat /\ r \in Nat /\ c \in Nat
  BY <1>1, <1>3, <1>4, <1>5, <1>6
<1> HIDE DEF h
<1>9. SplitAt(items, h, Tail0, m, r)
  BY <1>2, <1>6, <1>7, <1>8, SplitStep DEF h
<1> HIDE DEF r, merge, g, without
<1>10. /\ Laid(h, Tail0) /\ m < r /\ r < c
       /\ (\A x \in DOMAIN items : x # Tail0 => h[x].prev = IF x = c THEN r ELSE items[x].prev)
       /\ Cardinality(Spare(items, Tail0)) \in Nat /\ Cardinality(Spare(h, Tail0)) \in Nat
       /\ Cardinality(Spare(h, Tail0)) = Cardinality(Spare(items, Tail0)) + (c - (r + Struct))
       /\ r \notin DOMAIN items /\ DOMAIN h = DOMAIN items \union {r}
       /\ (\A x \in DOMAIN items : h[x].used = items[x].used /\ (x # m => h[x].next = items[x].next))
       /\ h[m].next = r /\ ~h[r].used /\ h[r].next = c
  BY <1>7, <1>9 DEF SplitAt, Parted
<1>11. OnlyAhead(h, Tail0, r)
  <2>1. ASSUME NEW x \in DOMAIN h, x # r, x # Tail0, ~h[x].used PROVE h[h[x].next].used
    <3>1. x \in DOMAIN items /\ x # m /\ ~items[x].used /\ h[x].next = items[x].next
      BY <1>10, <2>1
    <3>2. items[x].next \in DOMAIN items /\ items[items[x].next].used
      BY <1>2, <2>1, <3>1 DEF Merged, Laid
    <3> QED BY <1>10, <3>1, <3>2
  <2>2. r # Tail0
    BY <1>2, <1>10 DEF Laid
  <2> QED BY <1>10, <2>1, <2>2 DEF OnlyAhead
<1>12. g = TakenIn(h, r) /\ (merge <=> ~h[h[r].next].used)
  BY <1>5, <1>7, <1>10 DEF TakenIn
<1>13. AheadJoined(h, g, Tail0, r)
  BY <1>10, <1>11, <1>12, AheadStep
<1>14. c # r /\ (merge => h[c].next = items[c].next)
  <2>1. c # r
    BY <1>8, <1>10
  <2>2. c # m
    BY <1>8, <1>10
  <2> QED BY <1>5, <1>10, <2>1, <2>2
<1>15. /\ Laid(g, Tail0) /\ Merged(g, Tail0) /\ g[0].prev = h[0].prev /\ SameTaken(h, g, Tail0)
       /\ Cardinality(Spare(g, Tail0)) = Cardinality(Spare(h, Tail0)) + (IF merge THEN Struct ELSE 0)
       /\ \A x : x \in DOMAIN g /\ ~g[x].used
                  <=> x \in DOMAIN h /\ ~h[x].used /\ (~merge \/ x # c)
       /\ g[r].next = IF merge THEN items[c].next ELSE c
  BY <1>10, <1>12, <1>13, <1>14 DEF AheadJoined
<1>16. g[0].prev = Tail0
  <2>1. c # 0
    BY <1>8, <1>10
  <2> QED BY <1>2, <1>5, <1>10, <1>15, <2>1
<1>17. Listed(g, freeList')
  <2>1. /\ without \in Seq(Nat) /\ Once(without)
        /\ \A x : Linked(without, x) <=> Linked(freeList, x) /\ (~merge \/ x # c)
    <3>1. CASE merge
      <4>1. without = Unlink(freeList, c)
        BY <1>7, <3>1
      <4>2. \A x : Linked(freeList, x) /\ (~merge \/ x # c) <=> Linked(freeList, x) /\ x # c
        BY <3>1
      <4> QED BY <1>2, <4>1, <4>2, UnlinkFacts
    <3>2. CASE ~merge
      BY <1>2, <1>7, <3>2
    <3> QED BY <3>1, <3>2
  <2>2. freeList' = LinkFirst(without, r) /\ r \in Nat /\ ~Linked(without, r)
    BY <1>1, <1>2, <1>8, <1>10, <2>1
  <2>3. /\ freeList' \in Seq(Nat) /\ Once(freeList')
        /\ \A x : Linked(freeList', x) <=> Linked(without, x) \/ x = r
    BY <2>1, <2>2, LinkFirstFacts
  <2>4. ASSUME NEW x PROVE Linked(without, x) \/ x = r <=> x \in DOMAIN g /\ ~g[x].used
    BY <1>2, <1>10, <1>14, <1>15, <2>1
  <2> QED BY <2>3, <2>4 DEF Listed
<1>18. available' = Cardinality(Spare(g, Tail0))
  <2>1. CASE ~merge
    BY <1>1, <1>2, <1>3, <1>8, <1>10, <1>15, <2>1
  <2>2. CASE merge
    <3> DEFINE d == items[c].next
               A == Cardinality(Spare(items, Tail0))
    <3>1. d \in Nat /\ A \in Nat
      BY <1>4, <1>5, <1>10
    <3>2. available' = A - (d - (c + Struct)) + (d - (r + Struct))
      BY <1>1, <1>2, <1>15, <2>2
    <3>3. Cardinality(Spare(g, Tail0)) = A + (c - (r + Struct)) + Struct
      BY <1>10, <1>15, <2>2
    <3> HIDE DEF d, A
    <3> QED BY <1>3, <1>8, <3>1, <3>2, <3>3
  <2> QED BY <2>1, <2>2
<1>19. MemHeapCore'
  BY <1>1, <1>15, <1>16, <1>17, <1>18, TailStays DEF MemHeapCore
<1>20. ASSUME NEW x
       PROVE  x \in DOMAIN g /\ x # Tail0 /\ g[x].used
                     <=> x \in DOMAIN items /\ x # Tail0 /\ items[x].used
  BY <1>10, <1>15 DEF SameTaken
<1>21. ASSUME NEW x \in DOMAIN items, x # Tail0, items[x].used
       PROVE  g[x].next = IF x = m THEN r ELSE items[x].next
  BY <1>10, <1>15, <1>21 DEF SameTaken
<1>22. ResizedTo(m, r)
  BY <1>1, <1>20, <1>21 DEF ResizedTo
<1> QED BY <1>19, <1>22 DEF r, n

\* m takes in the free block behind it, and what it does not need becomes a free block.
LEMMA MemExpandHolds ==
  ASSUME PartsAssumption, MemHeapCore, NEW m \in DOMAIN items, m # Tail0, items[m].used,
         NEW want \in Nat, MemHeap!ReallocExpands(m, want)
  PROVE  MemHeapCore' /\ ResizedTo(m, m + Struct + MemHeap!AtLeastMin(want))
<1> DEFINE n == MemHeap!AtLeastMin(want)
           r == m + Struct + n
           b == items[m].next
           c == items[b].next
           j == Heap!Joined(items, m, b)
           g == Heap!Split(j, m, n)
<1>1. /\ n > b - (m + Struct) /\ ~items[b].used
      /\ (c - (b + Struct)) + (b - (m + Struct)) > n + MinSize
      /\ items' = g /\ freeList' = LinkFirst(Unlink(freeList, b), r)
      /\ available' = available - (n - (b - (m + Struct)))
  <2>1. /\ \A x, y, z : MemHeap!Joined(x, y, z) = Heap!Joined(x, y, z)
        /\ \A x, y, z : MemHeap!Split(x, y, z) = Heap!Split(x, y, z)
        /\ \A l, x : MemHeap!Unlink(l, x) = Unlink(l, x)
        /\ \A l, x : MemHeap!LinkFirst(l, x) = LinkFirst(l, x)
    BY MemHeapOps, MemHeapLists
  <2>2. /\ n > MemHeap!Room(items, m) /\ ~items[b].used
        /\ MemHeap!Room(items, b) + MemHeap!Room(items, m) > n + MinSize
        /\ items' = MemHeap!Split(MemHeap!Joined(items, m, b), m, n)
        /\ freeList' = MemHeap!LinkFirst(MemHeap!Unlink(freeList, b), r)
        /\ available' = available - (n - MemHeap!Room(items, m))
    BY DEF MemHeap!ReallocExpands, MemHeap!CanExpand
  <2> HIDE DEF n, r, b
  <2>3. MemHeap!Room(items, m) = b - (m + Struct) /\ MemHeap!Room(items, b) = c - (b + Struct)
    BY DEF MemHeap!Room, b
  <2> HIDE DEF c
  <2> QED BY <2>1, <2>2, <2>3
<1>2. /\ Laid(items, Tail0) /\ Merged(items, Tail0) /\ items[0].prev = Tail0
      /\ available = Cardinality(Spare(items, Tail0))
      /\ freeList \in Seq(Nat) /\ Once(freeList)
      /\ \A x : Linked(freeList, x) <=> x \in DOMAIN items /\ ~items[x].used
  BY DEF MemHeapCore, Listed
<1>3. /\ Struct \in Nat /\ Struct > 0 /\ MinSize \in Nat /\ MinSize > 0
  BY MemHeapNumbers
<1>4. /\ \A x \in DOMAIN items : x \in Nat /\ items[x].next \in Nat
      /\ \A x, y \in DOMAIN items : x # Tail0 /\ y # Tail0 /\ items[x].next = items[y].next => x = y
      /\ \A x \in DOMAIN items : x # Tail0 => x < items[x].next
  BY <1>2, LaidFacts
<1>5. 0 \in DOMAIN items /\ 0 # Tail0 /\ items[Tail0].used
  BY <1>2 DEF Laid
<1>6. b \in DOMAIN items /\ b # Tail0
  BY <1>1, <1>2, <1>5 DEF Laid
<1>7. c \in DOMAIN items
  BY <1>2, <1>6 DEF Laid
<1>8. n \in Nat
  BY <1>3 DEF MemHeap!AtLeastMin
<1>9. b = items[m].next /\ c = items[b].next /\ r = m + Struct + n
  OBVIOUS
<1> HIDE DEF n, b, c
<1>10. /\ m \in Nat /\ b \in Nat /\ c \in Nat /\ r \in Nat /\ m < b /\ b < c /\ m < c
       /\ b < r /\ m + Struct + n + Struct <= c
  BY <1>1, <1>3, <1>4, <1>6, <1>7, <1>8, <1>9
<1> HIDE DEF j, g
<1>11. Laid(j, Tail0) /\ IsJoin(items, j, m, b)
  BY <1>2, <1>6, <1>9, JoinedLaid DEF j
<1>12. /\ DOMAIN j = DOMAIN items \ {b}
       /\ \A x \in DOMAIN j : /\ j[x].used = items[x].used
                              /\ j[x].next = IF x = m THEN c ELSE items[x].next
                              /\ j[x].prev = IF x = c THEN m ELSE items[x].prev
  BY <1>9, <1>11 DEF IsJoin
<1>13. m \in DOMAIN j /\ j[m].next = c /\ j[m].used /\ c \in DOMAIN j /\ 0 \in DOMAIN j
  BY <1>5, <1>7, <1>10, <1>12
<1>14. Parted(j, items, m, b)
  BY <1>1, <1>6, <1>9, <1>12, <1>13 DEF Parted
<1>15. /\ Cardinality(Spare(j, Tail0)) \in Nat /\ Cardinality(Spare(items, Tail0)) \in Nat
       /\ Cardinality(Spare(items, Tail0)) = Cardinality(Spare(j, Tail0)) + (c - (b + Struct))
  BY <1>2, <1>11, <1>13, <1>14, PartedCounts
<1>16. SplitAt(j, g, Tail0, m, r)
  BY <1>8, <1>9, <1>10, <1>11, <1>13, SplitStep DEF g
<1> HIDE DEF r
<1>17. /\ Laid(g, Tail0) /\ m < r /\ r < c
       /\ (\A x \in DOMAIN j : x # Tail0 => g[x].prev = IF x = c THEN r ELSE j[x].prev)
       /\ Cardinality(Spare(g, Tail0)) \in Nat
       /\ Cardinality(Spare(g, Tail0)) = Cardinality(Spare(j, Tail0)) + (c - (r + Struct))
       /\ r \notin DOMAIN j /\ DOMAIN g = DOMAIN j \union {r}
       /\ (\A x \in DOMAIN j : g[x].used = j[x].used /\ (x # m => g[x].next = j[x].next))
       /\ g[m].next = r /\ ~g[r].used /\ g[r].next = c
  BY <1>13, <1>16 DEF SplitAt, Parted
<1>18. g[0].prev = Tail0
  <2>1. c # 0 /\ j[0].prev = Tail0
    BY <1>2, <1>10, <1>12, <1>13
  <2> QED BY <1>5, <1>13, <1>17, <2>1
<1>19. Merged(g, Tail0)
  <2>1. ASSUME NEW x \in DOMAIN g, x # Tail0, ~g[x].used PROVE g[g[x].next].used
    <3>1. CASE x = r
      <4>1. items[c].used
        BY <1>1, <1>2, <1>6, <1>9 DEF Merged
      <4> QED BY <1>12, <1>13, <1>17, <3>1, <4>1
    <3>2. CASE x # r
      <4>1. x \in DOMAIN items /\ x # m /\ x # b /\ ~items[x].used /\ g[x].next = items[x].next
        BY <1>12, <1>13, <1>17, <2>1, <3>2
      <4>2. items[x].next \in DOMAIN items /\ items[items[x].next].used /\ items[x].next # b
        BY <1>1, <1>2, <2>1, <4>1 DEF Merged, Laid
      <4> QED BY <1>12, <1>17, <4>1, <4>2
    <3> QED BY <3>1, <3>2
  <2> QED BY <2>1 DEF Merged
<1>20. Listed(g, freeList')
  <2> DEFINE u == Unlink(freeList, b)
  <2>1. u \in Seq(Nat) /\ Once(u) /\ \A x : Linked(u, x) <=> Linked(freeList, x) /\ x # b
    BY <1>2, UnlinkFacts
  <2>2. freeList' = LinkFirst(u, r)
    BY <1>1
  <2> HIDE DEF u
  <2>3. r \in Nat /\ ~Linked(u, r)
    BY <1>2, <1>10, <1>12, <1>17, <2>1
  <2>4. /\ freeList' \in Seq(Nat) /\ Once(freeList')
        /\ \A x : Linked(freeList', x) <=> Linked(u, x) \/ x = r
    BY <2>1, <2>2, <2>3, LinkFirstFacts
  <2>5. ASSUME NEW x PROVE Linked(u, x) \/ x = r <=> x \in DOMAIN g /\ ~g[x].used
    BY <1>2, <1>12, <1>17, <2>1
  <2> QED BY <2>4, <2>5 DEF Listed
<1>21. available' = Cardinality(Spare(g, Tail0))
  <2> DEFINE A == Cardinality(Spare(items, Tail0))
             B == Cardinality(Spare(j, Tail0))
  <2>1. A \in Nat /\ B \in Nat /\ A = B + (c - (b + Struct))
    BY <1>15
  <2>2. available' = A - (n - (b - (m + Struct)))
    BY <1>1, <1>2
  <2>3. Cardinality(Spare(g, Tail0)) = B + (c - (r + Struct))
    BY <1>17
  <2> HIDE DEF A, B
  <2>4. r = m + Struct + n
    BY <1>9
  <2> QED BY <1>3, <1>8, <1>10, <2>1, <2>2, <2>3, <2>4
<1>22. MemHeapCore'
  BY <1>1, <1>17, <1>18, <1>19, <1>20, <1>21, TailStays DEF MemHeapCore
<1>23. ASSUME NEW x
       PROVE  x \in DOMAIN g /\ x # Tail0 /\ g[x].used
                     <=> x \in DOMAIN items /\ x # Tail0 /\ items[x].used
  BY <1>1, <1>12, <1>17
<1>24. ASSUME NEW x \in DOMAIN items, x # Tail0, items[x].used
       PROVE  g[x].next = IF x = m THEN r ELSE items[x].next
  BY <1>1, <1>12, <1>17, <1>24
<1>25. ResizedTo(m, r)
  BY <1>1, <1>23, <1>24 DEF ResizedTo
<1> QED BY <1>22, <1>25 DEF r, n

LEMMA MemAtLeastMin ==
  ASSUME PartsAssumption, NEW n \in Nat
  PROVE  MemHeap!AtLeastMin(n) \in Nat /\ n <= MemHeap!AtLeastMin(n)
BY MemHeapNumbers DEF MemHeap!AtLeastMin

LEMMA MemTakeGiven ==
  ASSUME PartsAssumption, MemHeapInv, NEW n \in Nat,
         MemHeap!Found(MemHeap!AtLeastMin(n)) # None,
         MemHeap!Take(MemHeap!Found(MemHeap!AtLeastMin(n)), MemHeap!AtLeastMin(n)),
         holds' = MemHeap!Noted(holds, MemHeap!Found(MemHeap!AtLeastMin(n)), n)
  PROVE  MemHeapInv'
<1> DEFINE l == MemHeap!AtLeastMin(n)
           m == MemHeap!Found(l)
<1>1. l \in Nat /\ n <= l
  BY MemAtLeastMin
<1>2. m # None /\ MemHeap!Take(m, l) /\ holds' = MemHeap!Noted(holds, m, n)
  OBVIOUS
<1>3. MemHeapCore /\ HoldsInv
  BY DEF MemHeapInv
<1> HIDE DEF l
<1>4. m \in DOMAIN items /\ m # Tail0 /\ ~items[m].used /\ m + Struct + l <= items[m].next
  BY <1>1, <1>2, <1>3, MemFoundIs
<1> HIDE DEF m
<1>5. /\ MemHeapCore'
      /\ m \in DOMAIN items' /\ items'[m].used /\ m + Struct + l <= items'[m].next
      /\ \A k : k \in DOMAIN items' /\ k # Tail0 /\ items'[k].used
                  <=> k = m \/ (k \in DOMAIN items /\ k # Tail0 /\ items[k].used)
      /\ \A k \in DOMAIN items : k # m => items'[k].next = items[k].next
  BY <1>1, <1>2, <1>3, <1>4, MemTakeHolds
<1>6. /\ DOMAIN holds' = DOMAIN holds \union {m}
      /\ \A k \in DOMAIN holds \union {m} : holds'[k] = IF k = m THEN n ELSE holds[k]
  <2>1. holds' = MemHeap!Noted(holds, m, n)
    BY <1>2
  <2> QED BY <2>1 DEF MemHeap!Noted
<1>7. HoldsInv'
  <2>1. ASSUME NEW k PROVE k \in DOMAIN holds' <=> k \in DOMAIN items' /\ k # Tail0 /\ items'[k].used
    BY <1>3, <1>5, <1>6 DEF HoldsInv
  <2>2. ASSUME NEW k \in DOMAIN holds \union {m}
        PROVE  holds'[k] \in Nat /\ k + Struct + holds'[k] <= items'[k].next
    <3>1. CASE k = m
      <4>1. m \in Nat /\ Struct \in Nat /\ items'[m].next \in Nat
        <5>1. Laid(items', Tail0)
          BY <1>5, TailStays DEF MemHeapCore
        <5> QED BY <1>5, <5>1, MemHeapNumbers, LaidFacts
      <4> QED BY <1>1, <1>5, <1>6, <3>1, <4>1
    <3>2. CASE k # m
      <4>1. k \in DOMAIN items /\ holds[k] \in Nat /\ k + Struct + holds[k] <= items[k].next
        BY <1>3, <2>2, <3>2 DEF HoldsInv
      <4> QED BY <1>5, <1>6, <3>2, <4>1
    <3> QED BY <3>1, <3>2
  <2> QED BY <1>6, <2>1, <2>2, TailStays DEF HoldsInv
<1> QED BY <1>5, <1>7 DEF MemHeapInv

LEMMA MemGiveBackGiven ==
  ASSUME PartsAssumption, MemHeapInv, NEW m \in DOMAIN holds, MemHeap!GiveBack(m),
         holds' = MemHeap!Without(holds, m)
  PROVE  MemHeapInv'
<1>1. MemHeapCore /\ HoldsInv /\ m \in DOMAIN items /\ m # Tail0 /\ items[m].used
  BY DEF MemHeapInv, HoldsInv
<1>2. /\ MemHeapCore'
      /\ \A k : k \in DOMAIN items' /\ k # Tail0 /\ items'[k].used
                  <=> k # m /\ k \in DOMAIN items /\ k # Tail0 /\ items[k].used
      /\ \A k \in DOMAIN items : k # m /\ k # Tail0 /\ items[k].used => items'[k].next = items[k].next
  BY <1>1, MemGiveBackHolds
<1>3. /\ DOMAIN holds' = DOMAIN holds \ {m}
      /\ \A k \in DOMAIN holds \ {m} : holds'[k] = holds[k]
  BY DEF MemHeap!Without
<1>4. HoldsInv'
  <2>1. ASSUME NEW k PROVE k \in DOMAIN holds' <=> k \in DOMAIN items' /\ k # Tail0 /\ items'[k].used
    BY <1>1, <1>2, <1>3 DEF HoldsInv
  <2>2. ASSUME NEW k \in DOMAIN holds \ {m}
        PROVE  holds'[k] \in Nat /\ k + Struct + holds'[k] <= items'[k].next
    <3>1. /\ k \in DOMAIN items /\ k # Tail0 /\ items[k].used
          /\ holds[k] \in Nat /\ k + Struct + holds[k] <= items[k].next
      BY <1>1, <2>2 DEF HoldsInv
    <3> QED BY <1>2, <1>3, <2>2, <3>1
  <2> QED BY <1>3, <2>1, <2>2, TailStays DEF HoldsInv
<1> QED BY <1>2, <1>4 DEF MemHeapInv

\* m is resized to n, and ends at r.
LEMMA MemResized ==
  ASSUME PartsAssumption, MemHeapInv, NEW m \in DOMAIN holds, NEW n \in Nat,
         NEW r \in Nat, m + Struct + n <= r,
         MemHeapCore', ResizedTo(m, r), holds' = [holds EXCEPT ![m] = n]
  PROVE  MemHeapInv'
<1>1. DOMAIN holds' = DOMAIN holds /\ \A k \in DOMAIN holds : holds'[k] = IF k = m THEN n ELSE holds[k]
  OBVIOUS
<1>2. ASSUME NEW k PROVE k \in DOMAIN holds' <=> k \in DOMAIN items' /\ k # Tail0 /\ items'[k].used
  BY <1>1 DEF MemHeapInv, HoldsInv, ResizedTo
<1>3. ASSUME NEW k \in DOMAIN holds PROVE holds'[k] \in Nat /\ k + Struct + holds'[k] <= items'[k].next
  <2>1. /\ k \in DOMAIN items /\ k # Tail0 /\ items[k].used
        /\ holds[k] \in Nat /\ k + Struct + holds[k] <= items[k].next
    BY DEF MemHeapInv, HoldsInv
  <2>2. items'[k].next = IF k = m THEN r ELSE items[k].next
    BY <2>1 DEF ResizedTo
  <2> QED BY <1>1, <2>1, <2>2
<1> QED BY <1>1, <1>2, <1>3, TailStays DEF MemHeapInv, HoldsInv

LEMMA MemHeapStep ==
  ASSUME PartsAssumption, MemHeapInv, MemHeap!Next PROVE MemHeapInv'
<1>1. PoolSize \in Nat /\ 1..PoolSize \subseteq Nat
  BY MemHeapNumbers
<1>2. /\ MemHeapCore /\ Laid(items, Tail0) /\ Struct \in Nat
      /\ \A m \in DOMAIN holds : /\ m \in DOMAIN items /\ m # Tail0 /\ items[m].used
                                 /\ m \in Nat /\ items[m].next \in Nat
  <2>1. MemHeapCore /\ Laid(items, Tail0)
    BY DEF MemHeapInv, MemHeapCore
  <2>2. \A m \in DOMAIN holds : m \in DOMAIN items /\ m # Tail0 /\ items[m].used
    BY DEF MemHeapInv, HoldsInv
  <2>3. \A m \in DOMAIN items : m \in Nat /\ items[m].next \in Nat
    BY <2>1, LaidFacts
  <2> QED BY <2>1, <2>2, <2>3, MemHeapNumbers
<1>3. ASSUME NEW n \in 1..PoolSize, MemHeap!Alloc(n) PROVE MemHeapInv'
  BY <1>1, <1>3, MemTakeGiven DEF MemHeap!Alloc
<1>4. ASSUME NEW m \in DOMAIN holds, MemHeap!Free(m) PROVE MemHeapInv'
  BY <1>4, MemGiveBackGiven DEF MemHeap!Free, MemHeap!Forgotten
<1>5. ASSUME NEW m \in DOMAIN holds, MemHeap!ReallocFrees(m) PROVE MemHeapInv'
  BY <1>5, MemGiveBackGiven DEF MemHeap!ReallocFrees, MemHeap!Forgotten
<1>6. ASSUME NEW m \in DOMAIN holds, NEW n \in 1..PoolSize, MemHeap!ReallocStays(m, n) PROVE MemHeapInv'
  <2>1. /\ MemHeap!AtLeastMin(n) <= MemHeap!Room(items, m) /\ holds' = [holds EXCEPT ![m] = n]
        /\ items' = items /\ freeList' = freeList /\ available' = available
    BY <1>6 DEF MemHeap!ReallocStays, MemHeap!Resized
  <2>2. MemHeapCore'
    BY <1>2, <2>1, TailStays DEF MemHeapCore
  <2>3. ResizedTo(m, items[m].next)
    BY <2>1 DEF ResizedTo
  <2>4. m + Struct + n <= items[m].next
    <3>1. MemHeap!AtLeastMin(n) \in Nat /\ n <= MemHeap!AtLeastMin(n) /\ n \in Nat
      BY <1>1, MemAtLeastMin
    <3>2. MemHeap!Room(items, m) = items[m].next - (m + Struct)
      BY DEF MemHeap!Room
    <3> QED BY <1>2, <2>1, <3>1, <3>2
  <2> QED BY <1>1, <1>2, <2>1, <2>2, <2>3, <2>4, MemResized
<1>7. ASSUME NEW m \in DOMAIN holds, NEW n \in Nat
      PROVE  m + Struct + MemHeap!AtLeastMin(n) \in Nat /\ m + Struct + n <= m + Struct + MemHeap!AtLeastMin(n)
  BY <1>2, MemAtLeastMin
<1>8. ASSUME NEW m \in DOMAIN holds, NEW n \in 1..PoolSize, MemHeap!ReallocExpands(m, n) PROVE MemHeapInv'
  <2>1. holds' = [holds EXCEPT ![m] = n] /\ n \in Nat
    BY <1>1, <1>8 DEF MemHeap!ReallocExpands, MemHeap!Resized
  <2>2. MemHeapCore' /\ ResizedTo(m, m + Struct + MemHeap!AtLeastMin(n))
    BY <1>2, <1>8, <2>1, MemExpandHolds
  <2> QED BY <1>7, <2>1, <2>2, MemResized
<1>9. ASSUME NEW m \in DOMAIN holds, NEW n \in 1..PoolSize, MemHeap!ReallocShrinks(m, n) PROVE MemHeapInv'
  <2>1. holds' = [holds EXCEPT ![m] = n] /\ n \in Nat
    BY <1>1, <1>9 DEF MemHeap!ReallocShrinks, MemHeap!Resized
  <2>2. MemHeapCore' /\ ResizedTo(m, m + Struct + MemHeap!AtLeastMin(n))
    BY <1>2, <1>9, <2>1, MemShrinkHolds
  <2> QED BY <1>7, <2>1, <2>2, MemResized
<1>10. ASSUME NEW m \in DOMAIN holds, NEW n \in 1..PoolSize, MemHeap!ReallocMoves(m, n) PROVE MemHeapInv'
  BY <1>1, <1>10, MemTakeGiven DEF MemHeap!ReallocMoves
<1> QED BY <1>3, <1>4, <1>5, <1>6, <1>8, <1>9, <1>10 DEF MemHeap!Next

LEMMA MemHeapStart == ASSUME PartsAssumption, MemHeap!Init PROVE MemHeapInv
<1>1. /\ items = [m \in {0, Tail0} |->
                    IF m = 0 THEN [used |-> FALSE, next |-> Tail0, prev |-> Tail0]
                             ELSE [used |-> TRUE, next |-> 0, prev |-> 0]]
      /\ freeList = <<0>> /\ available = PoolSize /\ holds = <<>>
  BY DEF MemHeap!Init, Tail0
<1>2. /\ Struct \in Nat /\ Struct > 0 /\ Tail0 \in Nat /\ Tail0 > 0 /\ PoolSize \in Nat
      /\ Tail0 = PoolSize + Struct /\ Struct <= Tail0
  BY MemHeapNumbers
<1>3. /\ DOMAIN items = {0, Tail0} /\ 0 # Tail0
      /\ items[0] = [used |-> FALSE, next |-> Tail0, prev |-> Tail0]
      /\ items[Tail0] = [used |-> TRUE, next |-> 0, prev |-> 0]
  BY <1>1, <1>2
<1>4. items \in [DOMAIN items -> Header]
  <2>1. items[0] \in Header /\ items[Tail0] \in Header
    BY <1>2, <1>3 DEF Header
  <2>2. items = [m \in DOMAIN items |-> items[m]]
    BY <1>1
  <2> QED BY <1>3, <2>1, <2>2
<1>5. Laid(items, Tail0)
  BY <1>2, <1>3, <1>4 DEF Laid
<1>6. Merged(items, Tail0) /\ items[0].prev = Tail0
  BY <1>2, <1>3 DEF Merged
<1>7. Listed(items, freeList)
  <2>1. freeList \in Seq(Nat) /\ DOMAIN freeList = {1} /\ freeList[1] = 0
    BY <1>1
  <2>2. \A x : Linked(freeList, x) <=> x = 0
    BY <2>1 DEF Linked
  <2>3. Once(freeList)
    BY <2>1 DEF Once
  <2> QED BY <1>3, <2>1, <2>2, <2>3 DEF Listed
<1>8. available = Cardinality(Spare(items, Tail0))
  <2>1. ASSUME NEW x \in Nat PROVE x \in Spare(items, Tail0) <=> Struct <= x /\ x < Tail0
    BY <1>2, <1>3 DEF Spare
  <2>2. IsFiniteSet({}) /\ Cardinality({}) = 0
    BY FS_EmptySet
  <2>3. More({}, Spare(items, Tail0), Struct, Tail0)
    BY <1>2, <2>1, <2>2, UnitsFinite DEF More
  <2>4. Cardinality(Spare(items, Tail0)) = 0 + (Tail0 - Struct)
    BY <2>2, <2>3, CountMore
  <2> QED BY <1>1, <1>2, <2>4
<1>9. DOMAIN holds = {}
  BY <1>1
<1>10. HoldsInv
  BY <1>3, <1>9 DEF HoldsInv
<1> QED BY <1>5, <1>6, <1>7, <1>8, <1>10 DEF MemHeapInv, MemHeapCore

LEMMA MemHeapSays == ASSUME PartsAssumption, MemHeapInv PROVE MemHeap!MemHeapExact
<1>1. /\ HoldsInv /\ Laid(items, Tail0) /\ Merged(items, Tail0) /\ Listed(items, freeList)
      /\ available = Cardinality(Spare(items, Tail0))
  BY DEF MemHeapInv, MemHeapCore
<1>2. /\ Struct \in Nat /\ Tail0 \in Nat
      /\ \A k \in DOMAIN items : k \in Nat /\ k <= Tail0 /\ items[k].next \in Nat
  BY <1>1, MemHeapNumbers, LaidFacts
<1>3. Tail0 \in DOMAIN items /\ items[Tail0].used /\ \A k \in DOMAIN items : k # Tail0 => items[k].next \in DOMAIN items
  BY <1>1 DEF Laid
<1>4. MemHeap!Tiles(items, Tail0)
  BY <1>1, LaidTiles, MemHeapTiles
<1>5. MemHeap!FreeItems = {m \in DOMAIN items : ~items[m].used}
  BY DEF MemHeap!FreeItems
<1>6. DOMAIN holds = DOMAIN items \ (MemHeap!FreeItems \union {Tail0})
  <2>1. \A m : m \in DOMAIN holds <=> m \in DOMAIN items \ (MemHeap!FreeItems \union {Tail0})
    BY <1>1, <1>5 DEF HoldsInv
  <2> QED BY <2>1
<1>7. ASSUME NEW m \in DOMAIN holds PROVE MemHeap!Room(items, m) >= holds[m]
  <2>1. m \in DOMAIN items /\ holds[m] \in Nat /\ m + Struct + holds[m] <= items[m].next
    BY <1>1 DEF HoldsInv
  <2>2. m \in Nat /\ items[m].next \in Nat
    BY <1>2, <2>1
  <2>3. items[m].next - (m + Struct) >= holds[m]
    BY <1>2, <2>1, <2>2
  <2> QED BY <2>3 DEF MemHeap!Room
<1>8. MemHeap!Once(freeList) /\ \A m \in DOMAIN items : MemHeap!Linked(freeList, m) <=> m \in MemHeap!FreeItems
  BY <1>1, <1>5, MemHeapLists DEF Listed
<1>9. available = MemHeap!Cardinality(MemHeap!UnitsFree)
  <2>1. ASSUME NEW x, x \in MemHeap!UnitsFree PROVE x \in Spare(items, Tail0)
    <3>1. PICK m \in MemHeap!FreeItems : x \in m + Struct .. items[m].next - 1
      BY <2>1 DEF MemHeap!UnitsFree
    <3>2. m \in DOMAIN items /\ ~items[m].used /\ m # Tail0
      BY <1>3, <1>5
    <3>3. m \in Nat /\ items[m].next \in Nat /\ items[m].next <= Tail0
      BY <1>2, <1>3, <3>2
    <3>4. x \in 0..(Tail0 - 1) /\ m + Struct <= x /\ x < items[m].next
      BY <1>2, <3>1, <3>3
    <3> QED BY <3>2, <3>4 DEF Spare
  <2>2. ASSUME NEW x, x \in Spare(items, Tail0) PROVE x \in MemHeap!UnitsFree
    <3>1. x \in Nat
      BY <1>2, <2>2 DEF Spare
    <3>2. PICK m \in DOMAIN items : m # Tail0 /\ ~items[m].used /\ m + Struct <= x /\ x < items[m].next
      BY <2>2 DEF Spare
    <3>3. m \in MemHeap!FreeItems
      BY <1>5, <3>2
    <3>4. x \in m + Struct .. items[m].next - 1
      BY <1>2, <3>1, <3>2
    <3> DEFINE I == m + Struct .. items[m].next - 1
    <3>5. I \in {k + Struct .. items[k].next - 1 : k \in MemHeap!FreeItems} /\ x \in I
      BY <3>3, <3>4
    <3> HIDE DEF I
    <3> QED BY <3>5 DEF MemHeap!UnitsFree
  <2>3. MemHeap!UnitsFree = Spare(items, Tail0)
    BY <2>1, <2>2
  <2>4. MemHeap!Cardinality(MemHeap!UnitsFree) = Cardinality(MemHeap!UnitsFree)
    BY DEF MemHeap!Cardinality, Cardinality
  <2> QED BY <1>1, <2>3, <2>4
<1> QED BY <1>4, <1>6, <1>7, <1>8, <1>9 DEF MemHeap!MemHeapExact, Tail0

-----------------------------------------------------------------------------
(* The heaps and the memory functions *)

\* mem.c, memheap.c, kservice.c: after any rt_malloc, rt_free and rt_realloc, also one that a
\* thread calls while another's rt_realloc is copying, the blocks lie end to end, no two free
\* ones meet, each caller has a block of its own that is large enough, lfree and the free list
\* lead to every free block, and used_mem and available_size are what is used and what is free;
\* rt_memcpy, rt_memmove, rt_memset and rt_strncpy write what they promise and nothing else.
THEOREM HeapsAreExact == PartsSpec => []HeapsExact
<1>1. PartsInit => HeapInv /\ MemHeapInv /\ BytesInv
  BY HeapStart, MemHeapStart, BytesStart, PartsAssumption DEF PartsInit
<1>2. HeapInv /\ MemHeapInv /\ BytesInv /\ [PartsNext]_partsVars => HeapInv' /\ MemHeapInv' /\ BytesInv'
  <2> SUFFICES ASSUME HeapInv, MemHeapInv, BytesInv, [PartsNext]_partsVars
               PROVE  HeapInv' /\ MemHeapInv' /\ BytesInv'
    OBVIOUS
  <2>1. UNCHANGED systemHeap => HeapInv'
    <3>1. End' = End
      BY DEF End, Heap!End
    <3> QED BY <3>1 DEF systemHeap, HeapInv, HeapCore, GivenInv, LowOf
  <2>2. UNCHANGED memoryHeap => MemHeapInv'
    BY TailStays DEF memoryHeap, MemHeapInv, MemHeapCore, HoldsInv
  <2>3. UNCHANGED functions => BytesInv'
    BY DEF functions, BytesInv, CallOK, Dealt, Functions!Down, Functions!Wanted
  <2>4. part = "heap" /\ PartsNext => HeapInv'
    BY HeapStep, PartsAssumption DEF PartsNext
  <2>5. part = "memheap" /\ PartsNext => MemHeapInv'
    BY MemHeapStep, PartsAssumption DEF PartsNext
  <2>6. part = "functions" /\ PartsNext => BytesInv'
    BY BytesStep, PartsAssumption DEF PartsNext
  <2>7. /\ UNCHANGED systemHeap \/ (part = "heap" /\ PartsNext)
        /\ UNCHANGED memoryHeap \/ (part = "memheap" /\ PartsNext)
        /\ UNCHANGED functions \/ (part = "functions" /\ PartsNext)
    BY DEF partsVars, PartsNext, OthersStand
  <2> QED BY <2>1, <2>2, <2>3, <2>4, <2>5, <2>6, <2>7
<1>3. HeapInv /\ MemHeapInv /\ BytesInv => HeapsExact
  BY HeapSays, MemHeapSays, BytesSay, PartsAssumption DEF HeapsExact
<1> QED BY <1>1, <1>2, <1>3, PTL DEF PartsSpec
=============================================================================
