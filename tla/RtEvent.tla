------------------------------- MODULE RtEvent -------------------------------
(***************************************************************************)
(* An event set (rt_event_send, rt_event_recv of ipc.c): threads wait for  *)
(* all or any of some bits, and a send wakes every waiter it satisfies, in *)
(* the order of the list.  A waiter that asked for it clears the bits it   *)
(* got before the next one is looked at.                                   *)
(***************************************************************************)
EXTENDS RtObject

CONSTANTS
  Event,   \* the suspend list of the event
  Bits,    \* the bits of the set
  Options  \* the options of the calls, [all : BOOLEAN, clear : BOOLEAN]

\* What the constants must be; the module that instantiates this one assumes it.
EventConstants ==
  /\ List = {Event}
  /\ Options # {} /\ Options \subseteq [all : BOOLEAN, clear : BOOLEAN]

Interest == (SUBSET Bits) \ {{}}

VARIABLES
  set,     \* event->set
  want,    \* thread->event_set: what a waiter waits for, then what it got
  option,  \* thread->event_info
  asked    \* history: the set a waiting call was given

eventVars == <<set, want, option, asked>>
vars == <<objectVars, eventVars>>

AnyOption == CHOOSE o \in Options : TRUE

Init ==
  /\ ObjectInit
  /\ set = {}
  /\ want = [t \in Thread |-> {}]
  /\ option = [t \in Thread |-> AnyOption]
  /\ asked = [t \in Thread |-> {}]

\* The bits of s satisfy a call for w.
Satisfies(s, w, o) == IF o.all THEN w \subseteq s ELSE w \intersect s # {}

Left(s, w, o) == IF o.clear THEN s \ w ELSE s

\* rt_event_recv, satisfied at once.
RecvNow(t, w, o) ==
  /\ Calls(t, Event)
  /\ Satisfies(set, w, o)
  /\ set' = Left(set, w, o)
  /\ UNCHANGED <<objectVars, want, option, asked>>

\* rt_event_recv up to rt_schedule.
RecvWait(t, w, o, limited) ==
  /\ Calls(t, Event)
  /\ ~Satisfies(set, w, o)
  /\ Suspend(Event, t, limited)
  /\ Goto(t, "wait", Event)
  /\ want' = [want EXCEPT ![t] = w]
  /\ asked' = [asked EXCEPT ![t] = w]
  /\ option' = [option EXCEPT ![t] = o]
  /\ UNCHANGED <<gone, set>>

\* rt_event_recv after rt_schedule: *recved is want[t], or the call failed.
RecvReturn(t) ==
  /\ Back(t, "wait")
  /\ Return(t)
  /\ want' = [want EXCEPT ![t] = {}]
  /\ asked' = [asked EXCEPT ![t] = {}]
  /\ option' = [option EXCEPT ![t] = AnyOption]
  /\ UNCHANGED <<waitVars, gone, set>>

-----------------------------------------------------------------------------
(* rt_event_send: s[i] is what the scan has when it comes to place i of the  *)
(* list, the set and the threads still on the list; the last one is what is  *)
(* left.                                                                     *)

\* Mutant: only the first waiter is looked at.
WokenAtFirst(s, i) ==
  i = 1 /\ Satisfies(s[i].set, want[wait[Event][i]], option[wait[Event][i]])

\* The waiter at place i is satisfied.
WokenAt(s, i) == Satisfies(s[i].set, want[wait[Event][i]], option[wait[Event][i]])

\* Mutant: a waiter clears the bits it asked for, not those it got.
GotAsked(s, t) == want[t]

\* What a satisfied waiter gets: all it asked for, or those of it that are set.
Got(s, t) == IF option[t].all THEN want[t] ELSE want[t] \intersect s

\* What is left when t has got its bits and is resumed.
Served(s, t) ==
  [set |-> Left(s.set, Got(s.set, t), option[t]), list |-> Unlink(s.list, t)]

Scan(new) ==
  LET s[i \in 1..(Len(wait[Event]) + 1)] ==
        IF i = 1 THEN [set |-> set \union new, list |-> wait[Event]]
        ELSE IF WokenAt(s, i - 1) THEN Served(s[i - 1], wait[Event][i - 1])
        ELSE s[i - 1]
  IN s

\* One locked section, of a thread or an interrupt.
Send(new) ==
  LET s == Scan(new)
      end == s[Len(wait[Event]) + 1]
      at(t) == Position(wait[Event], t)
      T == {wait[Event][i] : i \in {i \in DOMAIN wait[Event] : WokenAt(s, i)}}
  IN
  /\ Event \notin gone
  /\ set' = end.set
  /\ wait' = [wait EXCEPT ![Event] = end.list]
  /\ want' = [t \in Thread |-> IF t \in T THEN Got(s[at(t)].set, t) ELSE want[t]]
  /\ armed' = armed \ T
  /\ UNCHANGED <<err, callVars, option, asked>>

\* rt_event_control(event, RT_IPC_CMD_RESET).
Reset(t) ==
  /\ Calls(t, Event)
  /\ ResumeAllFailed({Event})
  /\ set' = {}
  /\ UNCHANGED <<callVars, want, option, asked>>

\* What does not touch the event itself.
Outside ==
  /\ \/ TimerExpires
     \/ \E t \in Thread : Detach(t, Event, {Event}) \/ DetachTest(t, {}) \/ DetachResume(t)
  /\ UNCHANGED eventVars

Next ==
  \/ Outside
  \/ \E new \in Interest : Send(new)
  \/ \E t \in Thread :
       \/ RecvReturn(t) \/ Reset(t)
       \/ \E w \in Interest, o \in Options :
            RecvNow(t, w, o) \/ (\E limited \in Timed : RecvWait(t, w, o, limited))

Spec == Init /\ [][Next]_vars

-----------------------------------------------------------------------------
TypeOK ==
  /\ CallTypeOK
  /\ set \in SUBSET Bits
  /\ want \in [Thread -> SUBSET Bits]
  /\ option \in [Thread -> Options]
  /\ asked \in [Thread -> SUBSET Bits]

\* No event is missed: whoever waits is not satisfied by what is set, although
\* one send may wake several waiters and each may clear what the next one wants.
NobodyWaitsForNothing ==
  \A t \in Thread : Linked(wait[Event], t) => ~Satisfies(set, want[t], option[t])

\* A waiter that was woken returns bits it asked for: all of them for an AND
\* call, at least one for an OR call, whatever was sent or received since.
GotWhatItAskedFor ==
  \A t \in Woken("wait", Event) :
    /\ want[t] # {} /\ want[t] \subseteq asked[t]
    /\ option[t].all => want[t] = asked[t]

Newly == Woken("wait", Event)' \ Woken("wait", Event)

Clearing == {t \in Newly : option[t].clear}

\* The waiters one send wakes get bits that are set, and a bit that one of them
\* clears is got by no other clearing one and is gone afterwards.
BitsGoOnceStep ==
  Newly # {} =>
    \E new \in Interest :
      /\ \A t \in Newly : want'[t] \subseteq set \union new
      /\ \A t, u \in Clearing : t # u => want'[t] \intersect want'[u] = {}
      /\ set' = (set \union new) \ UNION {want'[t] : t \in Clearing}
=============================================================================
