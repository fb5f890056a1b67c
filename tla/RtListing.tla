------------------------------ MODULE RtListing ------------------------------
(***************************************************************************)
(* The object container (object.c) for one class of objects, and a command *)
(* of the shell that lists it (list_thread and the other list_ commands of *)
(* finsh/cmd.c).  Objects come and go in two sections each, the command     *)
(* fetches a few nodes at a time, and interrupts are enabled in between.    *)
(***************************************************************************)
EXTENDS RtList

CONSTANTS
  Obj,
  Fetched,   \* LIST_FIND_OBJ_NR
  None,      \* RT_NULL
  Recycles   \* TRUE: an object may come back while the command holds its node

\* What the constants must be; the module that instantiates this one assumes it.
ListingConstants == Fetched \in Nat \ {0} /\ None \notin Obj /\ Recycles \in BOOLEAN

VARIABLES
  typed,      \* the objects whose type is set
  objects,    \* object_list
  listing,    \* a command is at work
  next, array,
  shown,      \* history: what has been printed
  throughout  \* history: the objects that have been there since the command began, or
              \* none once the command is to be cut short

container == <<typed, objects>>
command == <<listing, next, array, shown, throughout>>
vars == <<container, command>>

There == {o \in Obj : Linked(objects, o)}

Init ==
  /\ typed = {} /\ objects = <<>>
  /\ listing = FALSE /\ next = None /\ array = <<>> /\ shown = <<>> /\ throughout = {}

-----------------------------------------------------------------------------
\* rt_object_init: the type is set, and then the object joins the list at its head.
InitType(o) ==
  /\ o \notin typed \union There
  /\ Recycles \/ ~listing \/ o # next
  /\ typed' = typed \union {o}
  /\ UNCHANGED <<objects, command>>

InitLink(o) ==
  /\ o \in typed \ There
  /\ objects' = LinkFirst(objects, o)
  /\ UNCHANGED <<typed, command>>

\* rt_object_detach: the type is cleared, and then the object leaves the list.
DetachType(o) ==
  /\ o \in typed \intersect There
  /\ typed' = typed \ {o}
  /\ throughout' = IF o = next THEN {} ELSE throughout \ {o}
  /\ UNCHANGED <<objects, listing, next, array, shown>>

DetachUnlink(o) ==
  /\ o \in There \ typed
  /\ objects' = Unlink(objects, o)
  /\ UNCHANGED <<typed, command>>

-----------------------------------------------------------------------------
\* list_find_init.
Begin ==
  /\ ~listing
  /\ listing' = TRUE /\ next' = None /\ array' = <<>> /\ shown' = <<>>
  /\ throughout' = typed \intersect There
  /\ UNCHANGED container

\* The nodes behind one, or all; a node that is not linked is behind itself.
Behind(node) ==
  CASE node = None -> objects
    [] node \in There -> SubSeq(objects, Position(objects, node) + 1, Len(objects))
    [] OTHER -> [i \in 1..Fetched |-> node]

\* The first n nodes, or all.
UpTo(n, l) == SubSeq(l, 1, IF n <= Len(l) THEN n ELSE Len(l))

\* list_get_next: nothing if the object fetched last has been detached.
GetNext ==
  /\ listing /\ array = <<>>
  /\ array' = IF next # None /\ next \notin typed THEN <<>>
              ELSE UpTo(Fetched, Behind(next))
  /\ next' = IF Len(array') = Fetched THEN array'[Fetched] ELSE None
  /\ listing' = (array' # <<>>)
  /\ throughout' = IF next' \in typed \union {None} THEN throughout ELSE {}
  /\ UNCHANGED <<container, shown>>

\* The first object of the array is printed, unless it has been detached.
Show ==
  /\ listing /\ array # <<>>
  /\ shown' = IF Head(array) \in typed THEN Append(shown, Head(array)) ELSE shown
  /\ array' = Tail(array)
  /\ listing' = (array' # <<>> \/ next # None)
  /\ UNCHANGED <<container, next, throughout>>

Next ==
  \/ \E o \in Obj : InitType(o) \/ InitLink(o) \/ DetachType(o) \/ DetachUnlink(o)
  \/ Begin \/ GetNext \/ Show

Spec == Init /\ [][Next]_vars

-----------------------------------------------------------------------------
\* What the command has still to fetch.
ToFetch ==
  IF ~listing \/ (next = None /\ array # <<>>) THEN <<>> ELSE Behind(next)

\* The objects that stay are listed once each, in their order, whatever comes and goes
\* between two fetches, unless the object fetched last goes: that cuts the list short.
ListsWhatStays ==
  LET all == shown \o array \o ToFetch IN
  /\ \A o \in throughout : Linked(all, o)
  /\ \A i, j \in DOMAIN all : i < j /\ {all[i], all[j]} \subseteq throughout =>
       Position(objects, all[i]) < Position(objects, all[j])
=============================================================================
