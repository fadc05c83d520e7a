---------------------------- MODULE BoundedFifo ----------------------------
(***************************************************************************)
(* What a mulle fifo promises: a bounded queue of non-NULL pointers shared *)
(* by one writing and one reading thread, every operation of which takes   *)
(* effect in one indivisible step between its call and its return          *)
(* (linearizability).  No ring, no index and no counter appears here: the  *)
(* modules FixedPointerFifo and PointerFifo are shown to implement it.     *)
(***************************************************************************)
EXTENDS Integers, Sequences

CONSTANTS
  Pointers,    \* the pointers that clients may store
  NULL,        \* the null pointer
  Capacities,  \* the capacities a fifo may be opened with
  Observers    \* threads that only ask for the number of stored pointers

VARIABLES
  open,        \* TRUE between init and done
  capacity,    \* number of pointers that fit, 0 while it is not open
  queue,       \* the stored pointers, oldest first
  wphase,      \* the write call in progress: "idle", "called" or "returning"
  warg,        \* its argument
  wres,        \* its result, once it took effect
  rphase,      \* the read call in progress
  rres,        \* its result, once it took effect
  observed     \* the last count of each observer: whether it named this fifo,
               \* and the number it was told

vars == << open, capacity, queue, wphase, warg, wres, rphase, rres, observed >>

\* Results of a write.
Stored      == 0
FifoFull    == -1
NullPointer == -2

Phases == { "idle", "called", "returning" }

Init ==
  /\ open = FALSE
  /\ capacity = 0
  /\ queue = << >>
  /\ wphase = "idle" /\ warg = NULL /\ wres = Stored
  /\ rphase = "idle" /\ rres = NULL
  /\ observed = [o \in Observers |-> [named |-> TRUE, count |-> 0]]

-----------------------------------------------------------------------------
(* Life cycle: only while no call is in progress.                          *)

Open(c) ==
  /\ wphase = "idle" /\ rphase = "idle"
  /\ open' = TRUE
  /\ capacity' = c
  /\ queue' = << >>
  /\ UNCHANGED << wphase, warg, wres, rphase, rres, observed >>

Close ==
  /\ wphase = "idle" /\ rphase = "idle"
  /\ open' = FALSE
  /\ capacity' = 0
  /\ queue' = << >>
  /\ UNCHANGED << wphase, warg, wres, rphase, rres, observed >>

-----------------------------------------------------------------------------
(* The writing thread.                                                     *)

CallWrite(p) ==
  /\ open /\ wphase = "idle"
  /\ wphase' = "called" /\ warg' = p
  /\ UNCHANGED << open, capacity, queue, wres, rphase, rres, observed >>

RejectNull ==
  /\ wphase = "called" /\ warg = NULL
  /\ wphase' = "returning" /\ wres' = NullPointer
  /\ UNCHANGED << open, capacity, queue, warg, rphase, rres, observed >>

ReportFull ==
  /\ wphase = "called" /\ warg # NULL
  /\ Len(queue) = capacity
  /\ wphase' = "returning" /\ wres' = FifoFull
  /\ UNCHANGED << open, capacity, queue, warg, rphase, rres, observed >>

Enqueue ==
  /\ wphase = "called" /\ warg # NULL
  /\ Len(queue) < capacity
  /\ queue' = Append(queue, warg)
  /\ wphase' = "returning" /\ wres' = Stored
  /\ UNCHANGED << open, capacity, warg, rphase, rres, observed >>

ReturnWrite ==
  /\ wphase = "returning"
  /\ wphase' = "idle" /\ warg' = NULL /\ wres' = Stored
  /\ UNCHANGED << open, capacity, queue, rphase, rres, observed >>

-----------------------------------------------------------------------------
(* The reading thread.                                                     *)

CallRead ==
  /\ open /\ rphase = "idle"
  /\ rphase' = "called"
  /\ UNCHANGED << open, capacity, queue, wphase, warg, wres, rres, observed >>

ReportEmpty ==
  /\ rphase = "called"
  /\ queue = << >>
  /\ rphase' = "returning" /\ rres' = NULL
  /\ UNCHANGED << open, capacity, queue, wphase, warg, wres, observed >>

Dequeue ==
  /\ rphase = "called"
  /\ queue # << >>
  /\ queue' = Tail(queue)
  /\ rphase' = "returning" /\ rres' = Head(queue)
  /\ UNCHANGED << open, capacity, wphase, warg, wres, observed >>

ReturnRead ==
  /\ rphase = "returning"
  /\ rphase' = "idle" /\ rres' = NULL
  /\ UNCHANGED << open, capacity, queue, wphase, warg, wres, observed >>

-----------------------------------------------------------------------------
(* Calls that name no fifo: nothing is stored, read or counted.            *)

WriteNowhere(p) ==
  /\ wphase = "idle"
  /\ wphase' = "returning" /\ warg' = p /\ wres' = FifoFull
  /\ UNCHANGED << open, capacity, queue, rphase, rres, observed >>

ReadNowhere ==
  /\ rphase = "idle"
  /\ rphase' = "returning" /\ rres' = NULL
  /\ UNCHANGED << open, capacity, queue, wphase, warg, wres, observed >>

CountNowhere(o) ==
  /\ observed' = [observed EXCEPT ![o] = [named |-> FALSE, count |-> 0]]
  /\ UNCHANGED << open, capacity, queue, wphase, warg, wres, rphase, rres >>

-----------------------------------------------------------------------------
(* Any thread: the number reported is the number stored at that moment.    *)

Count(o) ==
  /\ open
  /\ observed' = [observed EXCEPT ![o] = [named |-> TRUE, count |-> Len(queue)]]
  /\ UNCHANGED << open, capacity, queue, wphase, warg, wres, rphase, rres >>

Next ==
  \/ \E c \in Capacities : Open(c)
  \/ Close
  \/ \E p \in Pointers \cup {NULL} : CallWrite(p) \/ WriteNowhere(p)
  \/ RejectNull \/ ReportFull \/ Enqueue \/ ReturnWrite
  \/ CallRead \/ ReadNowhere \/ ReportEmpty \/ Dequeue \/ ReturnRead
  \/ \E o \in Observers : Count(o) \/ CountNowhere(o)

Spec == Init /\ [][Next]_vars

=============================================================================
