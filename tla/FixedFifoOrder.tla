--------------------------- MODULE FixedFifoOrder ---------------------------
(***************************************************************************)
(* The steps of a fixed fifo with the accesses to memory they make: which  *)
(* are atomic, which are not, and so what they order between two threads.  *)
(* Clients whose threads share more than the fifo are built on it.         *)
(***************************************************************************)
EXTENDS FixedPointerFifo

CONSTANT Threads

VARIABLES unseen, untold, races

hbVars == << unseen, untold, races >>

\* Atomic variables and other memory, both as << name, number >>.
Slot(i)  == << "storage", i >>
Field(f) == << f, 0 >>
Counter  == Field("n")

HB == INSTANCE HappensBefore WITH Atomics <- { Slot(i) : i \in Slots } \cup {Counter}

OrderedInit == Init /\ HB!HBInit

(* init writes all fields, n too, without atomic operations.               *)
InitBy(t) ==
  /\ InitFifo
  /\ HB!Access(t, {}, {}, { Field("write"), Field("read"), Counter }, {})

(* Faulty variant: all atomic operations are relaxed.                      *)
WriteBy_Relaxed(t) ==
  /\ WriteStep
  /\ HB!Access(t, {}, {}, {}, {})

WriteBy(t) ==
  \/ /\ WriteNull \/ WriteReturn
     /\ UNCHANGED hbVars
  \/ /\ WriteFull \/ WriteHasRoom
     /\ HB!Access(t, {Counter}, {Counter}, {}, {})
  \/ /\ WriteStore
     /\ HB!Access(t, {}, {Field("write")}, {}, {Slot(write)})
  \/ /\ WriteAdvance
     /\ HB!Access(t, {}, {}, {Field("write")}, {})
  \/ /\ WriteIncrement
     /\ HB!Access(t, {Counter}, {Counter}, {}, {Counter})

(* Faulty variant: the decrement is relaxed.                               *)
ReadBy_RelaxedDecrement(t) ==
  \/ /\ ReadEmpty \/ ReadHasPointer
     /\ HB!Access(t, {Counter}, {Counter}, {}, {})
  \/ /\ ReadLoad
     /\ HB!Access(t, {Slot(read)}, {Field("read")}, {}, {})
  \/ /\ ReadAdvance
     /\ HB!Access(t, {}, {}, {Field("read")}, {})
  \/ /\ ReadDecrement \/ ReadReturn
     /\ UNCHANGED hbVars

ReadBy(t) ==
  \/ /\ ReadEmpty \/ ReadHasPointer
     /\ HB!Access(t, {Counter}, {Counter}, {}, {})
  \/ /\ ReadLoad
     /\ HB!Access(t, {Slot(read)}, {Field("read")}, {}, {})
  \/ /\ ReadAdvance
     /\ HB!Access(t, {}, {}, {Field("read")}, {})
  \/ /\ ReadDecrement
     /\ HB!Access(t, {Counter}, {Counter}, {}, {Counter})
  \/ /\ ReadReturn
     /\ UNCHANGED hbVars

=============================================================================
