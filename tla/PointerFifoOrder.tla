-------------------------- MODULE PointerFifoOrder --------------------------
(***************************************************************************)
(* The steps of the dynamic fifo with the accesses to memory they make.    *)
(* Besides the fields and the slots there is the storage itself: malloc    *)
(* and free need it for themselves, whoever uses a slot shares it.         *)
(***************************************************************************)
EXTENDS PointerFifo

CONSTANT Threads

VARIABLES unseen, untold, races

hbVars == << unseen, untold, races >>

\* Atomic variables and other memory, both as << name, number >>.
Slot(i)  == << "storage", i >>
Field(f) == << f, 0 >>
Counter  == Field("n")
Block    == Field("block")

HB == INSTANCE HappensBefore WITH
        Atomics <- { Slot(i) : i \in 0 .. UIntMod - 1 } \cup {Counter}

OrderedInit == Init /\ HB!HBInit

(* init sets all fields, n too, without atomic operations.                 *)
Fields == { Field("write"), Field("read"), Field("size"), Counter }

InitBy(t, s) ==
  \/ /\ InitFifo(s)
     /\ HB!Access(t, {}, {}, Fields \cup { Field("storage"), Block }, {})
  \/ /\ AllocationFails(s)
     /\ HB!Access(t, {}, {}, Fields, {})

DoneBy(t) ==
  /\ Done
  /\ IF storage = NULL
     THEN HB!Access(t, {}, {Field("storage")}, {}, {})
     ELSE HB!Access(t, {}, {}, { Field("storage"), Block }, {})

(* Faulty variant: all atomic operations are relaxed.                      *)
WriteBy_Relaxed(t) ==
  \/ /\ WriteNull \/ WriteFull \/ WriteHasRoom \/ WriteIncrement \/ WriteReturn
     /\ UNCHANGED hbVars
  \/ /\ WriteStore
     /\ HB!Access(t, {}, { Field("write"), Field("storage"), Block }, {}, {})
  \/ /\ WriteAdvance
     /\ HB!Access(t, {}, {Field("size")}, {Field("write")}, {})

WriteBy(t) ==
  \/ /\ WriteNull \/ WriteReturn
     /\ UNCHANGED hbVars
  \/ /\ WriteFull \/ WriteHasRoom
     /\ HB!Access(t, {Counter}, { Counter, Field("size") }, {}, {})
  \/ /\ WriteStore
     /\ HB!Access(t, {}, { Field("write"), Field("storage"), Block }, {},
                  {Slot(write)})
  \/ /\ WriteAdvance
     /\ HB!Access(t, {}, {Field("size")}, {Field("write")}, {})
  \/ /\ WriteIncrement
     /\ HB!Access(t, {Counter}, {Counter}, {}, {Counter})

ReadBy(t) ==
  \/ /\ ReadEmpty \/ ReadHasPointer
     /\ HB!Access(t, {Counter}, {Counter}, {}, {})
  \/ /\ ReadLoad
     /\ HB!Access(t, {Slot(read)}, { Field("read"), Field("storage"), Block }, {}, {})
  \/ /\ ReadAdvance
     /\ HB!Access(t, {}, {Field("size")}, {Field("read")}, {})
  \/ /\ ReadDecrement
     /\ HB!Access(t, {Counter}, {Counter}, {}, {Counter})
  \/ /\ ReadReturn
     /\ UNCHANGED hbVars

=============================================================================
