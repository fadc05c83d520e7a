---------------------------- MODULE ThreadsProofs ----------------------------
(***************************************************************************)
(* Proofs about Threads, for all sizes of the fifo, any number of numbers, *)
(* all integer widths and allocators: the output is in order, and the main *)
(* thread may free the storage before it has joined the producer.          *)
(***************************************************************************)
EXTENDS Threads, SequenceTheorems, TLAPS

(* The lemmas about the dynamic fifo, for the numbers as pointers.         *)
Lemmas == INSTANCE PointerFifoProofs WITH
            Sizes <- {Size}, Pointers <- 1 .. Last, Observers <- {}

-----------------------------------------------------------------------------
(* The inductive invariant: what the threads may be doing,                 *)
Protocol ==
  /\ ppc \in { "none", "loop", "writing", "quit" }
  /\ mpc \in { "init", "create", "loop", "reading", "done", "join", "end" }
  /\ ppc = "none" <=> mpc \in { "init", "create" }
  /\ mpc = "init" => phase = "raw"
  /\ mpc = "create" => phase \in { "open", "aborted" }
  /\ mpc \in { "loop", "reading", "done" } => phase = "open"
  /\ mpc \in { "join", "end" } => phase = "done"
  /\ wpc # "idle" <=> ppc = "writing"
  /\ rpc # "idle" <=> mpc = "reading"
  /\ i \in 1 .. Last
  /\ ppc = "none" => i = 1 /\ printed = << >>
  /\ ppc = "quit" => i = Last
  /\ wpc # "idle" => warg = i
  /\ wpc = "return" => wres # Fifo!NullPointer
  /\ printed \in Seq(1 .. Last) /\ Len(printed) \in 0 .. Last
  /\ Len(printed) = Last <=> mpc \in { "done", "join", "end" }

(* that no number is lost or doubled: those whose write took effect are    *)
(* printed, in the fifo, or in the hands of the main thread, and in order, *)
Complete == ppc = "quit" \/ (wpc = "return" /\ wres = Fifo!Stored)
Written  == IF Complete THEN i ELSE i - 1
InHand   == IF rpc = "return" /\ pointer # NULL THEN 1 ELSE 0
NoneLost == mpc # "init" => Written = Len(printed) + n + InHand

InOrder ==
  /\ phase = "open" =>
       \A k \in 1 .. n : Fifo!Queue[k] = Len(printed) + InHand + k
  /\ rpc = "return" => pointer \in { NULL, Len(printed) + 1 }

(* what of the accesses of one thread the other may not have seen, until   *)
(* the storage is freed,                                                   *)
Uses(t) ==
  { << Fifo!Field("storage"), "shared", t >>, << Fifo!Block, "shared", t >> }

By(t, index) ==
  Uses(t) \cup { << Fifo!Counter, "shared", t >>, << Fifo!Field("size"), "shared", t >>,
                 << Fifo!Field(index), "shared", t >>,
                 << Fifo!Field(index), "exclusive", t >> }

ByProducer == By("producer", "write")
ByMain     == By("main", "read")

Apart ==
  /\ DOMAIN unseen = { "producer", "main" }
  /\ unseen["main"] \subseteq ByProducer
  /\ ppc # "none" /\ mpc \notin { "join", "end" } => unseen["producer"] \subseteq ByMain
  /\ ppc = "none" => unseen["main"] = {}

(* and that a load of n that sees the last number written shows the main   *)
(* thread all use that the producer ever made of the storage.              *)
TakesLast == rpc \in { "load", "advance", "decrement" } /\ Len(printed) + 1 = Last

Released ==
  /\ Written = Last => Uses("producer") \cap untold[Fifo!Counter] = {}
  /\ TakesLast \/ Len(printed) + InHand = Last =>
       Uses("producer") \cap unseen["main"] = {}

ThreadsInv ==
  /\ Fifo!RingInv
  /\ Protocol /\ NoneLost /\ InOrder
  /\ Apart /\ Released
  /\ FreesAfterUse /\ PrintsInOrder

-----------------------------------------------------------------------------
(* The fifo of the client.                                                 *)

(* What the lemmas assume of the constants.                                *)
LEMMA Assumptions ==
  Lemmas!WidthAssumption /\ Lemmas!SizesAssumption /\ Lemmas!PointerAssumption
BY FifoAssumption DEF Lemmas!WidthAssumption, Lemmas!SizesAssumption,
   Lemmas!PointerAssumption, Fifo!WidthAssumption, Fifo!SizesAssumption,
   Fifo!PointerAssumption

(* Both instances of the fifo have the same queue,                         *)
LEMMA SameQueue == Fifo!Queue = Lemmas!Queue /\ Fifo!Queue' = Lemmas!Queue'
BY DEF Fifo!Queue, Fifo!At, Fifo!Oldest, Fifo!Back, Lemmas!Queue, Lemmas!At,
   Lemmas!Oldest, Lemmas!Back

(* the same invariant,                                                     *)
LEMMA SameInvariant ==
  /\ Fifo!RingInv <=> Lemmas!RingInv
  /\ Fifo!RingInv' <=> Lemmas!RingInv'
BY DEF Fifo!RingInv, Fifo!TypeOK, Fifo!OwnsOneBlock, Fifo!BlockFitsSize,
   Fifo!ClosedIsQuiet, Fifo!NullStopped, Fifo!ChecksStayTrue,
   Fifo!IndicesMatchCount, Fifo!SlotsHoldPointers, Fifo!TakenPointerIntact,
   Fifo!Stored, Fifo!FifoFull, Fifo!NullPointer, Fifo!At, Fifo!Oldest, Fifo!Back,
   Lemmas!RingInv, Lemmas!TypeOK, Lemmas!OwnsOneBlock, Lemmas!BlockFitsSize,
   Lemmas!ClosedIsQuiet, Lemmas!NullStopped, Lemmas!ChecksStayTrue,
   Lemmas!IndicesMatchCount, Lemmas!SlotsHoldPointers, Lemmas!TakenPointerIntact,
   Lemmas!Stored, Lemmas!FifoFull, Lemmas!NullPointer, Lemmas!At, Lemmas!Oldest,
   Lemmas!Back

(* and the same steps.                                                     *)
LEMMA SameCalls ==
  /\ Fifo!WriteStep <=> Lemmas!WriteStep
  /\ Fifo!ReadStep <=> Lemmas!ReadStep
  /\ Fifo!WriteReturn <=> Lemmas!WriteReturn
  /\ Fifo!ReadReturn <=> Lemmas!ReadReturn
  /\ Fifo!CallRead <=> Lemmas!CallRead
  /\ \A p : Fifo!CallWrite(p) <=> Lemmas!CallWrite(p)
BY DEF Fifo!CallWrite, Fifo!WriteStep, Fifo!WriteNull, Fifo!WriteFull,
   Fifo!WriteHasRoom, Fifo!WriteStore, Fifo!WriteAdvance, Fifo!WriteIncrement,
   Fifo!WriteReturn, Fifo!CallRead, Fifo!ReadStep, Fifo!ReadEmpty,
   Fifo!ReadHasPointer, Fifo!ReadLoad, Fifo!ReadAdvance, Fifo!ReadDecrement,
   Fifo!ReadReturn, Fifo!Count, Fifo!Wrap, Fifo!vars, Fifo!fifoVars, Fifo!heapVars,
   Fifo!producerVars, Fifo!consumerVars, Fifo!Stored, Fifo!FifoFull,
   Fifo!NullPointer,
   Lemmas!CallWrite, Lemmas!WriteStep, Lemmas!WriteNull, Lemmas!WriteFull,
   Lemmas!WriteHasRoom, Lemmas!WriteStore, Lemmas!WriteAdvance,
   Lemmas!WriteIncrement, Lemmas!WriteReturn, Lemmas!CallRead, Lemmas!ReadStep,
   Lemmas!ReadEmpty, Lemmas!ReadHasPointer, Lemmas!ReadLoad, Lemmas!ReadAdvance,
   Lemmas!ReadDecrement, Lemmas!ReadReturn, Lemmas!Count, Lemmas!Wrap, Lemmas!vars,
   Lemmas!fifoVars, Lemmas!heapVars, Lemmas!producerVars, Lemmas!consumerVars,
   Lemmas!Stored, Lemmas!FifoFull, Lemmas!NullPointer

(* init, with and without memory, and done.                                *)
LEMMA SameLifeCycle ==
  /\ Fifo!InitFifo(Size) <=> Lemmas!InitFifo(Size)
  /\ Fifo!AllocationFails(Size) <=> Lemmas!AllocationFails(Size)
  /\ Fifo!Done <=> Lemmas!Done
BY DEF Fifo!InitFifo, Fifo!AllocationFails, Fifo!Asserted, Fifo!CellsOf,
   Fifo!CanInit, Fifo!Idle, Fifo!NoCells, Fifo!Done, Fifo!Release, Fifo!heapVars,
   Fifo!producerVars, Fifo!consumerVars,
   Lemmas!InitFifo, Lemmas!AllocationFails, Lemmas!Asserted, Lemmas!CellsOf,
   Lemmas!CanInit, Lemmas!Idle, Lemmas!NoCells, Lemmas!Done, Lemmas!Release,
   Lemmas!heapVars, Lemmas!producerVars, Lemmas!consumerVars

(* The invariant holds before init.                                        *)
LEMMA FifoStarts == Fifo!Init => Fifo!RingInv
<1>1. Fifo!Init <=> Lemmas!Init
  BY DEF Fifo!Init, Fifo!Stored, Fifo!NoCells, Lemmas!Init, Lemmas!Stored, Lemmas!NoCells
<1>2. QED
  BY <1>1, Assumptions, Lemmas!InitRing, SameInvariant

(* The steps the programs take keep the invariant of the fifo.             *)
LEMMA FifoStep ==
  ASSUME Fifo!RingInv,
         \/ Fifo!InitFifo(Size) \/ Fifo!AllocationFails(Size)
         \/ \E p \in 1 .. Last : Fifo!CallWrite(p)
         \/ Fifo!WriteStep \/ Fifo!CallRead \/ Fifo!ReadStep
         \/ UNCHANGED ringVars
  PROVE  Fifo!RingInv'
<1>1. CASE UNCHANGED ringVars
  <2>1. UNCHANGED Lemmas!vars
    BY <1>1 DEF ringVars, Lemmas!vars, Lemmas!fifoVars, Lemmas!heapVars,
       Lemmas!producerVars, Lemmas!consumerVars
  <2>2. QED
    BY <2>1, Assumptions, Lemmas!RingStep, SameInvariant
<1>2. CASE \/ Fifo!InitFifo(Size) \/ Fifo!AllocationFails(Size)
           \/ \E p \in 1 .. Last : Fifo!CallWrite(p)
           \/ Fifo!WriteStep \/ Fifo!CallRead \/ Fifo!ReadStep
  <2>1. Lemmas!Next
    BY <1>2, SameCalls, SameLifeCycle DEF Lemmas!Next
  <2>2. QED
    BY <2>1, Assumptions, Lemmas!RingStep, SameInvariant
<1>3. QED
  BY <1>1, <1>2

(* done may be called before the producer has returned from its last call. *)
LEMMA DoneKeepsRing ==
  ASSUME Fifo!RingInv, Fifo!Done, phase = "open",
         wpc \in { "idle", "return" }, rpc \in { "idle", "return" }
  PROVE  Fifo!RingInv'
<1>1. storage # Garbage
  BY FifoAssumption DEF Fifo!RingInv, Fifo!OwnsOneBlock, Fifo!PointerAssumption
<1>2. QED
  BY <1>1, Assumptions, Lemmas!DoneKeepsRing, SameInvariant, SameLifeCycle

(* The queue of an open fifo has as many pointers as the counter says.     *)
LEMMA QueueIsSeq ==
  ASSUME Fifo!RingInv, phase = "open"
  PROVE  Fifo!Queue \in Seq(1 .. Last) /\ Len(Fifo!Queue) = n /\ n \in Nat
<1>1. n \in Nat
  BY FifoAssumption DEF Fifo!RingInv, Fifo!TypeOK, Fifo!WidthAssumption
<1>2. QED
  BY <1>1, Assumptions, Lemmas!QueueIsSeq, SameInvariant, SameQueue

(* What a step of a call does, when it does not return.                    *)
LEMMA WriteOutcome ==
  ASSUME Fifo!RingInv, Fifo!WriteStep, wpc # "return"
  PROVE  /\ phase = "open" /\ UNCHANGED << phase, storage, warg, rpc, pointer >>
         /\ \/ /\ wpc' \in { "store", "advance", "increment" }
               /\ UNCHANGED << n, Fifo!Queue >>
            \/ /\ wpc' = "return" /\ wres' = Fifo!NullPointer /\ warg = NULL
               /\ UNCHANGED << n, Fifo!Queue >>
            \/ /\ wpc' = "return" /\ wres' = Fifo!FifoFull
               /\ UNCHANGED << n, Fifo!Queue >>
            \/ /\ wpc' = "return" /\ wres' = Fifo!Stored
               /\ n' = n + 1 /\ Fifo!Queue' = Append(Fifo!Queue, warg)
BY Assumptions, Lemmas!WriteOutcome, SameInvariant, SameCalls, SameQueue
   DEF Fifo!Stored, Fifo!FifoFull, Fifo!NullPointer, Lemmas!Stored, Lemmas!FifoFull,
   Lemmas!NullPointer

(* What a step of _read does, when it does not return: at the decrement,   *)
(* and only there, the head is removed.                                    *)
LEMMA ReadOutcome ==
  ASSUME Fifo!RingInv, Fifo!ReadStep, rpc # "return"
  PROVE  /\ phase = "open" /\ UNCHANGED << phase, storage, wpc, warg, wres >>
         /\ \/ /\ rpc' \in { "load", "advance", "decrement" }
               /\ rpc' = "load" <=> rpc = "enter"
               /\ UNCHANGED << n, Fifo!Queue >>
            \/ /\ rpc' = "return" /\ pointer' = NULL
               /\ UNCHANGED << n, Fifo!Queue >>
            \/ /\ rpc' = "return" /\ pointer' = Head(Fifo!Queue) /\ n >= 1
               /\ n' = n - 1 /\ Fifo!Queue' = Tail(Fifo!Queue)
               /\ rpc \in { "load", "advance", "decrement" }
<1>1. size \in Nat
  BY FifoAssumption DEF Fifo!RingInv, Fifo!TypeOK, Fifo!WidthAssumption
<1>2. n \in 1 .. size => n >= 1
  BY <1>1
<1>3. QED
  BY <1>2, Assumptions, Lemmas!ReadOutcome, SameInvariant, SameCalls, SameQueue

(* Neither to enter a call nor to return from one moves a pointer.         *)
LEMMA CallsKeepQueue ==
  ASSUME Fifo!RingInv,
         \/ \E p : Fifo!CallWrite(p)
         \/ Fifo!WriteReturn \/ Fifo!CallRead \/ Fifo!ReadReturn
  PROVE  UNCHANGED << n, phase, storage, Fifo!Queue >>
BY Assumptions, Lemmas!CallsKeepQueue, SameInvariant, SameCalls, SameQueue

-----------------------------------------------------------------------------
(* What a call that was made accesses.                                     *)

(* The accesses of one step of t.                                          *)
Accesses(t, shared, exclusive) ==
  (shared \X {"shared"} \X {t}) \cup (exclusive \X {"exclusive"} \X {t})

(* They reach the other thread unseen, and a load of n that does not see   *)
(* them; a step sees at most what is untold at what it loads.              *)
LEMMA AccessOutcome ==
  ASSUME NEW t \in { "producer", "main" }, NEW u \in { "producer", "main" }, t # u,
         NEW from, NEW shared, NEW exclusive, NEW to,
         Fifo!HB!Access(t, from, shared, exclusive, to)
  PROVE  /\ DOMAIN unseen' = { "producer", "main" }
         /\ unseen'[t] \subseteq unseen[t]
         /\ Fifo!Counter \in from => unseen'[t] \subseteq untold[Fifo!Counter]
         /\ unseen'[u] = unseen[u] \cup Accesses(t, shared, exclusive)
         /\ Fifo!Counter \notin to =>
              untold'[Fifo!Counter] = untold[Fifo!Counter] \cup Accesses(t, shared, exclusive)
         /\ Fifo!Counter \in to => untold'[Fifo!Counter] = unseen'[t]
BY DEF Fifo!HB!Access, Accesses

(* There is no race if all that t has not seen is compatible with what it  *)
(* does now.                                                               *)
LEMMA NoRace ==
  ASSUME NEW t \in { "producer", "main" },
         NEW from, NEW shared, NEW exclusive, NEW to,
         Fifo!HB!Access(t, from, shared, exclusive, to),
         \A a \in unseen[t] : /\ a[1] \notin exclusive
                              /\ a[1] \in shared => a[2] # "exclusive"
  PROVE  races' = races
BY DEF Fifo!HB!Access

(* The accesses of _write are compatible with those of _read.              *)
LEMMA ProducerAccess ==
  ASSUME NEW from, NEW shared, NEW exclusive, NEW to,
         Fifo!HB!Access("producer", from, shared, exclusive, to),
         shared \subseteq { Fifo!Counter, Fifo!Field("size"), Fifo!Field("write"),
                            Fifo!Field("storage"), Fifo!Block },
         exclusive \subseteq { Fifo!Field("write") },
         unseen["producer"] \subseteq ByMain
  PROVE  /\ DOMAIN unseen' = { "producer", "main" }
         /\ unseen'["producer"] \subseteq unseen["producer"]
         /\ unseen'["main"] \subseteq unseen["main"] \cup ByProducer
         /\ Fifo!Counter \in to => untold'[Fifo!Counter] = unseen'["producer"]
         /\ races' = races
<1>1. Accesses("producer", shared, exclusive) \subseteq ByProducer
  BY DEF Accesses, ByProducer, By, Uses
<1>2. \A a \in unseen["producer"] :
        /\ a[1] \notin exclusive
        /\ a[1] \in shared => a[2] # "exclusive"
  BY DEF ByMain, By, Uses, Fifo!Counter, Fifo!Field, Fifo!Block
<1>3. races' = races
  BY <1>2, NoRace
<1>4. QED
  BY <1>1, <1>3, AccessOutcome

(* And those of _read with those of _write; none of them is the producer's *)
(* use of the storage.                                                     *)
LEMMA MainAccess ==
  ASSUME NEW from, NEW shared, NEW exclusive, NEW to,
         Fifo!HB!Access("main", from, shared, exclusive, to),
         shared \subseteq { Fifo!Counter, Fifo!Field("size"), Fifo!Field("read"),
                            Fifo!Field("storage"), Fifo!Block },
         exclusive \subseteq { Fifo!Field("read") },
         Fifo!Counter \in to => Fifo!Counter \in from,
         unseen["main"] \subseteq ByProducer
  PROVE  /\ DOMAIN unseen' = { "producer", "main" }
         /\ unseen'["main"] \subseteq unseen["main"]
         /\ Fifo!Counter \in from => unseen'["main"] \subseteq untold[Fifo!Counter]
         /\ unseen'["producer"] \subseteq unseen["producer"] \cup ByMain
         /\ untold'[Fifo!Counter] \cap Uses("producer") \subseteq untold[Fifo!Counter]
         /\ races' = races
<1>1. Accesses("main", shared, exclusive) \subseteq ByMain
  BY DEF Accesses, ByMain, By, Uses
<1>2. \A a \in unseen["main"] :
        /\ a[1] \notin exclusive
        /\ a[1] \in shared => a[2] # "exclusive"
  BY DEF ByProducer, By, Uses, Fifo!Counter, Fifo!Field, Fifo!Block
<1>3. races' = races
  BY <1>2, NoRace
<1>4. Accesses("main", shared, exclusive) \cap Uses("producer") = {}
  BY DEF Accesses, Uses
<1>5. QED
  BY <1>1, <1>3, <1>4, AccessOutcome

(* What _write accesses, and what of it a load of n may not show.          *)
LEMMA WriteAccess ==
  ASSUME wpc # "return", Fifo!WriteBy("producer"),
         DOMAIN unseen = { "producer", "main" },
         unseen["producer"] \subseteq ByMain
  PROVE  /\ Fifo!WriteStep
         /\ DOMAIN unseen' = { "producer", "main" }
         /\ unseen'["producer"] \subseteq unseen["producer"]
         /\ unseen'["main"] \subseteq unseen["main"] \cup ByProducer
         /\ wpc' = "return" /\ wres' = Fifo!Stored =>
              untold'[Fifo!Counter] \subseteq ByMain
         /\ races' = races
<1>1. CASE /\ Fifo!WriteNull \/ Fifo!WriteReturn
           /\ UNCHANGED Fifo!hbVars
  BY <1>1 DEF Fifo!hbVars, Fifo!WriteStep, Fifo!WriteNull, Fifo!WriteReturn,
     Fifo!NullPointer, Fifo!Stored
<1>2. CASE /\ Fifo!WriteFull \/ Fifo!WriteHasRoom
           /\ Fifo!HB!Access("producer", {Fifo!Counter},
                             { Fifo!Counter, Fifo!Field("size") }, {}, {})
  <2>1. ~ (wpc' = "return" /\ wres' = Fifo!Stored)
    BY <1>2 DEF Fifo!WriteFull, Fifo!WriteHasRoom, Fifo!FifoFull, Fifo!Stored
  <2>2. QED
    BY <1>2, <2>1, ProducerAccess DEF Fifo!WriteStep
<1>3. CASE /\ Fifo!WriteStore
           /\ Fifo!HB!Access("producer", {},
                { Fifo!Field("write"), Fifo!Field("storage"), Fifo!Block }, {},
                {Fifo!Slot(write)})
  <2>1. wpc' = "advance"
    BY <1>3 DEF Fifo!WriteStore
  <2>2. QED
    BY <1>3, <2>1, ProducerAccess DEF Fifo!WriteStep
<1>4. CASE /\ Fifo!WriteAdvance
           /\ Fifo!HB!Access("producer", {}, {Fifo!Field("size")}, {Fifo!Field("write")}, {})
  <2>1. wpc' = "increment"
    BY <1>4 DEF Fifo!WriteAdvance
  <2>2. QED
    BY <1>4, <2>1, ProducerAccess DEF Fifo!WriteStep
<1>5. CASE /\ Fifo!WriteIncrement
           /\ Fifo!HB!Access("producer", {Fifo!Counter}, {Fifo!Counter}, {}, {Fifo!Counter})
  BY <1>5, ProducerAccess DEF Fifo!WriteStep
<1>6. QED
  BY <1>1, <1>2, <1>3, <1>4, <1>5 DEF Fifo!WriteBy

(* What _read accesses; a load of n shows what is not untold.              *)
LEMMA ReadAccess ==
  ASSUME rpc # "return", Fifo!ReadBy("main"),
         DOMAIN unseen = { "producer", "main" },
         unseen["main"] \subseteq ByProducer
  PROVE  /\ Fifo!ReadStep
         /\ DOMAIN unseen' = { "producer", "main" }
         /\ unseen'["main"] \subseteq unseen["main"]
         /\ rpc' = "load" => unseen'["main"] \subseteq untold[Fifo!Counter]
         /\ unseen'["producer"] \subseteq unseen["producer"] \cup ByMain
         /\ untold'[Fifo!Counter] \cap Uses("producer") \subseteq untold[Fifo!Counter]
         /\ races' = races
<1>1. CASE /\ Fifo!ReadEmpty \/ Fifo!ReadHasPointer
           /\ Fifo!HB!Access("main", {Fifo!Counter}, {Fifo!Counter}, {}, {})
  BY <1>1, MainAccess DEF Fifo!ReadStep
<1>2. CASE /\ Fifo!ReadLoad
           /\ Fifo!HB!Access("main", {Fifo!Slot(read)},
                { Fifo!Field("read"), Fifo!Field("storage"), Fifo!Block }, {}, {})
  <2>1. rpc' = "advance"
    BY <1>2 DEF Fifo!ReadLoad
  <2>2. QED
    BY <1>2, <2>1, MainAccess DEF Fifo!ReadStep
<1>3. CASE /\ Fifo!ReadAdvance
           /\ Fifo!HB!Access("main", {}, {Fifo!Field("size")}, {Fifo!Field("read")}, {})
  <2>1. rpc' = "decrement"
    BY <1>3 DEF Fifo!ReadAdvance
  <2>2. QED
    BY <1>3, <2>1, MainAccess DEF Fifo!ReadStep
<1>4. CASE /\ Fifo!ReadDecrement
           /\ Fifo!HB!Access("main", {Fifo!Counter}, {Fifo!Counter}, {}, {Fifo!Counter})
  BY <1>4, MainAccess DEF Fifo!ReadStep
<1>5. QED
  BY <1>1, <1>2, <1>3, <1>4 DEF Fifo!ReadBy, Fifo!ReadReturn

(* Freeing the storage races with nothing once the producer's use of it    *)
(* has been seen.                                                          *)
LEMMA DoneAccess ==
  ASSUME Fifo!DoneBy("main"),
         DOMAIN unseen = { "producer", "main" },
         unseen["main"] \subseteq ByProducer,
         Uses("producer") \cap unseen["main"] = {}
  PROVE  /\ DOMAIN unseen' = { "producer", "main" }
         /\ unseen'["main"] \subseteq unseen["main"]
         /\ untold'[Fifo!Counter] \cap Uses("producer") \subseteq untold[Fifo!Counter]
         /\ races' = races
<1> DEFINE freed == { Fifo!Field("storage"), Fifo!Block }
<1>1. PICK shared \in SUBSET freed, exclusive \in SUBSET freed :
        Fifo!HB!Access("main", {}, shared, exclusive, {})
  <2>1. CASE storage = NULL
    <3>1. Fifo!HB!Access("main", {}, {Fifo!Field("storage")}, {}, {})
      BY <2>1 DEF Fifo!DoneBy
    <3>2. {Fifo!Field("storage")} \in SUBSET freed /\ {} \in SUBSET freed
      OBVIOUS
    <3>3. QED
      BY <3>1, <3>2
  <2>2. CASE storage # NULL
    <3>1. Fifo!HB!Access("main", {}, {}, { Fifo!Field("storage"), Fifo!Block }, {})
      BY <2>2 DEF Fifo!DoneBy
    <3>2. { Fifo!Field("storage"), Fifo!Block } \in SUBSET freed /\ {} \in SUBSET freed
      OBVIOUS
    <3>3. QED
      BY <3>1, <3>2
  <2>3. QED
    BY <2>1, <2>2
<1>2. \A a \in unseen["main"] : a[1] # Fifo!Field("storage") /\ a[1] # Fifo!Block
  BY DEF ByProducer, By, Uses, Fifo!Counter, Fifo!Field, Fifo!Block
<1>3. races' = races
  BY <1>1, <1>2, NoRace
<1>4. Accesses("main", shared, exclusive) \cap Uses("producer") = {}
  BY DEF Accesses, Uses
<1>5. QED
  BY <1>1, <1>3, <1>4, AccessOutcome

-----------------------------------------------------------------------------
(* The invariant is inductive.                                             *)

(* What it says of the numbers in play.                                    *)
LEMMA Counts ==
  ASSUME ThreadsInv
  PROVE  /\ i \in 1 .. Last /\ Last \in Nat \ {0} /\ NULL \notin 1 .. Last
         /\ printed \in Seq(1 .. Last) /\ Len(printed) \in 0 .. Last
         /\ InHand \in 0 .. 1
         /\ Written = (IF Complete THEN i ELSE i - 1)
         /\ mpc # "init" => Written = Len(printed) + n + InHand
         /\ n \in Nat
         /\ phase = "open" => Fifo!Queue \in Seq(1 .. Last) /\ Len(Fifo!Queue) = n
         /\ rpc \in { "load", "advance", "decrement" } => n >= 1
<1>1. /\ i \in 1 .. Last /\ Last \in Nat \ {0} /\ NULL \notin 1 .. Last
      /\ printed \in Seq(1 .. Last) /\ Len(printed) \in 0 .. Last
      /\ InHand \in 0 .. 1
  BY LastAssumption, FifoAssumption
     DEF ThreadsInv, Protocol, InHand, Fifo!PointerAssumption
<1>2. n \in Nat
  BY FifoAssumption DEF ThreadsInv, Fifo!RingInv, Fifo!TypeOK, Fifo!WidthAssumption
<1>3. rpc \in { "load", "advance", "decrement" } => n >= 1
  BY <1>2 DEF ThreadsInv, Fifo!RingInv, Fifo!ChecksStayTrue
<1>4. QED
  BY <1>1, <1>2, <1>3, QueueIsSeq DEF ThreadsInv, NoneLost, Written

(* The queue is in the fields of the fifo.                                 *)
LEMMA QueueIsSame ==
  ASSUME UNCHANGED ringVars
  PROVE  UNCHANGED Fifo!Queue
BY DEF ringVars, Fifo!Queue, Fifo!At, Fifo!Oldest, Fifo!Back

(* It holds before the fifo is initialized.                                *)
LEMMA InitThreads == Init => ThreadsInv
<1> SUFFICES ASSUME Init
             PROVE  ThreadsInv
  OBVIOUS
<1>1. Fifo!RingInv
  BY FifoStarts DEF Init, Fifo!OrderedInit
<1>2. /\ wpc = "idle" /\ rpc = "idle" /\ phase = "raw"
      /\ ppc = "none" /\ i = 1 /\ mpc = "init" /\ printed = << >>
      /\ unseen = [t \in { "producer", "main" } |-> {}]
      /\ untold[Fifo!Counter] = {} /\ races = {}
  BY DEF Init, Fifo!OrderedInit, Fifo!Init, Fifo!HB!HBInit
<1>3. printed \in Seq(1 .. Last) /\ Len(printed) = 0 /\ Last \in Nat \ {0}
  BY <1>2, LastAssumption
<1>4. Protocol /\ PrintsInOrder
  BY <1>2, <1>3 DEF Protocol, PrintsInOrder
<1>5. NoneLost /\ InOrder /\ Apart /\ Released /\ FreesAfterUse
  BY <1>2 DEF NoneLost, InOrder, Apart, Released, FreesAfterUse
<1>6. QED
  BY <1>1, <1>4, <1>5 DEF ThreadsInv

(* The use of the storage by the producer is over when all numbers are     *)
(* written, and that is so once the main thread is about to take the last. *)
LEMMA LastIsWritten ==
  ASSUME ThreadsInv, TakesLast \/ Len(printed) + InHand = Last, mpc # "init"
  PROVE  /\ Written = Last /\ i = Last /\ Complete
         /\ Len(printed) = Last => n = 0
<1>1. Written >= Last
  <2>1. CASE TakesLast
    BY <2>1, Counts DEF TakesLast
  <2>2. CASE Len(printed) + InHand = Last
    BY <2>2, Counts
  <2>3. QED
    BY <2>1, <2>2
<1>2. QED
  BY <1>1, Counts

(* A step that neither accesses memory nor moves numbers.                  *)
LEMMA QuietStep ==
  ASSUME ThreadsInv, Fifo!RingInv', Protocol', PrintsInOrder',
         UNCHANGED << hbVars, n, phase, Fifo!Queue, Written >>,
         Len(printed') + InHand' = Len(printed) + InHand,
         mpc' = "init" <=> mpc = "init", ppc' = "none" <=> ppc = "none",
         mpc' \in { "join", "end" } <=> mpc \in { "join", "end" },
         rpc' = "return" => rpc = "return" /\ UNCHANGED << pointer, printed >>,
         TakesLast' => TakesLast
  PROVE  ThreadsInv'
<1>1. NoneLost'
  <2>1. mpc' # "init" => Written' = (Len(printed') + InHand') + n'
    BY Counts
  <2>2. Len(printed') \in Nat /\ InHand' \in Nat /\ n' \in Nat
    BY Counts DEF Protocol, InHand
  <2>3. QED
    BY <2>1, <2>2 DEF NoneLost
<1>2. InOrder'
  <2>1. phase = "open" => \A k \in 1 .. n : Fifo!Queue[k] = (Len(printed') + InHand') + k
    BY DEF ThreadsInv, InOrder
  <2>2. QED
    BY <2>1 DEF ThreadsInv, InOrder
<1>3. Apart' /\ FreesAfterUse'
  BY DEF ThreadsInv, Apart, FreesAfterUse, hbVars
<1>4. Released'
  BY DEF ThreadsInv, Released, hbVars
<1>5. QED
  BY <1>1, <1>2, <1>3, <1>4 DEF ThreadsInv

(* Every step of either thread keeps it.                                   *)
LEMMA ThreadsStep == ThreadsInv /\ [Next]_vars => ThreadsInv'
<1> SUFFICES ASSUME ThreadsInv, [Next]_vars
             PROVE  ThreadsInv'
  OBVIOUS
<1> USE DEF clientVars
<1>1. /\ Fifo!RingInv /\ Protocol /\ NoneLost /\ InOrder
      /\ Apart /\ Released /\ FreesAfterUse /\ PrintsInOrder
      /\ Last \in Nat \ {0} /\ NULL \notin 1 .. Last
  BY Counts DEF ThreadsInv
<1>2. CASE TryWrite
  <2>1. /\ ppc = "loop" /\ ppc' = "writing" /\ wpc = "idle" /\ wpc' = "enter" /\ warg' = i
        /\ UNCHANGED << i, mpc, printed, hbVars, rpc, pointer >>
        /\ Fifo!CallWrite(i)
    BY <1>2 DEF TryWrite, Fifo!CallWrite, Fifo!consumerVars
  <2>2. Fifo!RingInv' /\ UNCHANGED << n, phase, Fifo!Queue >>
    BY <1>1, <2>1, Counts, FifoStep, CallsKeepQueue
  <2>3. Protocol' /\ PrintsInOrder' /\ UNCHANGED << Written, InHand, TakesLast >>
    BY <1>1, <2>1, <2>2
       DEF Protocol, PrintsInOrder, Written, Complete, InHand, TakesLast
  <2>4. QED
    BY <2>1, <2>2, <2>3, QuietStep
<1>3. CASE InWrite
  <2>1. Fifo!WriteBy("producer") /\ wpc # "return" /\ UNCHANGED clientVars
    BY <1>3 DEF InWrite
  <2>2. wpc # "idle" /\ ppc = "writing" /\ warg = i /\ warg # NULL
    BY <1>1, <2>1 DEF Protocol, Fifo!WriteBy, Fifo!WriteNull, Fifo!WriteFull,
       Fifo!WriteHasRoom, Fifo!WriteStore, Fifo!WriteAdvance, Fifo!WriteIncrement,
       Fifo!WriteReturn
  <2>3. phase = "open" /\ mpc \notin { "init", "join", "end" }
    BY <1>1, <2>1, <2>2 DEF Protocol, Fifo!RingInv, Fifo!ClosedIsQuiet
  <2>4. /\ Fifo!WriteStep
        /\ DOMAIN unseen' = { "producer", "main" }
        /\ unseen'["producer"] \subseteq unseen["producer"]
        /\ unseen'["main"] \subseteq unseen["main"] \cup ByProducer
        /\ wpc' = "return" /\ wres' = Fifo!Stored =>
             untold'[Fifo!Counter] \subseteq ByMain
        /\ races' = races
    BY <1>1, <2>1, <2>2, <2>3, WriteAccess DEF Apart
  <2>5. Fifo!RingInv'
    BY <1>1, <2>4, FifoStep
  <2>6. /\ UNCHANGED << phase, rpc, pointer, warg >>
        /\ wpc' \in { "store", "advance", "increment", "return" }
        /\ wpc' = "return" => wres' # Fifo!NullPointer
    BY <1>1, <2>1, <2>2, <2>4, WriteOutcome
       DEF Fifo!Stored, Fifo!FifoFull, Fifo!NullPointer
  <2>7. Protocol' /\ PrintsInOrder' /\ FreesAfterUse'
    BY <1>1, <2>1, <2>2, <2>4, <2>6 DEF Protocol, PrintsInOrder, FreesAfterUse
  <2>8. Apart'
    BY <1>1, <2>1, <2>2, <2>3, <2>4 DEF Apart
  <2>9. /\ ~ Complete /\ Written = i - 1 /\ i \in 1 .. Last
        /\ UNCHANGED << InHand, TakesLast >>
    BY <2>1, <2>2, <2>6, Counts DEF Complete, InHand, TakesLast
  <2>10. ~ TakesLast /\ Len(printed) + InHand # Last
    BY <2>3, <2>9, LastIsWritten
  <2>11. CASE ~ Complete' /\ UNCHANGED << n, Fifo!Queue >>
    <3>1. Written' = Written
      BY <2>1, <2>9, <2>11 DEF Written
    <3>2. NoneLost' /\ InOrder'
      BY <1>1, <2>1, <2>6, <2>9, <2>11, <3>1 DEF NoneLost, InOrder
    <3>3. Written' # Last
      BY <2>9, <3>1
    <3>4. Released'
      BY <2>1, <2>9, <2>10, <3>3 DEF Released
    <3>5. QED
      BY <2>5, <2>7, <2>8, <3>2, <3>4 DEF ThreadsInv
  <2>12. CASE /\ wpc' = "return" /\ wres' = Fifo!Stored
              /\ n' = n + 1 /\ Fifo!Queue' = Append(Fifo!Queue, warg)
    <3>1. Written' = i
      BY <2>1, <2>12 DEF Written, Complete, Fifo!Stored
    <3>2. Written = Len(printed) + n + InHand
      BY <1>1, <2>3 DEF NoneLost
    <3>3. /\ Len(printed) \in Nat /\ InHand \in Nat /\ n \in Nat /\ i \in Nat
          /\ Fifo!Queue \in Seq(1 .. Last) /\ Len(Fifo!Queue) = n
      BY <2>3, Counts
    <3>4. NoneLost'
      BY <2>1, <2>9, <2>12, <3>1, <3>2, <3>3 DEF NoneLost
    <3>5. \A k \in 1 .. n' : Fifo!Queue'[k] = Len(printed) + InHand + k
      <4>1. \A k \in 1 .. n' : k \in 1 .. n \/ k = n + 1
        BY <2>12, <3>3
      <4>2. \A k \in 1 .. n : Fifo!Queue'[k] = Fifo!Queue[k]
        BY <2>2, <2>9, <2>12, <3>3
      <4>3. Fifo!Queue'[n + 1] = i
        BY <2>2, <2>9, <2>12, <3>3
      <4>4. i = Len(printed) + InHand + (n + 1)
        BY <2>9, <3>2, <3>3
      <4>5. QED
        BY <1>1, <2>3, <4>1, <4>2, <4>3, <4>4 DEF InOrder
    <3>6. InOrder'
      BY <1>1, <2>1, <2>6, <2>9, <3>5 DEF InOrder
    <3>7. Uses("producer") \cap ByMain = {}
      BY DEF Uses, ByMain, By
    <3>8. Released'
      BY <2>1, <2>4, <2>9, <2>10, <2>12, <3>7 DEF Released
    <3>9. QED
      BY <2>5, <2>7, <2>8, <3>4, <3>6, <3>8 DEF ThreadsInv
  <2>13. \/ ~ Complete' /\ UNCHANGED << n, Fifo!Queue >>
         \/ /\ wpc' = "return" /\ wres' = Fifo!Stored
            /\ n' = n + 1 /\ Fifo!Queue' = Append(Fifo!Queue, warg)
    <3>1. Complete' <=> wpc' = "return" /\ wres' = Fifo!Stored
      BY <2>1, <2>2 DEF Complete, Fifo!Stored
    <3>2. Fifo!Stored # Fifo!FifoFull /\ Fifo!Stored # Fifo!NullPointer
      BY DEF Fifo!NullPointer, Fifo!Stored, Fifo!FifoFull
    <3>3. QED
      BY <1>1, <2>1, <2>4, <3>1, <3>2, WriteOutcome
  <2>14. QED
    BY <2>11, <2>12, <2>13
<1>4. CASE WriteReturned
  <2>1. /\ wpc = "return" /\ wpc' = "idle" /\ Fifo!WriteReturn
        /\ UNCHANGED << mpc, printed, hbVars, rpc, pointer >>
        /\ \/ wres = Fifo!FifoFull /\ ppc' = "loop" /\ UNCHANGED i
           \/ wres # Fifo!FifoFull /\ i = Last /\ ppc' = "quit" /\ UNCHANGED i
           \/ wres # Fifo!FifoFull /\ i # Last /\ ppc' = "loop" /\ i' = i + 1
    BY <1>4 DEF WriteReturned, Fifo!WriteReturn, Fifo!consumerVars
  <2>2. Fifo!RingInv' /\ UNCHANGED << n, phase, Fifo!Queue >>
    BY <1>1, <2>1, FifoStep, CallsKeepQueue DEF Fifo!WriteStep
  <2>3. /\ ppc = "writing" /\ wres \in { Fifo!FifoFull, Fifo!Stored }
        /\ Fifo!FifoFull # Fifo!Stored /\ i \in 1 .. Last
    BY <1>1, <2>1 DEF Protocol, Fifo!RingInv, Fifo!TypeOK, Fifo!FifoFull, Fifo!Stored,
       Fifo!NullPointer
  <2>4. Protocol' /\ PrintsInOrder'
    BY <1>1, <2>1, <2>2, <2>3 DEF Protocol, PrintsInOrder
  <2>5. Written' = Written
    <3>1. CASE wres = Fifo!FifoFull
      BY <2>1, <2>3, <3>1 DEF Written, Complete
    <3>2. CASE wres # Fifo!FifoFull /\ i = Last
      BY <2>1, <2>3, <3>2 DEF Written, Complete
    <3>3. CASE wres # Fifo!FifoFull /\ i # Last
      BY <2>1, <2>3, <3>3 DEF Written, Complete
    <3>4. QED
      BY <3>1, <3>2, <3>3
  <2>6. UNCHANGED << InHand, TakesLast >>
    BY <2>1 DEF InHand, TakesLast
  <2>7. QED
    BY <1>1, <2>1, <2>2, <2>3, <2>4, <2>5, <2>6, QuietStep
<1>5. CASE MainInit
  <2>1. /\ mpc = "init" /\ mpc' = "create"
        /\ UNCHANGED << ppc, i, printed, wpc, warg, wres, rpc, pointer >>
        /\ n' = 0 /\ phase' \in { "open", "aborted" }
        /\ Fifo!InitFifo(Size) \/ Fifo!AllocationFails(Size)
    BY <1>5 DEF MainInit, Fifo!InitBy, Fifo!InitFifo, Fifo!AllocationFails,
       Fifo!producerVars, Fifo!consumerVars
  <2>2. Fifo!RingInv'
    BY <1>1, <2>1, FifoStep
  <2>3. /\ ppc = "none" /\ wpc = "idle" /\ rpc = "idle" /\ i = 1
        /\ Len(printed) \in 0 .. Last
    BY <1>1, <2>1 DEF Protocol
  <2>4. Protocol' /\ PrintsInOrder'
    BY <1>1, <2>1, <2>3 DEF Protocol, PrintsInOrder
  <2>5. NoneLost' /\ InOrder' /\ Released'
    <3>1. /\ Len(printed) = 0 /\ Len(printed)' = 0 /\ InHand' = 0 /\ Written' = 0
          /\ ~ TakesLast'
      <4>1. printed = << >>
        BY <1>1, <2>3 DEF Protocol
      <4>2. Len(printed) = 0
        BY <4>1
      <4>3. QED
        BY <1>1, <2>1, <2>3, <4>2 DEF InHand, Written, Complete, TakesLast
    <3>2. QED
      BY <1>1, <2>1, <2>3, <3>1 DEF NoneLost, InOrder, Released
  <2>6. PICK exclusive : Fifo!HB!Access("main", {}, {}, exclusive, {})
    BY <1>5 DEF MainInit, Fifo!InitBy
  <2>7. unseen["main"] = {}
    BY <1>1, <2>3 DEF Apart
  <2>8. races' = races
    BY <2>6, <2>7, NoRace
  <2>9. DOMAIN unseen' = { "producer", "main" } /\ unseen'["main"] = {}
    BY <2>6, <2>7, AccessOutcome
  <2>10. Apart' /\ FreesAfterUse'
    BY <1>1, <2>1, <2>3, <2>8, <2>9 DEF Apart, FreesAfterUse
  <2>11. QED
    BY <2>2, <2>4, <2>5, <2>10 DEF ThreadsInv
<1>6. CASE CreateThread
  <2>1. /\ mpc = "create" /\ mpc' = "loop" /\ ppc' = "loop" /\ phase = "open"
        /\ UNCHANGED << ringVars, i, printed, untold, races >>
        /\ unseen' = [unseen EXCEPT !["producer"] = @ \cap unseen["main"]]
    BY <1>1, <1>6 DEF CreateThread, Fifo!HB!Follow, Protocol
  <2>2. /\ ppc = "none" /\ wpc = "idle" /\ rpc = "idle"
        /\ UNCHANGED << n, phase, wpc, wres, rpc, pointer >>
    BY <1>1, <2>1 DEF Protocol, ringVars
  <2>3. Fifo!RingInv' /\ UNCHANGED Fifo!Queue
    BY <1>1, <2>1, FifoStep, QueueIsSame
  <2>4. Protocol' /\ PrintsInOrder' /\ UNCHANGED << Written, InHand, TakesLast >>
    BY <1>1, <2>1, <2>2
       DEF Protocol, PrintsInOrder, Written, Complete, InHand, TakesLast, ringVars
  <2>5. NoneLost' /\ InOrder'
    BY <1>1, <2>1, <2>2, <2>3, <2>4 DEF NoneLost, InOrder
  <2>6. unseen'["producer"] = {} /\ unseen'["main"] = {}
        /\ DOMAIN unseen' = { "producer", "main" }
    BY <1>1, <2>1, <2>2 DEF Apart
  <2>7. Apart' /\ Released' /\ FreesAfterUse'
    BY <1>1, <2>1, <2>4, <2>6 DEF Apart, Released, FreesAfterUse
  <2>8. QED
    BY <2>3, <2>4, <2>5, <2>7 DEF ThreadsInv
<1>7. CASE TryRead
  <2>1. /\ mpc = "loop" /\ mpc' = "reading" /\ rpc = "idle" /\ rpc' = "enter"
        /\ UNCHANGED << ppc, i, printed, hbVars, wpc, warg, wres >>
        /\ Fifo!CallRead
    BY <1>7 DEF TryRead, Fifo!CallRead, Fifo!producerVars
  <2>2. Fifo!RingInv' /\ UNCHANGED << n, phase, Fifo!Queue >>
    BY <1>1, <2>1, FifoStep, CallsKeepQueue
  <2>3. Protocol' /\ PrintsInOrder' /\ UNCHANGED << Written, InHand >> /\ ~ TakesLast'
    BY <1>1, <2>1, <2>2
       DEF Protocol, PrintsInOrder, Written, Complete, InHand, TakesLast
  <2>4. QED
    BY <2>1, <2>2, <2>3, QuietStep
<1>8. CASE InRead
  <2>1. Fifo!ReadBy("main") /\ rpc # "return" /\ UNCHANGED clientVars
    BY <1>8 DEF InRead
  <2>2. rpc # "idle" /\ mpc = "reading" /\ phase = "open" /\ ppc # "none"
    BY <1>1, <2>1 DEF Protocol, Fifo!ReadBy, Fifo!ReadEmpty, Fifo!ReadHasPointer,
       Fifo!ReadLoad, Fifo!ReadAdvance, Fifo!ReadDecrement, Fifo!ReadReturn
  <2>3. /\ Fifo!ReadStep
        /\ DOMAIN unseen' = { "producer", "main" }
        /\ unseen'["main"] \subseteq unseen["main"]
        /\ rpc' = "load" => unseen'["main"] \subseteq untold[Fifo!Counter]
        /\ unseen'["producer"] \subseteq unseen["producer"] \cup ByMain
        /\ untold'[Fifo!Counter] \cap Uses("producer") \subseteq untold[Fifo!Counter]
        /\ races' = races
    BY <1>1, <2>1, ReadAccess DEF Apart
  <2>4. Fifo!RingInv'
    BY <1>1, <2>3, FifoStep
  <2>5. /\ UNCHANGED << phase, wpc, warg, wres >>
        /\ rpc' \in { "load", "advance", "decrement", "return" }
    BY <1>1, <2>1, <2>3, ReadOutcome
  <2>6. Protocol' /\ PrintsInOrder' /\ FreesAfterUse' /\ Apart' /\ UNCHANGED Written
    BY <1>1, <2>1, <2>2, <2>3, <2>5
       DEF Protocol, PrintsInOrder, FreesAfterUse, Apart, Written, Complete
  <2>7. /\ InHand = 0 /\ Written = Len(printed) + n /\ n \in Nat /\ i \in 1 .. Last
        /\ Written \in { i, i - 1 } /\ Len(printed) \in 0 .. Last - 1
        /\ Fifo!Queue \in Seq(1 .. Last) /\ Len(Fifo!Queue) = n
        /\ \A k \in 1 .. n : Fifo!Queue[k] = Len(printed) + k
    <3>1. InHand = 0
      BY <2>1 DEF InHand
    <3>2. /\ n \in Nat /\ i \in 1 .. Last /\ Len(printed) \in 0 .. Last
          /\ Written \in { i, i - 1 } /\ Written = Len(printed) + n
          /\ Fifo!Queue \in Seq(1 .. Last) /\ Len(Fifo!Queue) = n
      BY <2>2, <3>1, Counts
    <3>3. Len(printed) # Last
      BY <1>1, <2>2 DEF Protocol
    <3>4. \A k \in 1 .. n : Fifo!Queue[k] = Len(printed) + k
      BY <1>1, <2>2, <3>1, <3>2 DEF InOrder
    <3>5. QED
      BY <1>1, <3>1, <3>2, <3>3, <3>4
  <2>8. CASE /\ rpc' \in { "load", "advance", "decrement" }
             /\ rpc' = "load" <=> rpc = "enter"
             /\ UNCHANGED << n, Fifo!Queue >>
    <3>1. InHand' = 0
      BY <2>8 DEF InHand
    <3>2. NoneLost' /\ InOrder'
      BY <1>1, <2>1, <2>2, <2>5, <2>6, <2>7, <2>8, <3>1 DEF NoneLost, InOrder
    <3>3. ASSUME TakesLast'
          PROVE  Uses("producer") \cap unseen'["main"] = {}
      <4>1. CASE rpc' = "load"
        <5>1. n >= 1
          BY <2>4, <2>7, <2>8, <4>1 DEF Fifo!RingInv, Fifo!ChecksStayTrue
        <5>2. Written = Last
          BY <2>1, <2>7, <3>3, <5>1 DEF TakesLast
        <5>3. QED
          BY <1>1, <2>3, <4>1, <5>2 DEF Released
      <4>2. CASE rpc' # "load"
        <5>1. rpc \in { "load", "advance", "decrement" }
          BY <1>1, <2>1, <2>2, <2>8, <4>2 DEF Fifo!RingInv, Fifo!TypeOK
        <5>2. QED
          BY <1>1, <2>1, <2>3, <3>3, <5>1 DEF Released, TakesLast
      <4>3. QED
        BY <4>1, <4>2
    <3>4. Released'
      <4>1. Written' = Last => Uses("producer") \cap untold'[Fifo!Counter] = {}
        BY <1>1, <2>3, <2>6 DEF Released
      <4>2. Len(printed)' + InHand' # Last
        BY <2>1, <2>7, <3>1
      <4>3. QED
        BY <3>3, <4>1, <4>2 DEF Released
    <3>5. QED
      BY <2>4, <2>6, <3>2, <3>4 DEF ThreadsInv
  <2>9. CASE /\ rpc' = "return" /\ pointer' = NULL
             /\ UNCHANGED << n, Fifo!Queue >>
    <3>1. InHand' = 0 /\ ~ TakesLast'
      BY <2>9 DEF InHand, TakesLast
    <3>2. NoneLost' /\ InOrder'
      BY <1>1, <2>1, <2>2, <2>5, <2>6, <2>7, <2>9, <3>1 DEF NoneLost, InOrder
    <3>3. Released'
      <4>1. Written' = Last => Uses("producer") \cap untold'[Fifo!Counter] = {}
        BY <1>1, <2>3, <2>6 DEF Released
      <4>2. Len(printed)' + InHand' # Last
        BY <2>1, <2>7, <3>1
      <4>3. QED
        BY <3>1, <4>1, <4>2 DEF Released
    <3>4. QED
      BY <2>4, <2>6, <3>2, <3>3 DEF ThreadsInv
  <2>10. CASE /\ rpc' = "return" /\ pointer' = Head(Fifo!Queue) /\ n >= 1
              /\ n' = n - 1 /\ Fifo!Queue' = Tail(Fifo!Queue)
              /\ rpc \in { "load", "advance", "decrement" }
    <3>1. pointer' = Len(printed) + 1 /\ pointer' # NULL
      <4>1. 1 \in 1 .. n
        BY <2>7, <2>10
      <4>2. Head(Fifo!Queue) = Fifo!Queue[1]
        BY <2>7, <4>1
      <4>3. Fifo!Queue[1] = Len(printed) + 1
        BY <2>7, <4>1
      <4>4. Len(printed) + 1 \in 1 .. Last
        BY <1>1, <2>7
      <4>5. QED
        BY <1>1, <2>10, <4>2, <4>3, <4>4
    <3>2. InHand' = 1
      BY <2>10, <3>1 DEF InHand
    <3>3. NoneLost'
      BY <1>1, <2>1, <2>6, <2>7, <2>10, <3>2 DEF NoneLost
    <3>4. \A k \in 1 .. n' : Fifo!Queue'[k] = Len(printed) + 1 + k
      <4> SUFFICES ASSUME NEW k \in 1 .. n'
                   PROVE  Fifo!Queue'[k] = Len(printed) + 1 + k
        OBVIOUS
      <4>1. k + 1 \in 1 .. n /\ Fifo!Queue'[k] = Fifo!Queue[k + 1]
        BY <2>7, <2>10
      <4>2. QED
        BY <2>7, <2>10, <4>1
    <3>5. InOrder'
      BY <2>1, <3>1, <3>2, <3>4 DEF InOrder
    <3>6. Released'
      <4>1. Written' = Last => Uses("producer") \cap untold'[Fifo!Counter] = {}
        BY <1>1, <2>3, <2>6 DEF Released
      <4>2. Len(printed) + 1 = Last => TakesLast
        BY <2>10 DEF TakesLast
      <4>3. ~ TakesLast'
        BY <2>10 DEF TakesLast
      <4>4. QED
        BY <1>1, <2>1, <2>3, <3>2, <4>1, <4>2, <4>3 DEF Released
    <3>7. QED
      BY <2>4, <2>6, <3>3, <3>5, <3>6 DEF ThreadsInv
  <2>11. QED
    BY <1>1, <2>1, <2>3, <2>8, <2>9, <2>10, ReadOutcome
<1>9. CASE ReadReturned
  <2>1. /\ rpc = "return" /\ rpc' = "idle" /\ Fifo!ReadReturn
        /\ UNCHANGED << ppc, i, hbVars, wpc, warg, wres >>
        /\ \/ pointer = NULL /\ mpc' = "loop" /\ UNCHANGED printed
           \/ /\ pointer # NULL /\ printed' = Append(printed, pointer)
              /\ mpc' = IF pointer = Last THEN "done" ELSE "loop"
    BY <1>9 DEF ReadReturned, Fifo!ReadReturn, Fifo!producerVars
  <2>2. Fifo!RingInv' /\ UNCHANGED << n, phase, Fifo!Queue >>
    BY <1>1, <2>1, FifoStep, CallsKeepQueue DEF Fifo!ReadStep
  <2>4. /\ mpc = "reading" /\ ppc # "none" /\ phase = "open"
        /\ printed \in Seq(1 .. Last) /\ Len(printed) \in 0 .. Last - 1
        /\ pointer \in { NULL, Len(printed) + 1 }
        /\ i \in 1 .. Last /\ n \in Nat
    BY <1>1, <2>1, Counts DEF Protocol, InOrder
  <2>5. /\ Written' = Written /\ ~ TakesLast' /\ InHand' = 0
        /\ InHand = IF pointer = NULL THEN 0 ELSE 1
    BY <2>1 DEF Written, Complete, TakesLast, InHand
  <2>6. CASE pointer = NULL
    <3>1. Protocol' /\ PrintsInOrder'
      BY <1>1, <2>1, <2>2, <2>4, <2>6 DEF Protocol, PrintsInOrder
    <3>2. QED
      BY <2>1, <2>2, <2>4, <2>5, <2>6, <3>1, QuietStep
  <2>7. CASE pointer # NULL
    <3>1. /\ printed' \in Seq(1 .. Last) /\ Len(printed') = Len(printed) + 1
          /\ \A k \in 1 .. Len(printed) : printed'[k] = printed[k]
          /\ printed'[Len(printed) + 1] = Len(printed) + 1
      <4>1. pointer \in 1 .. Last /\ pointer = Len(printed) + 1
        BY <1>1, <2>4, <2>7
      <4>2. printed' = Append(printed, pointer)
        BY <2>1, <2>7
      <4>3. QED
        BY <2>4, <4>1, <4>2, AppendProperties
    <3>2. Protocol'
      BY <1>1, <2>1, <2>2, <2>4, <2>7, <3>1 DEF Protocol
    <3>3. Len(printed) + 1 <= i
      BY <2>4, <2>5, <2>7, Counts
    <3>4. \A k \in 1 .. Len(printed') : k \in 1 .. Len(printed) \/ k = Len(printed) + 1
      BY <2>4, <3>1
    <3>5. PrintsInOrder'
      BY <1>1, <2>1, <3>1, <3>3, <3>4 DEF PrintsInOrder
    <3>6. Len(printed') + InHand' = Len(printed) + InHand
      BY <2>4, <2>5, <2>7, <3>1
    <3>7. QED
      BY <2>1, <2>2, <2>4, <2>5, <3>2, <3>5, <3>6, QuietStep
  <2>8. QED
    BY <2>6, <2>7
<1>10. CASE MainDone
  <2>1. /\ mpc = "done" /\ mpc' = "join" /\ Fifo!DoneBy("main") /\ Fifo!Done
        /\ phase' = "done"
        /\ UNCHANGED << ppc, i, printed, n, wpc, warg, wres, rpc, pointer >>
    BY <1>10 DEF MainDone, Fifo!DoneBy, Fifo!Done, Fifo!producerVars, Fifo!consumerVars
  <2>2. /\ phase = "open" /\ rpc = "idle" /\ ppc # "none" /\ Len(printed) = Last
        /\ i \in 1 .. Last
    BY <1>1, <2>1 DEF Protocol
  <2>3. InHand = 0
    BY <2>2 DEF InHand
  <2>4. Complete /\ n = 0 /\ i = Last
    BY <1>1, <2>1, <2>2, <2>3, LastIsWritten
  <2>5. wpc \in { "idle", "return" }
    BY <1>1, <2>4 DEF Complete, Protocol
  <2>6. Fifo!RingInv'
    BY <1>1, <2>1, <2>2, <2>5, DoneKeepsRing
  <2>7. Protocol' /\ PrintsInOrder' /\ UNCHANGED << Written, InHand, TakesLast >>
    BY <1>1, <2>1, <2>2
       DEF Protocol, PrintsInOrder, Written, Complete, InHand, TakesLast
  <2>8. NoneLost' /\ InOrder'
    BY <1>1, <2>1, <2>2, <2>7 DEF NoneLost, InOrder
  <2>9. Uses("producer") \cap unseen["main"] = {}
    BY <1>1, <2>2, <2>3 DEF Released
  <2>10. /\ DOMAIN unseen' = { "producer", "main" }
         /\ unseen'["main"] \subseteq unseen["main"]
         /\ untold'[Fifo!Counter] \cap Uses("producer") \subseteq untold[Fifo!Counter]
         /\ races' = races
    BY <1>1, <2>1, <2>9, DoneAccess DEF Apart
  <2>11. Apart' /\ Released' /\ FreesAfterUse'
    BY <1>1, <2>1, <2>2, <2>7, <2>9, <2>10 DEF Apart, Released, FreesAfterUse
  <2>12. QED
    BY <2>6, <2>7, <2>8, <2>11 DEF ThreadsInv
<1>11. CASE Join
  <2>1. /\ mpc = "join" /\ mpc' = "end" /\ ppc = "quit"
        /\ UNCHANGED << ringVars, ppc, i, printed, untold, races >>
        /\ unseen' = [unseen EXCEPT !["main"] = @ \cap unseen["producer"]]
    BY <1>11 DEF Join, Fifo!HB!Follow
  <2>2. Fifo!RingInv' /\ UNCHANGED Fifo!Queue
    BY <1>1, <2>1, FifoStep, QueueIsSame
  <2>3. /\ Protocol' /\ PrintsInOrder' /\ UNCHANGED << Written, InHand, TakesLast >>
        /\ UNCHANGED << n, phase, rpc, pointer >>
    BY <1>1, <2>1
       DEF ringVars, Protocol, PrintsInOrder, Written, Complete, InHand, TakesLast
  <2>4. NoneLost' /\ InOrder'
    BY <1>1, <2>1, <2>2, <2>3 DEF NoneLost, InOrder
  <2>5. /\ DOMAIN unseen' = { "producer", "main" }
        /\ unseen'["main"] \subseteq unseen["main"]
    BY <1>1, <2>1 DEF Apart
  <2>6. Apart' /\ Released' /\ FreesAfterUse'
    BY <1>1, <2>1, <2>3, <2>5 DEF Apart, Released, FreesAfterUse
  <2>7. QED
    BY <2>2, <2>3, <2>4, <2>6 DEF ThreadsInv
<1>12. CASE Ended \/ UNCHANGED vars
  <2>1. UNCHANGED vars
    BY <1>12 DEF Ended
  <2>2. Fifo!RingInv' /\ UNCHANGED Fifo!Queue
    BY <1>1, <2>1, FifoStep, QueueIsSame DEF vars
  <2>3. /\ Protocol' /\ PrintsInOrder' /\ UNCHANGED << Written, InHand, TakesLast >>
    BY <1>1, <2>1
       DEF vars, ringVars, Protocol, PrintsInOrder, Written, Complete, InHand, TakesLast
  <2>4. QED
    BY <2>1, <2>2, <2>3, QuietStep DEF vars, ringVars
<1>13. QED
  BY <1>2, <1>3, <1>4, <1>5, <1>6, <1>7, <1>8, <1>9, <1>10, <1>11, <1>12
     DEF Next, Producer, Main

(* The invariant holds in all reachable states.                            *)
THEOREM ThreadsCorrect == Spec => []ThreadsInv
BY InitThreads, ThreadsStep, PTL DEF Spec

(* The main thread frees the storage before it has joined the producer,    *)
(* but by then the producer is through with all that touches the fifo in   *)
(* its last _write, and no other call follows.                             *)
THEOREM ProducerIsQuiet == Spec => []QuietAfterDone
<1>1. ThreadsInv => QuietAfterDone
  <2> SUFFICES ASSUME ThreadsInv, phase = "done"
               PROVE  /\ wpc \in { "idle", "return" } /\ rpc = "idle"
                      /\ ppc = "writing" => wres = Fifo!Stored /\ i = Last
                      /\ ppc # "loop"
    BY DEF QuietAfterDone
  <2>1. /\ mpc \in { "join", "end" } /\ rpc = "idle" /\ Len(printed) = Last
        /\ ppc # "none" /\ (wpc # "idle" <=> ppc = "writing")
    BY DEF ThreadsInv, Protocol
  <2>2. InHand = 0
    BY <2>1 DEF InHand
  <2>3. Complete /\ i = Last
    BY <2>1, <2>2, Counts, LastIsWritten
  <2>4. QED
    BY <2>1, <2>3 DEF Complete
<1>2. QED
  BY <1>1, ThreadsCorrect, PTL

(* Freeing the storage, which the producer has not been joined for, races  *)
(* with none of its accesses: its last update of n and the load of n by    *)
(* the main thread order them.                                             *)
THEOREM StorageIsReleased == Spec => []FreesAfterUse
<1>1. ThreadsInv => FreesAfterUse
  BY DEF ThreadsInv
<1>2. QED
  BY <1>1, ThreadsCorrect, PTL

(* The main thread prints 1, 2, 3 .. and nothing not yet written.          *)
THEOREM OutputInOrder == Spec => []PrintsInOrder
<1>1. ThreadsInv => PrintsInOrder
  BY DEF ThreadsInv
<1>2. QED
  BY <1>1, ThreadsCorrect, PTL

=============================================================================
