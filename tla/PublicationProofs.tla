-------------------------- MODULE PublicationProofs --------------------------
(***************************************************************************)
(* Proofs about Publication, for all sizes of the fifo, any number of      *)
(* items, all integer widths and allocators, and both programs: every item *)
(* arrives once, complete and in order, there is no data race on items,    *)
(* fifo or storage, and nothing is left when the main thread ends.         *)
(***************************************************************************)
EXTENDS Publication, SequenceTheorems, TLAPS

(* The lemmas about the dynamic fifo, for the items as pointers.           *)
Lemmas == INSTANCE PointerFifoProofs WITH
            Sizes <- {Size}, Pointers <- Items, Observers <- {}

-----------------------------------------------------------------------------
(* The inductive invariant: what the threads may be doing,                 *)
Protocol ==
  /\ ppc \in { "none", "fill", "write", "writing", "exit" }
  /\ mpc \in { "init", "create", "read", "reading", "examine", "join", "done", "end" }
  /\ ppc = "none" <=> mpc \in { "init", "create" }
  /\ mpc = "init" => phase = "raw"
  /\ mpc = "create" => phase \in { "open", "aborted" }
  /\ mpc \in { "read", "reading", "examine", "join", "done" } => phase = "open"
  /\ mpc = "end" => phase = "done"
  /\ mpc \in { "done", "end" } => ppc = "exit"
  /\ wpc # "idle" <=> ppc = "writing"
  /\ rpc # "idle" <=> mpc = "reading"
  /\ i \in 0 .. N_ITEMS
  /\ i = N_ITEMS <=> ppc = "exit"
  /\ wpc # "idle" => warg = i
  /\ wpc = "return" => wres # Fifo!NullPointer
  /\ received \in 0 .. N_ITEMS /\ expect = received
  /\ received = N_ITEMS <=> mpc \in { "join", "done", "end" }
  /\ mpc = "examine" => item = received
  /\ ppc = "none" => i = 0 /\ received = 0

(* that no item is lost or doubled: those whose write took effect are      *)
(* received, in the fifo, or in the hands of the main thread, in order,    *)
Written  == IF wpc = "return" /\ wres = Fifo!Stored THEN i + 1 ELSE i
InHand   == IF mpc = "examine" \/ (rpc = "return" /\ pointer # NULL) THEN 1 ELSE 0
NoneLost == mpc # "init" => Written = received + n + InHand

InOrder ==
  /\ phase = "open" => \A k \in 1 .. n : Fifo!Queue[k] = received + InHand + k - 1
  /\ rpc = "return" => pointer \in { NULL, received }

(* what of the accesses of one thread the other may not have seen, until   *)
(* the producer is joined,                                                 *)
Filling(k) == << Item(k), "exclusive", "producer" >>
Looking(k) == << Item(k), "shared", "main" >>

FifoBy(t, index) ==
  { << Fifo!Field("storage"), "shared", t >>, << Fifo!Block, "shared", t >>,
    << Fifo!Counter, "shared", t >>, << Fifo!Field("size"), "shared", t >>,
    << Fifo!Field(index), "shared", t >>, << Fifo!Field(index), "exclusive", t >> }

FifoByProducer == FifoBy("producer", "write")
FifoByMain     == FifoBy("main", "read")

ByProducer == FifoByProducer \cup { Filling(k) : k \in Items }
ByMain     == FifoByMain \cup { Looking(k) : k \in 0 .. received - 1 }

Apart ==
  /\ DOMAIN unseen = { "producer", "main" }
  /\ unseen["main"] \subseteq ByProducer
  /\ ppc # "none" /\ mpc # "end" => unseen["producer"] \subseteq ByMain
  /\ ppc = "none" \/ mpc \in { "done", "end" } => unseen["main"] = {}

(* and that a load of n shows all fillings of items whose write took       *)
(* effect, so that an item that was taken has been seen.                   *)
Published ==
  \A k \in Items : Filling(k) \in untold[Fifo!Counter] => k >= Written

Taken == rpc \in { "load", "advance", "decrement" } \/ InHand = 1

Seen == Taken => Filling(received) \notin unseen["main"]

PublicationInv ==
  /\ Fifo!RingInv
  /\ Protocol /\ NoneLost /\ InOrder
  /\ Apart /\ Published /\ Seen
  /\ NoRaces /\ NothingCorrupt

-----------------------------------------------------------------------------
(* The fifo of the client.                                                 *)

(* What the lemmas assume of the constants.                                *)
LEMMA Assumptions ==
  Lemmas!WidthAssumption /\ Lemmas!SizesAssumption /\ Lemmas!PointerAssumption
BY FifoAssumption DEF Lemmas!WidthAssumption, Lemmas!SizesAssumption,
   Lemmas!PointerAssumption, Fifo!WidthAssumption, Fifo!SizesAssumption,
   Fifo!PointerAssumption

(* Both instances of the fifo have the same queue,                         *)
LEMMA SameQueue == Fifo!Queue = Lemmas!Queue /\ Fifo!Queue' = Lemmas!Queue'
BY DEF Fifo!Queue, Fifo!At, Fifo!Oldest, Fifo!Back, Lemmas!Queue, Lemmas!At,
   Lemmas!Oldest, Lemmas!Back

(* the same invariant,                                                     *)
LEMMA SameInvariant ==
  /\ Fifo!RingInv <=> Lemmas!RingInv
  /\ Fifo!RingInv' <=> Lemmas!RingInv'
BY DEF Fifo!RingInv, Fifo!TypeOK, Fifo!OwnsOneBlock, Fifo!BlockFitsSize,
   Fifo!ClosedIsQuiet, Fifo!NullStopped, Fifo!ChecksStayTrue,
   Fifo!IndicesMatchCount, Fifo!SlotsHoldPointers, Fifo!TakenPointerIntact,
   Fifo!Stored, Fifo!FifoFull, Fifo!NullPointer, Fifo!At, Fifo!Oldest, Fifo!Back,
   Lemmas!RingInv, Lemmas!TypeOK, Lemmas!OwnsOneBlock, Lemmas!BlockFitsSize,
   Lemmas!ClosedIsQuiet, Lemmas!NullStopped, Lemmas!ChecksStayTrue,
   Lemmas!IndicesMatchCount, Lemmas!SlotsHoldPointers, Lemmas!TakenPointerIntact,
   Lemmas!Stored, Lemmas!FifoFull, Lemmas!NullPointer, Lemmas!At, Lemmas!Oldest,
   Lemmas!Back

(* and the same steps.                                                     *)
LEMMA SameCalls ==
  /\ Fifo!WriteStep <=> Lemmas!WriteStep
  /\ Fifo!ReadStep <=> Lemmas!ReadStep
  /\ Fifo!WriteReturn <=> Lemmas!WriteReturn
  /\ Fifo!ReadReturn <=> Lemmas!ReadReturn
  /\ Fifo!CallRead <=> Lemmas!CallRead
  /\ \A p : Fifo!CallWrite(p) <=> Lemmas!CallWrite(p)
BY DEF Fifo!CallWrite, Fifo!WriteStep, Fifo!WriteNull, Fifo!WriteFull,
   Fifo!WriteHasRoom, Fifo!WriteStore, Fifo!WriteAdvance, Fifo!WriteIncrement,
   Fifo!WriteReturn, Fifo!CallRead, Fifo!ReadStep, Fifo!ReadEmpty,
   Fifo!ReadHasPointer, Fifo!ReadLoad, Fifo!ReadAdvance, Fifo!ReadDecrement,
   Fifo!ReadReturn, Fifo!Count, Fifo!Wrap, Fifo!vars, Fifo!fifoVars, Fifo!heapVars,
   Fifo!producerVars, Fifo!consumerVars, Fifo!Stored, Fifo!FifoFull,
   Fifo!NullPointer,
   Lemmas!CallWrite, Lemmas!WriteStep, Lemmas!WriteNull, Lemmas!WriteFull,
   Lemmas!WriteHasRoom, Lemmas!WriteStore, Lemmas!WriteAdvance,
   Lemmas!WriteIncrement, Lemmas!WriteReturn, Lemmas!CallRead, Lemmas!ReadStep,
   Lemmas!ReadEmpty, Lemmas!ReadHasPointer, Lemmas!ReadLoad, Lemmas!ReadAdvance,
   Lemmas!ReadDecrement, Lemmas!ReadReturn, Lemmas!Count, Lemmas!Wrap, Lemmas!vars,
   Lemmas!fifoVars, Lemmas!heapVars, Lemmas!producerVars, Lemmas!consumerVars,
   Lemmas!Stored, Lemmas!FifoFull, Lemmas!NullPointer

(* init, with and without memory, and done.                                *)
LEMMA SameLifeCycle ==
  /\ Fifo!InitFifo(Size) <=> Lemmas!InitFifo(Size)
  /\ Fifo!AllocationFails(Size) <=> Lemmas!AllocationFails(Size)
  /\ Fifo!Done <=> Lemmas!Done
BY DEF Fifo!InitFifo, Fifo!AllocationFails, Fifo!Asserted, Fifo!CellsOf,
   Fifo!CanInit, Fifo!Idle, Fifo!NoCells, Fifo!Done, Fifo!Release, Fifo!heapVars,
   Fifo!producerVars, Fifo!consumerVars,
   Lemmas!InitFifo, Lemmas!AllocationFails, Lemmas!Asserted, Lemmas!CellsOf,
   Lemmas!CanInit, Lemmas!Idle, Lemmas!NoCells, Lemmas!Done, Lemmas!Release,
   Lemmas!heapVars, Lemmas!producerVars, Lemmas!consumerVars

(* The invariant holds before init.                                        *)
LEMMA FifoStarts == Fifo!Init => Fifo!RingInv
<1>1. Fifo!Init <=> Lemmas!Init
  BY DEF Fifo!Init, Fifo!Stored, Fifo!NoCells, Lemmas!Init, Lemmas!Stored, Lemmas!NoCells
<1>2. QED
  BY <1>1, Assumptions, Lemmas!InitRing, SameInvariant

(* The steps the programs take keep the invariant of the fifo.             *)
LEMMA FifoStep ==
  ASSUME Fifo!RingInv,
         \/ Fifo!InitFifo(Size) \/ Fifo!AllocationFails(Size)
         \/ \E p \in Items : Fifo!CallWrite(p)
         \/ Fifo!WriteStep \/ Fifo!CallRead \/ Fifo!ReadStep
         \/ UNCHANGED ringVars
  PROVE  Fifo!RingInv'
<1>1. CASE UNCHANGED ringVars
  <2>1. UNCHANGED Lemmas!vars
    BY <1>1 DEF ringVars, Lemmas!vars, Lemmas!fifoVars, Lemmas!heapVars,
       Lemmas!producerVars, Lemmas!consumerVars
  <2>2. QED
    BY <2>1, Assumptions, Lemmas!RingStep, SameInvariant
<1>2. CASE \/ Fifo!InitFifo(Size) \/ Fifo!AllocationFails(Size)
           \/ \E p \in Items : Fifo!CallWrite(p)
           \/ Fifo!WriteStep \/ Fifo!CallRead \/ Fifo!ReadStep
  <2>1. Lemmas!Next
    BY <1>2, SameCalls, SameLifeCycle DEF Lemmas!Next
  <2>2. QED
    BY <2>1, Assumptions, Lemmas!RingStep, SameInvariant
<1>3. QED
  BY <1>1, <1>2

(* So does done.                                                           *)
LEMMA DoneKeepsRing ==
  ASSUME Fifo!RingInv, Fifo!Done, phase = "open",
         wpc \in { "idle", "return" }, rpc \in { "idle", "return" }
  PROVE  Fifo!RingInv'
<1>1. storage # Garbage
  BY FifoAssumption DEF Fifo!RingInv, Fifo!OwnsOneBlock, Fifo!PointerAssumption
<1>2. QED
  BY <1>1, Assumptions, Lemmas!DoneKeepsRing, SameInvariant, SameLifeCycle

(* The queue of an open fifo has as many pointers as the counter says.     *)
LEMMA QueueIsSeq ==
  ASSUME Fifo!RingInv, phase = "open"
  PROVE  Fifo!Queue \in Seq(Items) /\ Len(Fifo!Queue) = n /\ n \in Nat
<1>1. n \in Nat
  BY FifoAssumption DEF Fifo!RingInv, Fifo!TypeOK, Fifo!WidthAssumption
<1>2. QED
  BY <1>1, Assumptions, Lemmas!QueueIsSeq, SameInvariant, SameQueue

(* What a step of a call does, when it does not return.                    *)
LEMMA WriteOutcome ==
  ASSUME Fifo!RingInv, Fifo!WriteStep, wpc # "return"
  PROVE  /\ phase = "open" /\ UNCHANGED << phase, storage, warg, rpc, pointer >>
         /\ \/ /\ wpc' \in { "store", "advance", "increment" }
               /\ UNCHANGED << n, Fifo!Queue >>
            \/ /\ wpc' = "return" /\ wres' = Fifo!NullPointer /\ warg = NULL
               /\ UNCHANGED << n, Fifo!Queue >>
            \/ /\ wpc' = "return" /\ wres' = Fifo!FifoFull
               /\ UNCHANGED << n, Fifo!Queue >>
            \/ /\ wpc' = "return" /\ wres' = Fifo!Stored
               /\ n' = n + 1 /\ Fifo!Queue' = Append(Fifo!Queue, warg)
BY Assumptions, Lemmas!WriteOutcome, SameInvariant, SameCalls, SameQueue
   DEF Fifo!Stored, Fifo!FifoFull, Fifo!NullPointer, Lemmas!Stored, Lemmas!FifoFull,
   Lemmas!NullPointer

(* What a step of _read does, when it does not return: at the decrement,   *)
(* and only there, the head is removed.                                    *)
LEMMA ReadOutcome ==
  ASSUME Fifo!RingInv, Fifo!ReadStep, rpc # "return"
  PROVE  /\ phase = "open" /\ UNCHANGED << phase, storage, wpc, warg, wres >>
         /\ \/ /\ rpc' \in { "load", "advance", "decrement" }
               /\ rpc' = "load" <=> rpc = "enter"
               /\ UNCHANGED << n, Fifo!Queue >>
            \/ /\ rpc' = "return" /\ pointer' = NULL
               /\ UNCHANGED << n, Fifo!Queue >>
            \/ /\ rpc' = "return" /\ pointer' = Head(Fifo!Queue) /\ n >= 1
               /\ n' = n - 1 /\ Fifo!Queue' = Tail(Fifo!Queue)
               /\ rpc \in { "load", "advance", "decrement" }
<1>1. size \in Nat
  BY FifoAssumption DEF Fifo!RingInv, Fifo!TypeOK, Fifo!WidthAssumption
<1>2. n \in 1 .. size => n >= 1
  BY <1>1
<1>3. QED
  BY <1>2, Assumptions, Lemmas!ReadOutcome, SameInvariant, SameCalls, SameQueue

(* Neither to enter a call nor to return from one moves a pointer.         *)
LEMMA CallsKeepQueue ==
  ASSUME Fifo!RingInv,
         \/ \E p : Fifo!CallWrite(p)
         \/ Fifo!WriteReturn \/ Fifo!CallRead \/ Fifo!ReadReturn
  PROVE  UNCHANGED << n, phase, storage, Fifo!Queue >>
BY Assumptions, Lemmas!CallsKeepQueue, SameInvariant, SameCalls, SameQueue

-----------------------------------------------------------------------------
(* What a call that was made accesses.                                     *)

(* The accesses of one step of t.                                          *)
Accesses(t, shared, exclusive) ==
  (shared \X {"shared"} \X {t}) \cup (exclusive \X {"exclusive"} \X {t})

(* They reach the other thread unseen, and a load of n that does not see   *)
(* them; a step sees at most what is untold at what it loads.              *)
LEMMA AccessOutcome ==
  ASSUME NEW t \in { "producer", "main" }, NEW u \in { "producer", "main" }, t # u,
         NEW from, NEW shared, NEW exclusive, NEW to,
         Fifo!HB!Access(t, from, shared, exclusive, to)
  PROVE  /\ DOMAIN unseen' = { "producer", "main" }
         /\ unseen'[t] \subseteq unseen[t]
         /\ Fifo!Counter \in from => unseen'[t] \subseteq untold[Fifo!Counter]
         /\ unseen'[u] = unseen[u] \cup Accesses(t, shared, exclusive)
         /\ Fifo!Counter \notin to =>
              untold'[Fifo!Counter] = untold[Fifo!Counter] \cup Accesses(t, shared, exclusive)
         /\ Fifo!Counter \in to => untold'[Fifo!Counter] = unseen'[t]
BY DEF Fifo!HB!Access, Accesses

(* There is no race if all that t has not seen is compatible with what it  *)
(* does now.                                                               *)
LEMMA NoRace ==
  ASSUME NEW t \in { "producer", "main" },
         NEW from, NEW shared, NEW exclusive, NEW to,
         Fifo!HB!Access(t, from, shared, exclusive, to),
         \A a \in unseen[t] : /\ a[1] \notin exclusive
                              /\ a[1] \in shared => a[2] # "exclusive"
  PROVE  races' = races
BY DEF Fifo!HB!Access

(* The locations of the fifo and of the items are all different.           *)
LEMMA Locations ==
  /\ Fifo!Counter # Fifo!Field("write") /\ Fifo!Counter # Fifo!Field("read")
  /\ Fifo!Field("write") # Fifo!Field("read")
  /\ \A k : \A f \in { "n", "write", "read", "size", "storage", "block" } :
       Item(k) # Fifo!Field(f)
  /\ \A j, k : Item(j) = Item(k) => j = k
BY DEF Fifo!Counter, Fifo!Field, Item

(* The accesses of _write are compatible with those of _read, and with the *)
(* main thread's looks into items.                                         *)
LEMMA ProducerAccess ==
  ASSUME NEW from, NEW shared, NEW exclusive, NEW to,
         Fifo!HB!Access("producer", from, shared, exclusive, to),
         shared \subseteq { Fifo!Counter, Fifo!Field("size"), Fifo!Field("write"),
                            Fifo!Field("storage"), Fifo!Block },
         exclusive \subseteq { Fifo!Field("write") },
         unseen["producer"] \subseteq ByMain
  PROVE  /\ DOMAIN unseen' = { "producer", "main" }
         /\ unseen'["producer"] \subseteq unseen["producer"]
         /\ unseen'["main"] \subseteq unseen["main"] \cup FifoByProducer
         /\ Fifo!Counter \notin to =>
              untold'[Fifo!Counter] \subseteq untold[Fifo!Counter] \cup FifoByProducer
         /\ Fifo!Counter \in to => untold'[Fifo!Counter] = unseen'["producer"]
         /\ races' = races
<1>1. Accesses("producer", shared, exclusive) \subseteq FifoByProducer
  BY DEF Accesses, FifoByProducer, FifoBy
<1>2. \A a \in unseen["producer"] :
        /\ a[1] \notin exclusive
        /\ a[1] \in shared => a[2] # "exclusive"
  BY DEF ByMain, FifoByMain, FifoBy, Looking, Item, Fifo!Counter, Fifo!Field, Fifo!Block
<1>3. races' = races
  BY <1>2, NoRace
<1>4. QED
  BY <1>1, <1>3, AccessOutcome

(* And those of _read with those of _write, and with the filling of items. *)
LEMMA MainAccess ==
  ASSUME NEW from, NEW shared, NEW exclusive, NEW to,
         Fifo!HB!Access("main", from, shared, exclusive, to),
         shared \subseteq { Fifo!Counter, Fifo!Field("size"), Fifo!Field("read"),
                            Fifo!Field("storage"), Fifo!Block },
         exclusive \subseteq { Fifo!Field("read") },
         Fifo!Counter \in to => Fifo!Counter \in from,
         unseen["main"] \subseteq ByProducer
  PROVE  /\ DOMAIN unseen' = { "producer", "main" }
         /\ unseen'["main"] \subseteq unseen["main"]
         /\ Fifo!Counter \in from => unseen'["main"] \subseteq untold[Fifo!Counter]
         /\ unseen'["producer"] \subseteq unseen["producer"] \cup FifoByMain
         /\ untold'[Fifo!Counter] \subseteq untold[Fifo!Counter] \cup FifoByMain
         /\ races' = races
<1>1. Accesses("main", shared, exclusive) \subseteq FifoByMain
  BY DEF Accesses, FifoByMain, FifoBy
<1>2. \A a \in unseen["main"] :
        /\ a[1] \notin exclusive
        /\ a[1] \in shared => a[2] # "exclusive"
  BY DEF ByProducer, FifoByProducer, FifoBy, Filling, Item, Fifo!Counter, Fifo!Field,
     Fifo!Block
<1>3. races' = races
  BY <1>2, NoRace
<1>4. QED
  BY <1>1, <1>3, AccessOutcome

(* What _write accesses, and what of it a load of n may not show.          *)
LEMMA WriteAccess ==
  ASSUME wpc # "return", Fifo!WriteBy("producer"),
         DOMAIN unseen = { "producer", "main" },
         unseen["producer"] \subseteq ByMain
  PROVE  /\ Fifo!WriteStep
         /\ DOMAIN unseen' = { "producer", "main" }
         /\ unseen'["producer"] \subseteq unseen["producer"]
         /\ unseen'["main"] \subseteq unseen["main"] \cup FifoByProducer
         /\ \/ untold'[Fifo!Counter] \subseteq untold[Fifo!Counter] \cup FifoByProducer
            \/ untold'[Fifo!Counter] \subseteq ByMain
         /\ wpc' = "return" /\ wres' = Fifo!Stored =>
              untold'[Fifo!Counter] \subseteq ByMain
         /\ races' = races
<1>1. CASE /\ Fifo!WriteNull \/ Fifo!WriteReturn
           /\ UNCHANGED Fifo!hbVars
  BY <1>1 DEF Fifo!hbVars, Fifo!WriteStep, Fifo!WriteNull, Fifo!WriteReturn,
     Fifo!NullPointer, Fifo!Stored
<1>2. CASE /\ Fifo!WriteFull \/ Fifo!WriteHasRoom
           /\ Fifo!HB!Access("producer", {Fifo!Counter},
                             { Fifo!Counter, Fifo!Field("size") }, {}, {})
  <2>1. ~ (wpc' = "return" /\ wres' = Fifo!Stored)
    BY <1>2 DEF Fifo!WriteFull, Fifo!WriteHasRoom, Fifo!FifoFull, Fifo!Stored
  <2>2. QED
    BY <1>2, <2>1, ProducerAccess DEF Fifo!WriteStep
<1>3. CASE /\ Fifo!WriteStore
           /\ Fifo!HB!Access("producer", {},
                { Fifo!Field("write"), Fifo!Field("storage"), Fifo!Block }, {},
                {Fifo!Slot(write)})
  <2>1. wpc' = "advance" /\ Fifo!Counter # Fifo!Slot(write)
    BY <1>3 DEF Fifo!WriteStore, Fifo!Counter, Fifo!Field, Fifo!Slot
  <2>2. QED
    BY <1>3, <2>1, ProducerAccess DEF Fifo!WriteStep
<1>4. CASE /\ Fifo!WriteAdvance
           /\ Fifo!HB!Access("producer", {}, {Fifo!Field("size")}, {Fifo!Field("write")}, {})
  <2>1. wpc' = "increment"
    BY <1>4 DEF Fifo!WriteAdvance
  <2>2. QED
    BY <1>4, <2>1, ProducerAccess DEF Fifo!WriteStep
<1>5. CASE /\ Fifo!WriteIncrement
           /\ Fifo!HB!Access("producer", {Fifo!Counter}, {Fifo!Counter}, {}, {Fifo!Counter})
  BY <1>5, ProducerAccess DEF Fifo!WriteStep
<1>6. QED
  BY <1>1, <1>2, <1>3, <1>4, <1>5 DEF Fifo!WriteBy

(* What _read accesses; a load of n shows what is not untold.              *)
LEMMA ReadAccess ==
  ASSUME rpc # "return", Fifo!ReadBy("main"),
         DOMAIN unseen = { "producer", "main" },
         unseen["main"] \subseteq ByProducer
  PROVE  /\ Fifo!ReadStep
         /\ DOMAIN unseen' = { "producer", "main" }
         /\ unseen'["main"] \subseteq unseen["main"]
         /\ rpc' = "load" => unseen'["main"] \subseteq untold[Fifo!Counter]
         /\ unseen'["producer"] \subseteq unseen["producer"] \cup FifoByMain
         /\ untold'[Fifo!Counter] \subseteq untold[Fifo!Counter] \cup FifoByMain
         /\ races' = races
<1>1. CASE /\ Fifo!ReadEmpty \/ Fifo!ReadHasPointer
           /\ Fifo!HB!Access("main", {Fifo!Counter}, {Fifo!Counter}, {}, {})
  BY <1>1, MainAccess DEF Fifo!ReadStep
<1>2. CASE /\ Fifo!ReadLoad
           /\ Fifo!HB!Access("main", {Fifo!Slot(read)},
                { Fifo!Field("read"), Fifo!Field("storage"), Fifo!Block }, {}, {})
  <2>1. rpc' = "advance"
    BY <1>2 DEF Fifo!ReadLoad
  <2>2. QED
    BY <1>2, <2>1, MainAccess DEF Fifo!ReadStep
<1>3. CASE /\ Fifo!ReadAdvance
           /\ Fifo!HB!Access("main", {}, {Fifo!Field("size")}, {Fifo!Field("read")}, {})
  <2>1. rpc' = "decrement"
    BY <1>3 DEF Fifo!ReadAdvance
  <2>2. QED
    BY <1>3, <2>1, MainAccess DEF Fifo!ReadStep
<1>4. CASE /\ Fifo!ReadDecrement
           /\ Fifo!HB!Access("main", {Fifo!Counter}, {Fifo!Counter}, {}, {Fifo!Counter})
  BY <1>4, MainAccess DEF Fifo!ReadStep
<1>5. QED
  BY <1>1, <1>2, <1>3, <1>4 DEF Fifo!ReadBy, Fifo!ReadReturn

-----------------------------------------------------------------------------
(* The invariant is inductive.                                             *)

(* What it says of the numbers in play, and of accesses to items.          *)
LEMMA Counts ==
  ASSUME PublicationInv
  PROVE  /\ N_ITEMS \in Nat \ {0} /\ NULL \notin Items
         /\ i \in 0 .. N_ITEMS /\ received \in 0 .. N_ITEMS
         /\ Written \in Nat /\ InHand \in 0 .. 1 /\ n \in Nat
         /\ mpc # "init" => Written = received + n + InHand
         /\ rpc \in { "load", "advance", "decrement" } => n >= 1
         /\ phase = "open" => Fifo!Queue \in Seq(Items) /\ Len(Fifo!Queue) = n
         /\ wpc # "return" => Written = i
<1>1. /\ N_ITEMS \in Nat \ {0} /\ NULL \notin Items
      /\ i \in 0 .. N_ITEMS /\ received \in 0 .. N_ITEMS
  BY ItemsAssumption, FifoAssumption
     DEF PublicationInv, Protocol, Fifo!PointerAssumption
<1>2. Written \in Nat /\ InHand \in 0 .. 1 /\ (wpc # "return" => Written = i)
  BY <1>1 DEF Written, InHand
<1>3. n \in Nat
  BY FifoAssumption DEF PublicationInv, Fifo!RingInv, Fifo!TypeOK, Fifo!WidthAssumption
<1>4. rpc \in { "load", "advance", "decrement" } => n >= 1
  BY <1>3 DEF PublicationInv, Fifo!RingInv, Fifo!ChecksStayTrue
<1>5. QED
  BY <1>1, <1>2, <1>3, <1>4, QueueIsSeq DEF PublicationInv, NoneLost

(* To fill an item is not among the accesses to the fifo.                  *)
LEMMA Fillings ==
  /\ \A k : Filling(k) \notin FifoByProducer
  /\ \A k : Filling(k) \notin FifoByMain
  /\ \A k : Filling(k) \notin ByMain
  /\ \A j, k : Filling(j) = Filling(k) => j = k
<1>1. /\ \A k : Filling(k) \notin FifoByProducer
      /\ \A k : Filling(k) \notin FifoByMain
      /\ \A j, k : Filling(j) = Filling(k) => j = k
  BY DEF Filling, Item, FifoByProducer, FifoByMain, FifoBy, Fifo!Counter, Fifo!Field,
     Fifo!Block
<1>2. \A k : Filling(k) \notin ByMain
  BY <1>1 DEF ByMain, Filling, Looking
<1>3. QED
  BY <1>1, <1>2

(* The queue is in the fields of the fifo.                                 *)
LEMMA QueueIsSame ==
  ASSUME UNCHANGED ringVars
  PROVE  UNCHANGED Fifo!Queue
BY DEF ringVars, Fifo!Queue, Fifo!At, Fifo!Oldest, Fifo!Back

(* The invariant holds before the fifo is initialized.                     *)
LEMMA InitPublication == Init => PublicationInv
<1> SUFFICES ASSUME Init
             PROVE  PublicationInv
  OBVIOUS
<1>1. Fifo!RingInv
  BY FifoStarts DEF Init, Fifo!OrderedInit
<1>2. /\ wpc = "idle" /\ rpc = "idle" /\ phase = "raw"
      /\ ppc = "none" /\ i = 0 /\ mpc = "init"
      /\ expect = 0 /\ received = 0 /\ corrupt = 0
      /\ unseen = [t \in { "producer", "main" } |-> {}]
      /\ untold[Fifo!Counter] = {} /\ races = {}
  BY DEF Init, Fifo!OrderedInit, Fifo!Init, Fifo!HB!HBInit
<1>3. Protocol
  BY <1>2, ItemsAssumption DEF Protocol
<1>4. NoneLost /\ InOrder /\ Apart /\ Published /\ Seen /\ NoRaces /\ NothingCorrupt
  BY <1>2 DEF NoneLost, InOrder, Apart, Published, Seen, NoRaces, NothingCorrupt
<1>5. QED
  BY <1>1, <1>3, <1>4 DEF PublicationInv

(* A step that neither accesses memory nor moves an item.                  *)
LEMMA QuietStep ==
  ASSUME PublicationInv, Fifo!RingInv', Protocol',
         UNCHANGED << hbVars, received, corrupt, n, phase, Fifo!Queue, Written, InHand >>,
         mpc' = "init" <=> mpc = "init", ppc' = "none" <=> ppc = "none",
         mpc' \in { "done", "end" } <=> mpc \in { "done", "end" },
         mpc' = "end" <=> mpc = "end",
         rpc' = "return" => rpc = "return" /\ pointer' = pointer,
         Taken' => Taken
  PROVE  PublicationInv'
<1>1. NoneLost' /\ InOrder'
  BY DEF PublicationInv, NoneLost, InOrder
<1>2. Apart' /\ Published' /\ Seen' /\ NoRaces' /\ NothingCorrupt'
  BY DEF PublicationInv, hbVars, Apart, Published, Seen, ByMain, NoRaces, NothingCorrupt
<1>3. QED
  BY <1>1, <1>2 DEF PublicationInv

(* Every step of either thread keeps it.                                   *)
LEMMA PublicationStep == PublicationInv /\ [Next]_vars => PublicationInv'
<1> SUFFICES ASSUME PublicationInv, [Next]_vars
             PROVE  PublicationInv'
  OBVIOUS
<1> USE DEF clientVars, countVars
<1>1. /\ Fifo!RingInv /\ Protocol /\ NoneLost /\ InOrder
      /\ Apart /\ Published /\ Seen /\ NoRaces /\ NothingCorrupt
      /\ N_ITEMS \in Nat \ {0} /\ NULL \notin Items
  BY Counts DEF PublicationInv
<1>2. CASE MainInit
  <2>1. /\ mpc = "init" /\ mpc' = "create"
        /\ UNCHANGED << program, ppc, i, item, countVars, wpc, warg, wres, rpc, pointer >>
        /\ n' = 0 /\ phase' \in { "open", "aborted" }
        /\ Fifo!InitFifo(Size) \/ Fifo!AllocationFails(Size)
    BY <1>2 DEF MainInit, Fifo!InitBy, Fifo!InitFifo, Fifo!AllocationFails,
       Fifo!producerVars, Fifo!consumerVars
  <2>2. Fifo!RingInv'
    BY <1>1, <2>1, FifoStep
  <2>3. ppc = "none" /\ wpc = "idle" /\ rpc = "idle" /\ i = 0 /\ received = 0
    BY <1>1, <2>1 DEF Protocol
  <2>4. Protocol' /\ NothingCorrupt'
    BY <1>1, <2>1, <2>3 DEF Protocol, NothingCorrupt
  <2>5. Written' = 0 /\ InHand' = 0 /\ ~ Taken'
    BY <2>1, <2>3 DEF Written, InHand, Taken
  <2>6. NoneLost' /\ InOrder' /\ Published' /\ Seen'
    BY <1>1, <2>1, <2>3, <2>5 DEF NoneLost, InOrder, Published, Seen, Items
  <2>7. PICK exclusive : Fifo!HB!Access("main", {}, {}, exclusive, {})
    BY <1>2 DEF MainInit, Fifo!InitBy
  <2>8. unseen["main"] = {}
    BY <1>1, <2>3 DEF Apart
  <2>9. races' = races
    BY <2>7, <2>8, NoRace
  <2>10. DOMAIN unseen' = { "producer", "main" } /\ unseen'["main"] = {}
    BY <2>7, <2>8, AccessOutcome
  <2>11. Apart' /\ NoRaces'
    BY <1>1, <2>1, <2>3, <2>9, <2>10 DEF Apart, NoRaces
  <2>12. QED
    BY <2>2, <2>4, <2>6, <2>11 DEF PublicationInv
<1>3. CASE CreateThread
  <2>1. /\ mpc = "create" /\ mpc' = "read" /\ ppc' = "fill" /\ phase = "open"
        /\ UNCHANGED << ringVars, program, i, item, countVars, untold, races >>
        /\ unseen' = [unseen EXCEPT !["producer"] = @ \cap unseen["main"]]
    BY <1>1, <1>3 DEF CreateThread, Fifo!HB!Follow, Protocol
  <2>2. /\ ppc = "none" /\ i = 0 /\ received = 0 /\ 0 # N_ITEMS
        /\ wpc = "idle" /\ rpc = "idle"
        /\ UNCHANGED << n, phase, wpc, warg, wres, rpc, pointer >>
    BY <1>1, <2>1 DEF Protocol, ringVars
  <2>3. Fifo!RingInv' /\ UNCHANGED Fifo!Queue
    BY <1>1, <2>1, FifoStep, QueueIsSame
  <2>4. Protocol' /\ NothingCorrupt' /\ NoRaces' /\ UNCHANGED << Written, InHand, Taken >>
    BY <1>1, <2>1, <2>2
       DEF Protocol, NothingCorrupt, NoRaces, Written, InHand, Taken
  <2>5. NoneLost' /\ InOrder' /\ Published'
    BY <1>1, <2>1, <2>2, <2>3, <2>4 DEF NoneLost, InOrder, Published
  <2>6. unseen'["producer"] = {} /\ unseen'["main"] = {}
        /\ DOMAIN unseen' = { "producer", "main" }
    BY <1>1, <2>1, <2>2 DEF Apart
  <2>7. Apart' /\ Seen'
    BY <2>6 DEF Apart, Seen
  <2>8. QED
    BY <2>3, <2>4, <2>5, <2>7 DEF PublicationInv
<1>4. CASE FillItem
  <2>1. /\ ppc = "fill" /\ ppc' = "write"
        /\ UNCHANGED << ringVars, program, i, mpc, item, countVars >>
        /\ Fifo!HB!Access("producer", {}, {}, {Item(i)}, {})
    BY <1>4 DEF FillItem
  <2>2. /\ mpc \notin { "init", "create", "done", "end" } /\ wpc = "idle"
        /\ i \in Items /\ Written = i /\ received + InHand <= i
        /\ UNCHANGED << n, phase, wpc, warg, wres, rpc, pointer >>
    BY <1>1, <2>1, Counts DEF Protocol, Items, ringVars
  <2>3. Fifo!RingInv' /\ UNCHANGED Fifo!Queue
    BY <1>1, <2>1, FifoStep, QueueIsSame
  <2>4. Protocol' /\ NothingCorrupt' /\ UNCHANGED << Written, InHand, Taken >>
    BY <1>1, <2>1, <2>2 DEF Protocol, NothingCorrupt, Written, InHand, Taken
  <2>5. NoneLost' /\ InOrder'
    BY <1>1, <2>1, <2>2, <2>3, <2>4 DEF NoneLost, InOrder
  <2>6. \A a \in unseen["producer"] : a[1] # Item(i)
    <3>1. unseen["producer"] \subseteq ByMain
      BY <1>1, <2>1, <2>2 DEF Apart
    <3>2. \A a \in FifoByMain : a[1] # Item(i)
      BY DEF FifoByMain, FifoBy, Item, Fifo!Counter, Fifo!Field, Fifo!Block
    <3>3. \A k \in 0 .. received - 1 : Looking(k)[1] # Item(i)
      <4>1. \A k \in 0 .. received - 1 : k # i
        BY <2>2, Counts
      <4>2. QED
        BY <4>1, Locations DEF Looking
    <3>4. QED
      BY <3>1, <3>2, <3>3 DEF ByMain
  <2>7. races' = races
    BY <2>1, <2>6, NoRace
  <2>8. /\ DOMAIN unseen' = { "producer", "main" }
        /\ unseen'["producer"] \subseteq unseen["producer"]
        /\ unseen'["main"] \subseteq unseen["main"] \cup {Filling(i)}
        /\ untold'[Fifo!Counter] \subseteq untold[Fifo!Counter] \cup {Filling(i)}
    <3>1. Accesses("producer", {}, {Item(i)}) = {Filling(i)}
      BY DEF Accesses, Filling
    <3>2. /\ DOMAIN unseen' = { "producer", "main" }
          /\ unseen'["producer"] \subseteq unseen["producer"]
          /\ unseen'["main"] = unseen["main"] \cup Accesses("producer", {}, {Item(i)})
          /\ untold'[Fifo!Counter]
               = untold[Fifo!Counter] \cup Accesses("producer", {}, {Item(i)})
      BY <2>1, AccessOutcome
    <3>3. QED
      BY <3>1, <3>2
  <2>9. Apart' /\ NoRaces'
    BY <1>1, <2>1, <2>2, <2>7, <2>8 DEF Apart, ByProducer, ByMain, NoRaces
  <2>10. Published'
    BY <1>1, <2>2, <2>4, <2>8, Counts, Fillings DEF Published
  <2>11. Seen'
    <3>1. Taken => received < i
      BY <2>2, Counts DEF Taken
    <3>2. received # i => Filling(received) # Filling(i)
      BY Fillings
    <3>3. QED
      BY <1>1, <2>1, <2>2, <2>4, <2>8, <3>1, <3>2, Counts DEF Seen
  <2>12. QED
    BY <2>3, <2>4, <2>5, <2>9, <2>10, <2>11 DEF PublicationInv
<1>5. CASE TryWrite
  <2>1. /\ ppc = "write" /\ ppc' = "writing" /\ wpc = "idle" /\ wpc' = "enter" /\ warg' = i
        /\ UNCHANGED << program, i, mpc, item, countVars, hbVars, rpc, pointer >>
        /\ Fifo!CallWrite(i)
    BY <1>5 DEF TryWrite, Fifo!CallWrite, Fifo!consumerVars
  <2>2. i \in Items
    BY <1>1, <2>1 DEF Protocol, Items
  <2>3. Fifo!RingInv' /\ UNCHANGED << n, phase, Fifo!Queue >>
    BY <1>1, <2>1, <2>2, FifoStep, CallsKeepQueue
  <2>4. Protocol' /\ UNCHANGED << Written, InHand, Taken >>
    BY <1>1, <2>1, <2>3 DEF Protocol, Written, InHand, Taken
  <2>5. QED
    BY <2>1, <2>3, <2>4, QuietStep
<1>6. CASE InWrite
  <2>1. Fifo!WriteBy("producer") /\ wpc # "return" /\ UNCHANGED clientVars
    BY <1>6 DEF InWrite
  <2>2. wpc # "idle" /\ ppc = "writing" /\ warg = i /\ i \in Items /\ warg # NULL
    <3>1. wpc # "idle"
      BY <2>1 DEF Fifo!WriteBy, Fifo!WriteNull, Fifo!WriteFull, Fifo!WriteHasRoom,
         Fifo!WriteStore, Fifo!WriteAdvance, Fifo!WriteIncrement, Fifo!WriteReturn
    <3>2. QED
      BY <1>1, <3>1 DEF Protocol, Items
  <2>3. phase = "open" /\ mpc \notin { "init", "create", "done", "end" }
    BY <1>1, <2>1, <2>2 DEF Protocol, Fifo!RingInv, Fifo!ClosedIsQuiet
  <2>4. /\ Fifo!WriteStep
        /\ DOMAIN unseen' = { "producer", "main" }
        /\ unseen'["producer"] \subseteq unseen["producer"]
        /\ unseen'["main"] \subseteq unseen["main"] \cup FifoByProducer
        /\ \/ untold'[Fifo!Counter] \subseteq untold[Fifo!Counter] \cup FifoByProducer
           \/ untold'[Fifo!Counter] \subseteq ByMain
        /\ wpc' = "return" /\ wres' = Fifo!Stored =>
             untold'[Fifo!Counter] \subseteq ByMain
        /\ races' = races
    BY <1>1, <2>1, <2>2, <2>3, WriteAccess DEF Apart
  <2>5. Fifo!RingInv'
    BY <1>1, <2>4, FifoStep
  <2>6. /\ UNCHANGED << phase, rpc, pointer, warg >>
        /\ wpc' \in { "store", "advance", "increment", "return" }
        /\ wpc' = "return" => wres' # Fifo!NullPointer
    BY <1>1, <2>1, <2>2, <2>4, WriteOutcome
       DEF Fifo!Stored, Fifo!FifoFull, Fifo!NullPointer
  <2>7. Protocol' /\ NothingCorrupt' /\ NoRaces' /\ Written = i
        /\ UNCHANGED << InHand, Taken >>
    BY <1>1, <2>1, <2>2, <2>4, <2>6
       DEF Protocol, NothingCorrupt, NoRaces, Written, InHand, Taken
  <2>8. Apart' /\ Seen'
    BY <1>1, <2>1, <2>2, <2>3, <2>4, <2>7, Fillings DEF Apart, ByProducer, ByMain, Seen
  <2>9. CASE Written' = Written /\ UNCHANGED << n, Fifo!Queue >>
    <3>1. Published'
      BY <1>1, <2>4, <2>9, Fillings DEF Published
    <3>2. NoneLost' /\ InOrder'
      BY <1>1, <2>1, <2>6, <2>7, <2>9 DEF NoneLost, InOrder
    <3>3. QED
      BY <2>5, <2>7, <2>8, <3>1, <3>2 DEF PublicationInv
  <2>10. CASE /\ wpc' = "return" /\ wres' = Fifo!Stored
              /\ n' = n + 1 /\ Fifo!Queue' = Append(Fifo!Queue, warg)
    <3>1. Published'
      BY <2>4, <2>10, Fillings DEF Published
    <3>2. Written' = i + 1
      BY <2>1, <2>10 DEF Written
    <3>3. /\ i = received + n + InHand
          /\ received \in Nat /\ InHand \in Nat /\ n \in Nat /\ i \in Nat
          /\ Fifo!Queue \in Seq(Items) /\ Len(Fifo!Queue) = n
      BY <2>3, <2>7, Counts
    <3>4. NoneLost'
      BY <2>1, <2>7, <2>10, <3>2, <3>3 DEF NoneLost
    <3>5. \A k \in 1 .. n' : Fifo!Queue'[k] = received + InHand + k - 1
      <4>1. \A k \in 1 .. n' : k \in 1 .. n \/ k = n + 1
        BY <2>10, <3>3
      <4>2. \A k \in 1 .. n : Fifo!Queue'[k] = Fifo!Queue[k]
        BY <2>2, <2>10, <3>3
      <4>3. Fifo!Queue'[n + 1] = i
        BY <2>2, <2>10, <3>3
      <4>4. i = received + InHand + (n + 1) - 1
        BY <3>3
      <4>5. QED
        BY <1>1, <2>3, <4>1, <4>2, <4>3, <4>4 DEF InOrder
    <3>6. InOrder'
      BY <1>1, <2>1, <2>6, <2>7, <3>5 DEF InOrder
    <3>7. QED
      BY <2>5, <2>7, <2>8, <3>1, <3>4, <3>6 DEF PublicationInv
  <2>11. \/ Written' = Written /\ UNCHANGED << n, Fifo!Queue >>
         \/ /\ wpc' = "return" /\ wres' = Fifo!Stored
            /\ n' = n + 1 /\ Fifo!Queue' = Append(Fifo!Queue, warg)
    <3>1. Written' = Written \/ (wpc' = "return" /\ wres' = Fifo!Stored)
      BY <2>1, <2>7 DEF Written
    <3>2. Fifo!Stored # Fifo!FifoFull /\ Fifo!Stored # Fifo!NullPointer
      BY DEF Fifo!NullPointer, Fifo!Stored, Fifo!FifoFull
    <3>3. QED
      BY <1>1, <2>1, <2>4, <3>1, <3>2, WriteOutcome
  <2>12. QED
    BY <2>9, <2>10, <2>11
<1>7. CASE WriteReturned
  <2>1. /\ wpc = "return" /\ wpc' = "idle" /\ Fifo!WriteReturn
        /\ UNCHANGED << program, mpc, item, countVars, hbVars, rpc, pointer >>
        /\ \/ wres = Fifo!FifoFull /\ ppc' = "write" /\ UNCHANGED i
           \/ /\ wres # Fifo!FifoFull /\ i' = i + 1
              /\ ppc' = IF i + 1 < N_ITEMS THEN "fill" ELSE "exit"
    BY <1>7 DEF WriteReturned, NextItem, Fifo!WriteReturn, Fifo!consumerVars
  <2>2. Fifo!RingInv' /\ UNCHANGED << n, phase, Fifo!Queue >>
    BY <1>1, <2>1, FifoStep, CallsKeepQueue DEF Fifo!WriteStep
  <2>3. /\ ppc = "writing" /\ wres \in { Fifo!FifoFull, Fifo!Stored }
        /\ Fifo!FifoFull # Fifo!Stored /\ i \in 0 .. N_ITEMS - 1
    BY <1>1, <2>1 DEF Protocol, Fifo!RingInv, Fifo!TypeOK, Fifo!FifoFull, Fifo!Stored,
       Fifo!NullPointer
  <2>4. Protocol'
    BY <1>1, <2>1, <2>2, <2>3 DEF Protocol
  <2>5. UNCHANGED << Written, InHand, Taken >>
    BY <2>1, <2>3 DEF Written, InHand, Taken
  <2>6. ppc' # "none"
    BY <2>1
  <2>7. QED
    BY <2>1, <2>2, <2>3, <2>4, <2>5, <2>6, QuietStep
<1>8. CASE TryRead
  <2>1. /\ mpc = "read" /\ mpc' = "reading" /\ rpc = "idle" /\ rpc' = "enter"
        /\ UNCHANGED << program, ppc, i, item, countVars, hbVars, wpc, warg, wres >>
        /\ Fifo!CallRead
    BY <1>8 DEF TryRead, Fifo!CallRead, Fifo!producerVars
  <2>2. Fifo!RingInv' /\ UNCHANGED << n, phase, Fifo!Queue >>
    BY <1>1, <2>1, FifoStep, CallsKeepQueue
  <2>3. Protocol' /\ UNCHANGED << Written, InHand, Taken >>
    BY <1>1, <2>1, <2>2 DEF Protocol, Written, InHand, Taken
  <2>4. QED
    BY <2>1, <2>2, <2>3, QuietStep
<1>9. CASE InRead
  <2>1. Fifo!ReadBy("main") /\ rpc # "return" /\ UNCHANGED clientVars
    BY <1>9 DEF InRead
  <2>2. rpc # "idle" /\ mpc = "reading" /\ phase = "open" /\ ppc # "none"
    <3>1. rpc # "idle"
      BY <2>1 DEF Fifo!ReadBy, Fifo!ReadEmpty, Fifo!ReadHasPointer, Fifo!ReadLoad,
         Fifo!ReadAdvance, Fifo!ReadDecrement, Fifo!ReadReturn
    <3>2. QED
      BY <1>1, <3>1 DEF Protocol
  <2>3. /\ Fifo!ReadStep
        /\ DOMAIN unseen' = { "producer", "main" }
        /\ unseen'["main"] \subseteq unseen["main"]
        /\ rpc' = "load" => unseen'["main"] \subseteq untold[Fifo!Counter]
        /\ unseen'["producer"] \subseteq unseen["producer"] \cup FifoByMain
        /\ untold'[Fifo!Counter] \subseteq untold[Fifo!Counter] \cup FifoByMain
        /\ races' = races
    BY <1>1, <2>1, ReadAccess DEF Apart
  <2>4. Fifo!RingInv'
    BY <1>1, <2>3, FifoStep
  <2>5. /\ UNCHANGED << phase, wpc, warg, wres >>
        /\ rpc' \in { "load", "advance", "decrement", "return" }
    BY <1>1, <2>1, <2>3, ReadOutcome
  <2>6. Protocol' /\ NothingCorrupt' /\ NoRaces' /\ UNCHANGED Written /\ InHand = 0
    BY <1>1, <2>1, <2>2, <2>3, <2>5
       DEF Protocol, NothingCorrupt, NoRaces, Written, InHand
  <2>7. Apart' /\ Published'
    BY <1>1, <2>1, <2>2, <2>3, <2>6, Fillings DEF Apart, ByMain, Published
  <2>8. /\ Written = received + n /\ n \in Nat /\ received \in Items
        /\ Fifo!Queue \in Seq(Items) /\ Len(Fifo!Queue) = n
        /\ \A k \in 1 .. n : Fifo!Queue[k] = received + k - 1
    <3>1. Written = received + n + InHand /\ received \in 0 .. N_ITEMS
      BY <2>2, Counts
    <3>2. /\ n \in Nat /\ Fifo!Queue \in Seq(Items) /\ Len(Fifo!Queue) = n
      BY <2>2, Counts
    <3>3. received # N_ITEMS
      BY <1>1, <2>2 DEF Protocol
    <3>4. received \in Items /\ Written = received + n
      BY <1>1, <2>6, <3>1, <3>2, <3>3 DEF Items
    <3>5. \A k \in 1 .. n : Fifo!Queue[k] = received + InHand + k - 1
      BY <1>1, <2>2 DEF InOrder
    <3>6. received + InHand = received
      BY <2>6, <3>1
    <3>7. QED
      BY <3>2, <3>4, <3>5, <3>6
  <2>9. CASE /\ rpc' \in { "load", "advance", "decrement" }
             /\ rpc' = "load" <=> rpc = "enter"
             /\ UNCHANGED << n, Fifo!Queue >>
    <3>1. InHand' = 0
      BY <2>1, <2>2, <2>9 DEF InHand
    <3>2. NoneLost' /\ InOrder'
      BY <1>1, <2>1, <2>5, <2>6, <2>9, <3>1 DEF NoneLost, InOrder
    <3>3. Filling(received) \notin unseen'["main"]
      <4>1. CASE rpc' = "load"
        <5>1. n >= 1
          BY <2>4, <2>8, <2>9, <4>1 DEF Fifo!RingInv, Fifo!ChecksStayTrue
        <5>2. ~ (received >= Written)
          BY <2>8, <5>1 DEF Items
        <5>3. QED
          BY <1>1, <2>3, <2>8, <4>1, <5>2 DEF Published
      <4>2. CASE rpc' # "load"
        <5>1. rpc \in { "load", "advance", "decrement" }
          BY <1>1, <2>1, <2>2, <2>9, <4>2 DEF Fifo!RingInv, Fifo!TypeOK
        <5>2. QED
          BY <1>1, <2>3, <5>1 DEF Seen, Taken
      <4>3. QED
        BY <4>1, <4>2
    <3>4. Seen'
      BY <2>1, <3>3 DEF Seen, Filling
    <3>5. QED
      BY <2>4, <2>6, <2>7, <3>2, <3>4 DEF PublicationInv
  <2>10. CASE /\ rpc' = "return" /\ pointer' = NULL
              /\ UNCHANGED << n, Fifo!Queue >>
    <3>1. InHand' = 0 /\ ~ Taken'
      BY <2>1, <2>2, <2>10 DEF InHand, Taken
    <3>2. NoneLost' /\ InOrder' /\ Seen'
      BY <1>1, <2>1, <2>5, <2>6, <2>10, <3>1 DEF NoneLost, InOrder, Seen
    <3>3. QED
      BY <2>4, <2>6, <2>7, <3>2 DEF PublicationInv
  <2>11. CASE /\ rpc' = "return" /\ pointer' = Head(Fifo!Queue) /\ n >= 1
              /\ n' = n - 1 /\ Fifo!Queue' = Tail(Fifo!Queue)
              /\ rpc \in { "load", "advance", "decrement" }
    <3>1. pointer' = received /\ pointer' # NULL
      <4>1. 1 \in 1 .. n
        BY <2>8, <2>11
      <4>2. Head(Fifo!Queue) = Fifo!Queue[1]
        BY <2>8, <4>1
      <4>3. Fifo!Queue[1] = received
        BY <2>8, <4>1 DEF Items
      <4>4. QED
        BY <1>1, <2>8, <2>11, <4>2, <4>3
    <3>2. InHand' = 1
      BY <2>11, <3>1 DEF InHand
    <3>3. NoneLost'
      BY <2>1, <2>6, <2>8, <2>11, <3>2 DEF NoneLost, Items
    <3>4. \A k \in 1 .. n' : Fifo!Queue'[k] = received + 1 + k - 1
      <4> SUFFICES ASSUME NEW k \in 1 .. n'
                   PROVE  Fifo!Queue'[k] = received + 1 + k - 1
        OBVIOUS
      <4>1. k + 1 \in 1 .. n /\ Fifo!Queue'[k] = Fifo!Queue[k + 1]
        BY <2>8, <2>11
      <4>2. QED
        BY <2>8, <2>11, <4>1 DEF Items
    <3>5. InOrder'
      BY <2>1, <3>1, <3>2, <3>4 DEF InOrder
    <3>6. Seen'
      BY <1>1, <2>1, <2>3, <2>11 DEF Seen, Taken, Filling
    <3>7. QED
      BY <2>4, <2>6, <2>7, <3>3, <3>5, <3>6 DEF PublicationInv
  <2>12. QED
    BY <1>1, <2>1, <2>3, <2>9, <2>10, <2>11, ReadOutcome
<1>10. CASE ReadReturned
  <2>1. /\ rpc = "return" /\ rpc' = "idle" /\ Fifo!ReadReturn
        /\ item' = pointer /\ mpc' = IF pointer = NULL THEN "read" ELSE "examine"
        /\ UNCHANGED << program, ppc, i, countVars, hbVars, wpc, warg, wres >>
    BY <1>10 DEF ReadReturned, Fifo!ReadReturn, Fifo!producerVars
  <2>2. Fifo!RingInv' /\ UNCHANGED << n, phase, Fifo!Queue >>
    BY <1>1, <2>1, FifoStep, CallsKeepQueue DEF Fifo!ReadStep
  <2>3. mpc = "reading" /\ pointer \in { NULL, received }
    BY <1>1, <2>1 DEF Protocol, InOrder
  <2>4. Protocol'
    BY <1>1, <2>1, <2>2, <2>3 DEF Protocol
  <2>5. UNCHANGED << Written, InHand, Taken >>
    BY <2>1, <2>3 DEF Written, InHand, Taken
  <2>6. QED
    BY <2>1, <2>2, <2>3, <2>4, <2>5, QuietStep
<1>11. CASE Examine
  <2>1. /\ mpc = "examine" /\ received' = received + 1
        /\ mpc' = IF received + 1 >= N_ITEMS THEN "join" ELSE "read"
        /\ UNCHANGED << ringVars, program, ppc, i, item >>
        /\ Fifo!HB!Access("main", {}, {Item(item)}, {}, {})
        /\ \E value \in Values, torn \in MaybeTorn :
             CheckPublication(value, torn) \/ CheckStress(value, torn)
    BY <1>11 DEF Examine, Enough
  <2>2. /\ item = received /\ received \in Items /\ ppc # "none" /\ expect = received
        /\ InHand = 1 /\ rpc = "idle" /\ mpc' \notin { "init", "create", "done", "end" }
        /\ UNCHANGED << n, phase, wpc, warg, wres, rpc, pointer >>
    BY <1>1, <2>1 DEF Protocol, Items, InHand, ringVars
  <2>3. ~ (\E a \in unseen["main"] : a[1] = Item(item) /\ a[2] = "exclusive")
    <3>1. Filling(item) \notin unseen["main"]
      BY <1>1, <2>2 DEF Seen, Taken
    <3>2. \A a \in FifoByProducer : a[1] # Item(item)
      BY DEF FifoByProducer, FifoBy, Item, Fifo!Counter, Fifo!Field, Fifo!Block
    <3>3. \A k : Filling(k)[1] = Item(item) => Filling(k) = Filling(item)
      BY Locations DEF Filling
    <3>4. QED
      BY <1>1, <3>1, <3>2, <3>3 DEF Apart, ByProducer
  <2>4. races' = races
    BY <2>1, <2>3, NoRace
  <2>5. corrupt' = corrupt /\ expect' = expect + 1
    <3>1. Values = {expect} /\ MaybeTorn = {FALSE}
      BY <2>2, <2>3 DEF Values, MaybeTorn, MaybeStale
    <3>2. CheckPublication(expect, FALSE) \/ CheckStress(expect, FALSE)
      BY <2>1, <3>1
    <3>3. corrupt = 0
      BY <1>1 DEF NothingCorrupt
    <3>4. QED
      BY <3>2, <3>3 DEF CheckPublication, CheckStress, Faults
  <2>6. /\ DOMAIN unseen' = { "producer", "main" }
        /\ unseen'["main"] \subseteq unseen["main"]
        /\ unseen'["producer"] \subseteq unseen["producer"] \cup {Looking(received)}
        /\ untold'[Fifo!Counter] \subseteq untold[Fifo!Counter] \cup {Looking(received)}
    <3>1. Accesses("main", {Item(received)}, {}) = {Looking(received)}
      BY DEF Accesses, Looking
    <3>2. Fifo!HB!Access("main", {}, {Item(received)}, {}, {})
      BY <2>1, <2>2
    <3>3. /\ DOMAIN unseen' = { "producer", "main" }
          /\ unseen'["main"] \subseteq unseen["main"]
          /\ unseen'["producer"]
               = unseen["producer"] \cup Accesses("main", {Item(received)}, {})
          /\ untold'[Fifo!Counter]
               = untold[Fifo!Counter] \cup Accesses("main", {Item(received)}, {})
      BY <3>2 DEF Fifo!HB!Access, Accesses
    <3>4. QED
      BY <3>1, <3>3
  <2>7. Fifo!RingInv' /\ UNCHANGED Fifo!Queue
    BY <1>1, <2>1, FifoStep, QueueIsSame
  <2>8. UNCHANGED Written /\ InHand' = 0 /\ ~ Taken'
    BY <2>1, <2>2 DEF Written, InHand, Taken
  <2>9. Protocol'
    BY <1>1, <2>1, <2>2, <2>5 DEF Protocol, Items
  <2>10. NoneLost' /\ InOrder'
    <3>1. received' + InHand' = received + InHand
      BY <2>1, <2>2, <2>8 DEF Items
    <3>2. Written = received + n + InHand /\ n \in Nat /\ received \in Nat
      BY <2>1, Counts
    <3>3. NoneLost'
      BY <2>1, <2>2, <2>8, <3>2 DEF NoneLost
    <3>4. phase = "open" => \A k \in 1 .. n : Fifo!Queue[k] = (received' + InHand') + k - 1
      BY <1>1, <3>1 DEF InOrder
    <3>5. QED
      BY <2>2, <2>7, <3>3, <3>4 DEF InOrder
  <2>11. Apart'
    <3>1. received \in 0 .. received' - 1 /\ 0 .. received - 1 \subseteq 0 .. received' - 1
      BY <2>1, <2>2 DEF Items
    <3>2. ByMain \cup {Looking(received)} \subseteq ByMain'
      BY <3>1 DEF ByMain, Looking
    <3>3. QED
      BY <1>1, <2>1, <2>2, <2>6, <3>2 DEF Apart
  <2>12. Published'
    BY <1>1, <2>6, <2>8 DEF Published, Filling, Looking
  <2>13. Seen' /\ NoRaces' /\ NothingCorrupt'
    BY <1>1, <2>4, <2>5, <2>8 DEF Seen, NoRaces, NothingCorrupt
  <2>14. QED
    BY <2>7, <2>9, <2>10, <2>11, <2>12, <2>13 DEF PublicationInv
<1>12. CASE Join
  <2>1. /\ mpc = "join" /\ ppc = "exit" /\ mpc' = "done"
        /\ UNCHANGED << ringVars, program, ppc, i, item, countVars, untold, races >>
        /\ unseen' = [unseen EXCEPT !["main"] = @ \cap unseen["producer"]]
    BY <1>12 DEF Join, Fifo!HB!Follow
  <2>2. Fifo!RingInv' /\ UNCHANGED Fifo!Queue
    BY <1>1, <2>1, FifoStep, QueueIsSame
  <2>3. /\ Protocol' /\ NothingCorrupt' /\ NoRaces' /\ UNCHANGED << Written, InHand, Taken >>
        /\ UNCHANGED << n, phase, rpc, pointer >>
    BY <1>1, <2>1
       DEF ringVars, Protocol, NothingCorrupt, NoRaces, Written, InHand, Taken
  <2>4. NoneLost' /\ InOrder' /\ Published'
    BY <1>1, <2>1, <2>2, <2>3 DEF NoneLost, InOrder, Published
  <2>5. ByProducer \cap ByMain = {}
    <3>1. \A a \in ByProducer : a[3] = "producer"
      BY DEF ByProducer, FifoByProducer, FifoBy, Filling
    <3>2. \A a \in ByMain : a[3] = "main"
      BY DEF ByMain, FifoByMain, FifoBy, Looking
    <3>3. QED
      BY <3>1, <3>2
  <2>6. /\ DOMAIN unseen' = { "producer", "main" }
        /\ unseen'["producer"] = unseen["producer"] /\ unseen'["main"] = {}
    BY <1>1, <2>1, <2>5 DEF Apart
  <2>7. Apart' /\ Seen'
    BY <1>1, <2>1, <2>6 DEF Apart, ByMain, Seen
  <2>8. QED
    BY <2>2, <2>3, <2>4, <2>7 DEF PublicationInv
<1>13. CASE MainDone
  <2>1. /\ mpc = "done" /\ mpc' = "end" /\ Fifo!DoneBy("main") /\ Fifo!Done
        /\ phase' = "done"
        /\ UNCHANGED << program, ppc, i, item, countVars, n, wpc, warg, wres, rpc, pointer >>
    BY <1>13 DEF MainDone, Fifo!DoneBy, Fifo!Done, Fifo!producerVars, Fifo!consumerVars
  <2>2. /\ phase = "open" /\ rpc = "idle" /\ wpc = "idle" /\ ppc = "exit"
        /\ unseen["main"] = {}
    BY <1>1, <2>1 DEF Protocol, Apart
  <2>3. Fifo!RingInv'
    BY <1>1, <2>1, <2>2, DoneKeepsRing
  <2>4. Protocol' /\ NothingCorrupt' /\ UNCHANGED << Written, InHand, Taken >>
    BY <1>1, <2>1, <2>2 DEF Protocol, NothingCorrupt, Written, InHand, Taken
  <2>5. NoneLost' /\ InOrder'
    BY <1>1, <2>1, <2>2, <2>4 DEF NoneLost, InOrder
  <2>6. PICK shared, exclusive : Fifo!HB!Access("main", {}, shared, exclusive, {})
    <3>1. CASE storage = NULL
      BY <2>1, <3>1 DEF Fifo!DoneBy
    <3>2. CASE storage # NULL
      BY <2>1, <3>2 DEF Fifo!DoneBy
    <3>3. QED
      BY <3>1, <3>2
  <2>7. races' = races
    BY <2>2, <2>6, NoRace
  <2>8. /\ DOMAIN unseen' = { "producer", "main" } /\ unseen'["main"] = {}
        /\ untold'[Fifo!Counter] = untold[Fifo!Counter] \cup Accesses("main", shared, exclusive)
    BY <2>2, <2>6, AccessOutcome
  <2>9. \A k : Filling(k) \notin Accesses("main", shared, exclusive)
    BY DEF Filling, Accesses
  <2>10. Apart' /\ Published' /\ Seen' /\ NoRaces'
    BY <1>1, <2>1, <2>2, <2>4, <2>7, <2>8, <2>9 DEF Apart, Published, Seen, NoRaces
  <2>11. QED
    BY <2>3, <2>4, <2>5, <2>10 DEF PublicationInv
<1>14. CASE Ended \/ UNCHANGED vars
  <2>1. UNCHANGED vars
    BY <1>14 DEF Ended
  <2>2. Fifo!RingInv' /\ UNCHANGED Fifo!Queue
    BY <1>1, <2>1, FifoStep, QueueIsSame DEF vars
  <2>3. Protocol' /\ UNCHANGED << Written, InHand, Taken >>
    BY <1>1, <2>1 DEF vars, ringVars, Protocol, Written, InHand, Taken
  <2>4. QED
    BY <2>1, <2>2, <2>3, QuietStep DEF vars, ringVars
<1>15. QED
  BY <1>2, <1>3, <1>4, <1>5, <1>6, <1>7, <1>8, <1>9, <1>10, <1>11, <1>12, <1>13, <1>14
     DEF Next, Producer, Main

(* The invariant holds in all reachable states, for both programs.         *)
THEOREM PublicationCorrect == Spec => []PublicationInv
BY InitPublication, PublicationStep, PTL DEF Spec

(* The counter of the fifo orders what the threads do to items, fields and *)
(* storage; what remains, thread creation and join order.                  *)
THEOREM NoDataRace == Spec => []NoRaces
<1>1. PublicationInv => NoRaces
  BY DEF PublicationInv
<1>2. QED
  BY <1>1, PublicationCorrect, PTL

(* The main thread finds every item complete and in its order: neither     *)
(* program ever counts a fault.                                            *)
THEOREM ItemsIntact == Spec => []NothingCorrupt
<1>1. PublicationInv => NothingCorrupt
  BY DEF PublicationInv
<1>2. QED
  BY <1>1, PublicationCorrect, PTL

(* When the storage is freed all items that were written are received, the *)
(* fifo is empty and nothing is left to free.                              *)
THEOREM AllHandedOver == Spec => []NothingLeftBehind
<1>1. PublicationInv => NothingLeftBehind
  <2> SUFFICES ASSUME PublicationInv, phase = "done"
               PROVE  n = 0 /\ received = i /\ i = N_ITEMS /\ live = {}
    BY DEF NothingLeftBehind
  <2>1. /\ mpc = "end" /\ ppc = "exit" /\ i = N_ITEMS /\ received = N_ITEMS
        /\ wpc = "idle"
    BY DEF PublicationInv, Protocol
  <2>2. Written = i /\ Written = received + n + InHand
    BY <2>1, Counts
  <2>3. n = 0
    BY <2>1, <2>2, Counts
  <2>4. live = {}
    BY <2>1 DEF PublicationInv, Fifo!RingInv, Fifo!OwnsOneBlock
  <2>5. QED
    BY <2>1, <2>3, <2>4
<1>2. QED
  BY <1>1, PublicationCorrect, PTL

=============================================================================
