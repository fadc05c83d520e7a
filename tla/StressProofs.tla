---------------------------- MODULE StressProofs ----------------------------
(***************************************************************************)
(* Proofs about Stress, for every Size, every number of items and all      *)
(* integer widths: no item is lost, doubled or reordered while two threads *)
(* hand it over, and neither the items nor the fields of the fifo are ever *)
(* accessed in a data race.                                                *)
(***************************************************************************)
EXTENDS Stress, Sequences, TLAPS

(* The lemmas about the ring, for the items as pointers.                   *)
Lemmas == INSTANCE FixedPointerFifoProofs WITH Pointers <- Items, Observers <- {}

-----------------------------------------------------------------------------
(* The inductive invariant: what the threads may be doing,                 *)
Protocol ==
  /\ ppc \in { "created", "fill", "write", "writing", "exit" }
  /\ mpc \in { "init", "create", "read", "reading", "examine", "join", "done", "end" }
  /\ ppc = "created" <=> mpc \in { "init", "create" }
  /\ mpc \in { "done", "end" } => ppc = "exit"
  /\ open <=> mpc \notin { "init", "end" }
  /\ wpc # "idle" <=> ppc = "writing"
  /\ rpc # "idle" <=> mpc = "reading"
  /\ i \in 0 .. NItems
  /\ i = NItems <=> ppc = "exit"
  /\ wpc # "idle" => warg = i
  /\ wpc = "return" => wres # Ring!NullPointer
  /\ received \in 0 .. NItems
  /\ received = NItems <=> mpc \in { "join", "done", "end" }
  /\ mpc = "examine" => p = received
  /\ ppc = "created" => i = 0 /\ received = 0

(* that the items in the fifo follow the one that was taken last,          *)
InOrder ==
  /\ open => \A k \in 1 .. n : Ring!Queue[k] = received + InHand + k - 1
  /\ rpc = "return" => pointer \in { NULL, received }

(* what of the accesses of one thread the other may not have seen,         *)
Filling(k) == << Item(k), "exclusive", "producer" >>
Looking(k) == << Item(k), "shared", "main" >>

FifoByProducer ==
  { << Ring!Counter, "shared", "producer" >>,
    << Ring!Field("write"), "shared", "producer" >>,
    << Ring!Field("write"), "exclusive", "producer" >> }

FifoByMain ==
  { << Ring!Counter, "shared", "main" >>,
    << Ring!Field("read"), "shared", "main" >>,
    << Ring!Field("read"), "exclusive", "main" >> }

ByProducer == FifoByProducer \cup { Filling(k) : k \in Items }
ByMain     == FifoByMain \cup { Looking(k) : k \in 0 .. received - 1 }

Apart ==
  /\ DOMAIN unseen = Threads
  /\ unseen["main"] \subseteq ByProducer
  /\ ppc # "created" => unseen["producer"] \subseteq ByMain
  /\ ppc = "created" => unseen["main"] = {}

(* and that a load of n shows all fillings of items whose write took       *)
(* effect, so that an item that was taken has been seen.                   *)
Published ==
  \A k \in Items : Filling(k) \in untold[Ring!Counter] => k >= Written

Taken ==
  \/ rpc \in { "load", "advance", "decrement" }
  \/ InHand = 1

Seen == Taken => Filling(received) \notin unseen["main"]

StressInv ==
  /\ Ring!RingInv
  /\ Protocol /\ NoneLost /\ InOrder
  /\ Apart /\ Published /\ Seen
  /\ PayloadVisible /\ NothingCorrupt

-----------------------------------------------------------------------------
(* The ring of the client.                                                 *)

(* What the lemmas assume of the constants.                                *)
LEMMA Assumptions ==
  Lemmas!SizeAssumption /\ Lemmas!WidthAssumption /\ Lemmas!PointerAssumption
BY RingAssumption DEF Lemmas!SizeAssumption, Lemmas!WidthAssumption,
   Lemmas!PointerAssumption, Ring!SizeAssumption, Ring!WidthAssumption,
   Ring!PointerAssumption

(* Both instances of the ring have the same invariant,                     *)
LEMMA SameInvariant ==
  /\ Ring!RingInv <=> Lemmas!RingInv
  /\ Ring!RingInv' <=> Lemmas!RingInv'
BY DEF Ring!RingInv, Ring!TypeOK, Ring!ClosedIsQuiet, Ring!NullStopped,
   Ring!ChecksStayTrue, Ring!IndicesMatchCount, Ring!SlotsHoldPointers,
   Ring!TakenPointerIntact, Ring!Slots, Ring!Stored, Ring!FifoFull,
   Ring!NullPointer, Ring!At, Ring!Oldest, Ring!Back, Lemmas!RingInv,
   Lemmas!TypeOK, Lemmas!ClosedIsQuiet, Lemmas!NullStopped,
   Lemmas!ChecksStayTrue, Lemmas!IndicesMatchCount, Lemmas!SlotsHoldPointers,
   Lemmas!TakenPointerIntact, Lemmas!Slots, Lemmas!Stored, Lemmas!FifoFull,
   Lemmas!NullPointer, Lemmas!At, Lemmas!Oldest, Lemmas!Back

(* the same steps,                                                         *)
LEMMA SameActions ==
  /\ Ring!WriteStep <=> Lemmas!WriteStep
  /\ Ring!ReadStep <=> Lemmas!ReadStep
  /\ [Ring!Next]_(Ring!vars) <=> [Lemmas!Next]_(Lemmas!vars)
BY DEF Ring!InitFifo, Ring!DoneFifo, Ring!CallWrite, Ring!WriteStep,
   Ring!WriteNull, Ring!WriteFull, Ring!WriteHasRoom, Ring!WriteStore,
   Ring!WriteAdvance, Ring!WriteIncrement, Ring!WriteReturn, Ring!CallRead,
   Ring!ReadStep, Ring!ReadEmpty, Ring!ReadHasPointer, Ring!ReadLoad,
   Ring!ReadAdvance, Ring!ReadDecrement, Ring!ReadReturn, Ring!GetCount,
   Ring!Count, Ring!Wrap, Ring!fifoVars, Ring!producerVars,
   Ring!consumerVars, Ring!Stored, Ring!FifoFull, Ring!NullPointer,
   Ring!Next, Ring!vars, Lemmas!InitFifo, Lemmas!DoneFifo, Lemmas!CallWrite,
   Lemmas!WriteStep, Lemmas!WriteNull, Lemmas!WriteFull, Lemmas!WriteHasRoom,
   Lemmas!WriteStore, Lemmas!WriteAdvance, Lemmas!WriteIncrement,
   Lemmas!WriteReturn, Lemmas!CallRead, Lemmas!ReadStep, Lemmas!ReadEmpty,
   Lemmas!ReadHasPointer, Lemmas!ReadLoad, Lemmas!ReadAdvance,
   Lemmas!ReadDecrement, Lemmas!ReadReturn, Lemmas!GetCount, Lemmas!Count,
   Lemmas!Wrap, Lemmas!fifoVars, Lemmas!producerVars, Lemmas!consumerVars,
   Lemmas!Stored, Lemmas!FifoFull, Lemmas!NullPointer, Lemmas!Next,
   Lemmas!vars

(* and the same queue.                                                     *)
LEMMA SameQueue == Ring!Queue = Lemmas!Queue /\ Ring!Queue' = Lemmas!Queue'
BY DEF Ring!Queue, Ring!At, Ring!Oldest, Ring!Back, Lemmas!Queue, Lemmas!At,
   Lemmas!Oldest, Lemmas!Back

(* The invariant holds of the uninitialized fifo,                          *)
LEMMA RingStarts == Ring!Init => Ring!RingInv
<1>1. Ring!Init <=> Lemmas!Init
  BY DEF Ring!Init, Ring!Slots, Ring!Stored, Lemmas!Init, Lemmas!Slots, Lemmas!Stored
<1>2. QED
  BY <1>1, Assumptions, Lemmas!InitRing, SameInvariant

(* and every step of the fifo keeps it.                                    *)
LEMMA RingStep == Ring!RingInv /\ [Ring!Next]_(Ring!vars) => Ring!RingInv'
BY Assumptions, Lemmas!RingStep, SameInvariant, SameActions

(* The queue of an open fifo has as many pointers as the counter says.     *)
LEMMA QueueIsSeq ==
  ASSUME Ring!RingInv, open
  PROVE  Ring!Queue \in Seq(Items) /\ Len(Ring!Queue) = n
BY Assumptions, Lemmas!QueueIsSeq, SameInvariant, SameQueue

(* What a step of _write does, when it does not return: at the increment,  *)
(* and only there, the pointer is appended.                                *)
LEMMA WriteOutcome ==
  ASSUME Ring!RingInv, Ring!WriteStep, wpc # "return"
  PROVE  /\ open /\ UNCHANGED << open, warg, rpc, pointer >>
         /\ \/ /\ wpc' \in { "store", "advance", "increment" }
               /\ UNCHANGED << n, Ring!Queue >>
            \/ /\ wpc' = "return" /\ wres' = Ring!NullPointer /\ warg = NULL
               /\ UNCHANGED << n, Ring!Queue >>
            \/ /\ wpc' = "return" /\ wres' = Ring!FifoFull
               /\ UNCHANGED << n, Ring!Queue >>
            \/ /\ wpc' = "return" /\ wres' = Ring!Stored /\ n \in 0 .. Size - 1
               /\ n' = n + 1 /\ Ring!Queue' = Append(Ring!Queue, warg)
BY Assumptions, Lemmas!WriteOutcome, SameInvariant, SameActions, SameQueue
   DEF Ring!Stored, Ring!FifoFull, Ring!NullPointer, Lemmas!Stored, Lemmas!FifoFull,
   Lemmas!NullPointer

(* What a step of _read does, when it does not return: at the decrement,   *)
(* and only there, the head is removed.                                    *)
LEMMA ReadOutcome ==
  ASSUME Ring!RingInv, Ring!ReadStep, rpc # "return"
  PROVE  /\ open /\ UNCHANGED << open, wpc, warg, wres >>
         /\ \/ /\ rpc' \in { "load", "advance", "decrement" }
               /\ rpc' = "load" <=> rpc = "enter"
               /\ UNCHANGED << n, Ring!Queue >>
            \/ /\ rpc' = "return" /\ pointer' = NULL
               /\ UNCHANGED << n, Ring!Queue >>
            \/ /\ rpc' = "return" /\ pointer' = Head(Ring!Queue) /\ n \in 1 .. Size
               /\ n' = n - 1 /\ Ring!Queue' = Tail(Ring!Queue)
               /\ rpc \in { "load", "advance", "decrement" }
BY Assumptions, Lemmas!ReadOutcome, SameInvariant, SameActions, SameQueue

(* Neither to enter a call nor to return from one moves a pointer.         *)
LEMMA CallsKeepQueue ==
  ASSUME Ring!RingInv,
         (\E q : Ring!CallWrite(q)) \/ Ring!WriteReturn \/ Ring!CallRead \/ Ring!ReadReturn
  PROVE  UNCHANGED << n, open, Ring!Queue >>
<1>1. (\E q : Lemmas!CallWrite(q)) \/ Lemmas!WriteReturn \/ Lemmas!CallRead
      \/ Lemmas!ReadReturn
  BY DEF Ring!CallWrite, Ring!WriteReturn, Ring!CallRead, Ring!ReadReturn,
     Ring!fifoVars, Ring!producerVars, Ring!consumerVars, Ring!Stored,
     Lemmas!CallWrite, Lemmas!WriteReturn, Lemmas!CallRead, Lemmas!ReadReturn,
     Lemmas!fifoVars, Lemmas!producerVars, Lemmas!consumerVars, Lemmas!Stored
<1>2. QED
  BY <1>1, Assumptions, Lemmas!CallsKeepQueue, SameInvariant, SameQueue

-----------------------------------------------------------------------------
(* What a call that was made accesses.                                     *)

(* The locations of the fifo and of the items are all different.           *)
LEMMA Locations ==
  /\ Ring!Counter # Ring!Field("write") /\ Ring!Counter # Ring!Field("read")
  /\ Ring!Field("write") # Ring!Field("read")
  /\ \A k : /\ Item(k) # Ring!Counter
            /\ Item(k) # Ring!Field("write") /\ Item(k) # Ring!Field("read")
  /\ \A j, k : Item(j) = Item(k) => j = k
BY DEF Ring!Counter, Ring!Field, Item

(* The accesses of one step of t.                                          *)
Accesses(t, shared, exclusive) ==
  (shared \X {"shared"} \X {t}) \cup (exclusive \X {"exclusive"} \X {t})

(* They reach the other thread unseen, and a load of n that does not see   *)
(* them; a step sees at most what is untold at what it loads.              *)
LEMMA AccessOutcome ==
  ASSUME NEW t \in Threads, NEW u \in Threads, t # u,
         NEW from, NEW shared, NEW exclusive, NEW to,
         Ring!HB!Access(t, from, shared, exclusive, to)
  PROVE  /\ DOMAIN unseen' = Threads
         /\ unseen'[t] \subseteq unseen[t]
         /\ Ring!Counter \in from => unseen'[t] \subseteq untold[Ring!Counter]
         /\ unseen'[u] = unseen[u] \cup Accesses(t, shared, exclusive)
         /\ Ring!Counter \notin to =>
              untold'[Ring!Counter] = untold[Ring!Counter] \cup Accesses(t, shared, exclusive)
         /\ Ring!Counter \in to => untold'[Ring!Counter] = unseen'[t]
BY DEF Ring!HB!Access, Accesses

(* There is no race if all that t has not seen is compatible with what it  *)
(* does now.                                                               *)
LEMMA NoRace ==
  ASSUME NEW t \in Threads,
         NEW from, NEW shared, NEW exclusive, NEW to,
         Ring!HB!Access(t, from, shared, exclusive, to),
         \A a \in unseen[t] : /\ a[1] \notin exclusive
                              /\ a[1] \in shared => a[2] # "exclusive"
  PROVE  races' = races
BY DEF Ring!HB!Access

(* The accesses of _write are compatible with those of the other thread.   *)
LEMMA ProducerAccess ==
  ASSUME NEW from, NEW shared, NEW exclusive, NEW to,
         Ring!HB!Access("producer", from, shared, exclusive, to),
         shared \subseteq { Ring!Counter, Ring!Field("write") },
         exclusive \subseteq { Ring!Field("write") },
         unseen["producer"] \subseteq ByMain
  PROVE  /\ DOMAIN unseen' = Threads
         /\ unseen'["producer"] \subseteq unseen["producer"]
         /\ Ring!Counter \in from => unseen'["producer"] \subseteq untold[Ring!Counter]
         /\ unseen'["main"] \subseteq unseen["main"] \cup FifoByProducer
         /\ Ring!Counter \notin to => untold'[Ring!Counter] \subseteq untold[Ring!Counter] \cup FifoByProducer
         /\ Ring!Counter \in to => untold'[Ring!Counter] = unseen'["producer"]
         /\ races' = races
<1>1. "producer" \in Threads /\ "main" \in Threads
  BY DEF Threads
<1>2. Accesses("producer", shared, exclusive) \subseteq FifoByProducer
  BY DEF Accesses, FifoByProducer
<1>3. \A a \in unseen["producer"] :
        /\ a[1] \notin exclusive
        /\ a[1] \in shared => a[2] # "exclusive"
  BY Locations DEF ByMain, FifoByMain, Looking
<1>4. races' = races
  BY <1>1, <1>3, NoRace
<1>5. QED
  BY <1>1, <1>2, <1>4, AccessOutcome

(* So are those of _read.                                                  *)
LEMMA MainAccess ==
  ASSUME NEW from, NEW shared, NEW exclusive, NEW to,
         Ring!HB!Access("main", from, shared, exclusive, to),
         shared \subseteq { Ring!Counter, Ring!Field("read") },
         exclusive \subseteq { Ring!Field("read") },
         unseen["main"] \subseteq ByProducer
  PROVE  /\ DOMAIN unseen' = Threads
         /\ unseen'["main"] \subseteq unseen["main"]
         /\ Ring!Counter \in from => unseen'["main"] \subseteq untold[Ring!Counter]
         /\ unseen'["producer"] \subseteq unseen["producer"] \cup FifoByMain
         /\ Ring!Counter \notin to => untold'[Ring!Counter] \subseteq untold[Ring!Counter] \cup FifoByMain
         /\ Ring!Counter \in to => untold'[Ring!Counter] = unseen'["main"]
         /\ races' = races
<1>1. "main" \in Threads /\ "producer" \in Threads
  BY DEF Threads
<1>2. Accesses("main", shared, exclusive) \subseteq FifoByMain
  BY DEF Accesses, FifoByMain
<1>3. \A a \in unseen["main"] :
        /\ a[1] \notin exclusive
        /\ a[1] \in shared => a[2] # "exclusive"
  BY Locations DEF ByProducer, FifoByProducer, Filling
<1>4. races' = races
  BY <1>1, <1>3, NoRace
<1>5. QED
  BY <1>1, <1>2, <1>4, AccessOutcome

(* What _write accesses, and what of it a load of n may not show.          *)
LEMMA WriteAccess ==
  ASSUME wpc # "return", Ring!WriteBy("producer"),
         DOMAIN unseen = Threads, unseen["producer"] \subseteq ByMain
  PROVE  /\ Ring!WriteStep
         /\ DOMAIN unseen' = Threads
         /\ unseen'["producer"] \subseteq unseen["producer"]
         /\ unseen'["main"] \subseteq unseen["main"] \cup FifoByProducer
         /\ \/ untold'[Ring!Counter] \subseteq untold[Ring!Counter] \cup FifoByProducer
            \/ untold'[Ring!Counter] \subseteq ByMain
         /\ wpc' = "return" /\ wres' = Ring!Stored => untold'[Ring!Counter] \subseteq ByMain
         /\ races' = races
<1>1. CASE /\ Ring!WriteNull \/ Ring!WriteReturn
           /\ UNCHANGED Ring!hbVars
  BY <1>1 DEF Ring!hbVars, Ring!WriteStep, Ring!WriteNull, Ring!WriteReturn,
     Ring!NullPointer, Ring!Stored
<1>2. CASE /\ Ring!WriteFull \/ Ring!WriteHasRoom
           /\ Ring!HB!Access("producer", {Ring!Counter}, {Ring!Counter}, {}, {})
  <2>1. ~ (wpc' = "return" /\ wres' = Ring!Stored)
    BY <1>2 DEF Ring!WriteFull, Ring!WriteHasRoom, Ring!FifoFull, Ring!Stored
  <2>2. QED
    BY <1>2, <2>1, ProducerAccess DEF Ring!WriteStep
<1>3. CASE /\ Ring!WriteStore
           /\ Ring!HB!Access("producer", {}, {Ring!Field("write")}, {}, {Ring!Slot(write)})
  <2>1. wpc' # "return" /\ Ring!Counter # Ring!Slot(write)
    BY <1>3 DEF Ring!WriteStore, Ring!Counter, Ring!Field, Ring!Slot
  <2>2. QED
    BY <1>3, <2>1, ProducerAccess DEF Ring!WriteStep
<1>4. CASE /\ Ring!WriteAdvance
           /\ Ring!HB!Access("producer", {}, {}, {Ring!Field("write")}, {})
  <2>1. wpc' # "return"
    BY <1>4 DEF Ring!WriteAdvance
  <2>2. QED
    BY <1>4, <2>1, ProducerAccess DEF Ring!WriteStep
<1>5. CASE /\ Ring!WriteIncrement
           /\ Ring!HB!Access("producer", {Ring!Counter}, {Ring!Counter}, {}, {Ring!Counter})
  BY <1>5, ProducerAccess DEF Ring!WriteStep
<1>6. QED
  BY <1>1, <1>2, <1>3, <1>4, <1>5 DEF Ring!WriteBy

(* What _read accesses; a load of n shows what is not untold.              *)
LEMMA ReadAccess ==
  ASSUME rpc # "return", Ring!ReadBy("main"),
         DOMAIN unseen = Threads, unseen["main"] \subseteq ByProducer
  PROVE  /\ Ring!ReadStep
         /\ DOMAIN unseen' = Threads
         /\ unseen'["main"] \subseteq unseen["main"]
         /\ rpc' = "load" => unseen'["main"] \subseteq untold[Ring!Counter]
         /\ unseen'["producer"] \subseteq unseen["producer"] \cup FifoByMain
         /\ untold'[Ring!Counter] \subseteq untold[Ring!Counter] \cup FifoByMain
         /\ races' = races
<1>1. CASE /\ Ring!ReadEmpty \/ Ring!ReadHasPointer
           /\ Ring!HB!Access("main", {Ring!Counter}, {Ring!Counter}, {}, {})
  BY <1>1, MainAccess DEF Ring!ReadStep
<1>2. CASE /\ Ring!ReadLoad
           /\ Ring!HB!Access("main", {Ring!Slot(read)}, {Ring!Field("read")}, {}, {})
  <2>1. rpc' # "load"
    BY <1>2 DEF Ring!ReadLoad
  <2>2. QED
    BY <1>2, <2>1, MainAccess DEF Ring!ReadStep
<1>3. CASE /\ Ring!ReadAdvance
           /\ Ring!HB!Access("main", {}, {}, {Ring!Field("read")}, {})
  <2>1. rpc' # "load"
    BY <1>3 DEF Ring!ReadAdvance
  <2>2. QED
    BY <1>3, <2>1, MainAccess DEF Ring!ReadStep
<1>4. CASE /\ Ring!ReadDecrement
           /\ Ring!HB!Access("main", {Ring!Counter}, {Ring!Counter}, {}, {Ring!Counter})
  <2>1. rpc' # "load"
    BY <1>4 DEF Ring!ReadDecrement
  <2>2. QED
    BY <1>4, <2>1, MainAccess DEF Ring!ReadStep
<1>5. QED
  BY <1>1, <1>2, <1>3, <1>4 DEF Ring!ReadBy, Ring!ReadReturn

-----------------------------------------------------------------------------
(* The invariant is inductive.                                             *)

(* What the invariant says of the numbers in play.                         *)
LEMMA Counts ==
  ASSUME StressInv
  PROVE  /\ i \in 0 .. NItems /\ received \in 0 .. NItems
         /\ Written \in Nat /\ InHand \in 0 .. 1
         /\ open => n \in 0 .. Size
         /\ open => Written = received + n + InHand
         /\ open /\ rpc \in { "load", "advance", "decrement" } => n > 0
         /\ open => Ring!Queue \in Seq(Items) /\ Len(Ring!Queue) = n
         /\ wpc # "return" => Written = i
         /\ \A k \in Items : Filling(k) \notin FifoByProducer /\ Filling(k) \notin FifoByMain
         /\ \A k \in Items : Filling(k) \notin ByMain
         /\ \A j, k : Filling(j) = Filling(k) => j = k
<1> USE DEF StressInv, Protocol
<1>1. /\ i \in 0 .. NItems /\ received \in 0 .. NItems
      /\ Written \in Nat /\ InHand \in 0 .. 1
      /\ wpc # "return" => Written = i
  BY NItemsAssumption DEF Written, InHand
<1>2. /\ open => n \in 0 .. Size
      /\ open => Written = received + n + InHand
      /\ open /\ rpc \in { "load", "advance", "decrement" } => n > 0
  BY DEF NoneLost, Ring!RingInv, Ring!TypeOK, Ring!ChecksStayTrue
<1>3. open => Ring!Queue \in Seq(Items) /\ Len(Ring!Queue) = n
  BY QueueIsSeq
<1>4. /\ \A k \in Items : Filling(k) \notin FifoByProducer /\ Filling(k) \notin FifoByMain
      /\ \A j, k : Filling(j) = Filling(k) => j = k
  BY Locations DEF Filling, FifoByProducer, FifoByMain
<1>5. \A k \in Items : Filling(k) \notin ByMain
  BY <1>4 DEF ByMain, Filling, Looking
<1>6. QED
  BY <1>1, <1>2, <1>3, <1>4, <1>5

(* The invariant holds initially.                                          *)
LEMMA InitStress == Init => StressInv
<1> SUFFICES ASSUME Init
             PROVE  StressInv
  OBVIOUS
<1>1. Ring!RingInv
  BY RingStarts DEF Init, Ring!OrderedInit
<1>2. wpc = "idle" /\ rpc = "idle" /\ open = FALSE
  BY DEF Init, Ring!OrderedInit, Ring!Init
<1>3. /\ ppc = "created" /\ i = 0 /\ mpc = "init" /\ received = 0
      /\ NItems \in Nat \ {0}
  BY NItemsAssumption DEF Init
<1>4. Protocol
  BY <1>2, <1>3 DEF Protocol
<1>5. NoneLost /\ InOrder
  BY <1>2, <1>3 DEF NoneLost, InOrder
<1>6. /\ unseen = [t \in Threads |-> {}] /\ untold[Ring!Counter] = {}
      /\ races = {}
  BY DEF Init, Ring!OrderedInit, Ring!HB!HBInit
<1>7. Apart /\ Published /\ Seen /\ PayloadVisible /\ NothingCorrupt
  BY <1>6 DEF Init, Apart, Published, Seen, PayloadVisible, NothingCorrupt, Threads
<1>8. QED
  BY <1>1, <1>4, <1>5, <1>7 DEF StressInv

(* The queue is in the fields of the fifo.                                 *)
LEMMA QueueIsSame ==
  ASSUME UNCHANGED ringVars
  PROVE  UNCHANGED Ring!Queue
BY DEF ringVars, Ring!Queue, Ring!At, Ring!Oldest, Ring!Back

(* A step that neither accesses memory nor moves an item.                  *)
LEMMA QuietStep ==
  ASSUME StressInv, Ring!RingInv', Protocol',
         UNCHANGED << hbVars, received, corrupt, n, open, Ring!Queue, Written, InHand >>,
         mpc' = "init" <=> mpc = "init", ppc' = "created" <=> ppc = "created",
         rpc' = "return" => rpc = "return" /\ pointer' = pointer,
         Taken' => Taken
  PROVE  StressInv'
<1>1. NoneLost' /\ InOrder'
  BY DEF StressInv, NoneLost, InOrder
<1>2. Apart' /\ Published' /\ Seen' /\ PayloadVisible' /\ NothingCorrupt'
  BY DEF StressInv, hbVars, Apart, Published, Seen, ByMain, PayloadVisible, NothingCorrupt
<1>3. QED
  BY <1>1, <1>2 DEF StressInv

(* Every step of either thread keeps it.                                   *)
LEMMA StressStep == StressInv /\ [Next]_vars => StressInv'
<1> SUFFICES ASSUME StressInv, [Next]_vars
             PROVE  StressInv'
  OBVIOUS
<1> USE DEF clientVars
<1>1. /\ Ring!RingInv /\ Protocol /\ NoneLost /\ InOrder /\ Apart /\ Published /\ Seen
      /\ PayloadVisible /\ NothingCorrupt
      /\ NItems \in Nat \ {0} /\ NULL \notin Items
  BY NItemsAssumption, RingAssumption DEF StressInv, Ring!PointerAssumption
<1>2. Ring!RingInv'
  <2> USE DEF Ring!Next, Ring!vars, Ring!fifoVars, Ring!producerVars,
              Ring!consumerVars, ringVars
  <2>1. CASE FillItem \/ CreateThread \/ Examine \/ Join \/ UNCHANGED vars
    BY <1>1, <2>1, RingStep DEF FillItem, CreateThread, Examine, Join, vars
  <2>2. CASE TryWrite \/ WriteReturned \/ TryRead \/ ReadReturned
    <3>1. i \in Items \/ ~ TryWrite
      BY <1>1 DEF Protocol, TryWrite, Items
    <3>2. [Ring!Next]_(Ring!vars)
      BY <2>2, <3>1 DEF TryWrite, WriteReturned, TryRead, ReadReturned, Ring!WriteStep,
         Ring!ReadStep
    <3>3. QED
      BY <1>1, <3>2, RingStep
  <2>3. CASE InWrite \/ InRead \/ MainInit \/ MainDone
    <3>1. Ring!Next
      BY <2>3 DEF InWrite, InRead, MainInit, MainDone, Ring!InitBy, Ring!WriteBy,
         Ring!ReadBy, Ring!WriteStep, Ring!ReadStep
    <3>2. QED
      BY <1>1, <3>1, RingStep
  <2>4. QED
    BY <2>1, <2>2, <2>3 DEF Next, Producer, Main, Ended
<1>3. CASE MainInit
  <2>1. /\ wpc = "idle" /\ rpc = "idle" /\ n' = 0 /\ open'
        /\ UNCHANGED << wpc, warg, wres, rpc, pointer >>
    BY <1>3 DEF MainInit, Ring!InitBy, Ring!InitFifo, Ring!producerVars,
       Ring!consumerVars
  <2>2. mpc = "init" /\ mpc' = "create" /\ UNCHANGED << ppc, i, p, received, corrupt >>
    BY <1>3 DEF MainInit
  <2>3. ppc = "created" /\ i = 0 /\ received = 0
    BY <1>1, <2>2 DEF Protocol
  <2>4. Protocol' /\ NoneLost' /\ InOrder' /\ NothingCorrupt'
    BY <1>1, <2>1, <2>2, <2>3
       DEF Protocol, NoneLost, InOrder, Written, InHand, NothingCorrupt
  <2>5. unseen["main"] = {}
    BY <1>1, <2>3 DEF Apart
  <2>6. Ring!HB!Access("main", {}, {},
                       { Ring!Field("write"), Ring!Field("read"), Ring!Counter }, {})
    BY <1>3 DEF MainInit, Ring!InitBy
  <2>7. races' = races
    BY <2>5, <2>6, NoRace DEF Threads
  <2>8. unseen'["main"] = {} /\ DOMAIN unseen' = Threads
    BY <2>5, <2>6 DEF Ring!HB!Access, Threads
  <2>9. QED
    BY <1>1, <1>2, <2>1, <2>2, <2>3, <2>4, <2>7, <2>8
       DEF StressInv, Apart, Published, Seen, Taken, InHand, Written, PayloadVisible, Items
<1>4. CASE CreateThread
  <2>1. /\ mpc = "create" /\ mpc' = "read" /\ ppc' = "fill"
        /\ UNCHANGED << ringVars, i, p, received, corrupt, untold, races >>
        /\ unseen' = [unseen EXCEPT !["producer"] = @ \cap unseen["main"]]
    BY <1>4 DEF CreateThread, Ring!HB!Follow
  <2>2. ppc = "created" /\ i = 0 /\ received = 0 /\ 0 # NItems
    BY <1>1, <2>1 DEF Protocol
  <2>3. Protocol' /\ NoneLost' /\ NothingCorrupt' /\ PayloadVisible' /\ Published' /\ Seen'
    BY <1>1, <2>1, <2>2
       DEF Protocol, NoneLost, Written, InHand, NothingCorrupt, PayloadVisible, Published,
           Seen, Taken, ringVars
  <2>4. unseen'["producer"] = {} /\ unseen'["main"] = {} /\ DOMAIN unseen' = Threads
    BY <1>1, <2>1, <2>2 DEF Apart, Threads
  <2>5. InOrder'
    BY <1>1, <2>1, <2>2, QueueIsSame DEF InOrder, InHand, ringVars
  <2>6. QED
    BY <1>2, <2>3, <2>4, <2>5 DEF StressInv, Apart, Seen
<1>5. CASE FillItem
  <2>1. /\ ppc = "fill" /\ ppc' = "write"
        /\ UNCHANGED << ringVars, i, mpc, p, received, corrupt >>
        /\ Ring!HB!Access("producer", {}, {}, {Item(i)}, {})
    BY <1>5 DEF FillItem
  <2>2. /\ open /\ wpc = "idle" /\ i \in Items /\ Written = i /\ received <= i
    BY <1>1, <2>1, Counts DEF Protocol, Items
  <2>3. Protocol' /\ NoneLost' /\ NothingCorrupt'
    BY <1>1, <2>1, <2>2
       DEF Protocol, NoneLost, Written, InHand, NothingCorrupt, ringVars
  <2>4. InOrder'
    BY <1>1, <2>1, QueueIsSame DEF InOrder, InHand, ringVars
  <2>5. \A a \in unseen["producer"] : a[1] # Item(i)
    BY <1>1, <2>1, <2>2, Locations, Counts DEF Apart, ByMain, FifoByMain, Looking
  <2>6. races' = races
    BY <2>1, <2>5, NoRace DEF Threads
  <2>7. /\ DOMAIN unseen' = Threads
        /\ unseen'["producer"] \subseteq unseen["producer"]
        /\ unseen'["main"] \subseteq unseen["main"] \cup {Filling(i)}
        /\ untold'[Ring!Counter] \subseteq untold[Ring!Counter] \cup {Filling(i)}
    <3>1. Accesses("producer", {}, {Item(i)}) = {Filling(i)}
      BY DEF Accesses, Filling
    <3>2. QED
      BY <2>1, <3>1, AccessOutcome DEF Threads
  <2>8. Apart'
    BY <1>1, <2>1, <2>2, <2>7 DEF Apart, ByProducer, ByMain, FifoByProducer, FifoByMain,
       Ring!Counter, Ring!Field
  <2>9. Published'
    BY <1>1, <2>1, <2>2, <2>7, Counts DEF Published, Written, ringVars
  <2>10. Seen'
    <3>1. Taken => received < i
      BY <1>1, <2>2, Counts DEF Taken
    <3>2. QED
      BY <1>1, <2>1, <2>2, <2>7, <3>1, Counts DEF Seen, Taken, InHand, ringVars
  <2>11. QED
    BY <1>1, <1>2, <2>3, <2>4, <2>6, <2>8, <2>9, <2>10 DEF StressInv, PayloadVisible
<1>6. CASE TryWrite
  <2>1. /\ ppc = "write" /\ ppc' = "writing" /\ open /\ wpc = "idle"
        /\ wpc' = "enter" /\ warg' = i
        /\ UNCHANGED << i, mpc, p, received, corrupt, hbVars, rpc, pointer >>
    BY <1>6 DEF TryWrite, Ring!CallWrite, Ring!consumerVars
  <2>2. UNCHANGED << n, open, Ring!Queue >>
    BY <1>1, <1>6, CallsKeepQueue DEF TryWrite
  <2>3. Protocol'
    BY <1>1, <2>1, <2>2 DEF Protocol
  <2>4. UNCHANGED << Written, InHand, Taken >>
    BY <2>1 DEF Written, InHand, Taken
  <2>5. QED
    BY <1>2, <2>1, <2>2, <2>3, <2>4, QuietStep
<1>7. CASE InWrite
  <2>1. Ring!WriteBy("producer") /\ wpc # "return" /\ UNCHANGED clientVars
    BY <1>7 DEF InWrite
  <2>2. wpc # "idle"
    BY <2>1 DEF Ring!WriteBy, Ring!WriteNull, Ring!WriteFull, Ring!WriteHasRoom,
       Ring!WriteStore, Ring!WriteAdvance, Ring!WriteIncrement, Ring!WriteReturn
  <2>3. unseen["producer"] \subseteq ByMain /\ DOMAIN unseen = Threads
    BY <1>1, <2>2 DEF Apart, Protocol
  <2>4. /\ Ring!WriteStep
        /\ DOMAIN unseen' = Threads
        /\ unseen'["producer"] \subseteq unseen["producer"]
        /\ unseen'["main"] \subseteq unseen["main"] \cup FifoByProducer
        /\ \/ untold'[Ring!Counter] \subseteq untold[Ring!Counter] \cup FifoByProducer
           \/ untold'[Ring!Counter] \subseteq ByMain
        /\ wpc' = "return" /\ wres' = Ring!Stored => untold'[Ring!Counter] \subseteq ByMain
        /\ races' = races
    BY <2>1, <2>3, WriteAccess
  <2>5. /\ open /\ UNCHANGED << open, warg, rpc, pointer >>
        /\ wpc' \in { "store", "advance", "increment", "return" }
    BY <1>1, <2>1, <2>4, WriteOutcome
  <2>6. /\ warg = i /\ i \in Items /\ warg # NULL /\ Written = i
        /\ UNCHANGED << InHand, Taken >>
    BY <1>1, <2>1, <2>2, <2>5 DEF Protocol, Items, Written, InHand, Taken
  <2>7. wpc' = "return" => wres' # Ring!NullPointer
    BY <1>1, <2>1, <2>4, <2>6, WriteOutcome DEF Ring!NullPointer, Ring!Stored, Ring!FifoFull
  <2>8. Protocol' /\ NothingCorrupt' /\ PayloadVisible'
    BY <1>1, <2>1, <2>2, <2>4, <2>5, <2>7 DEF Protocol, NothingCorrupt, PayloadVisible
  <2>9. Apart' /\ Seen'
    BY <1>1, <2>1, <2>2, <2>4, <2>6, Counts
       DEF Apart, ByProducer, ByMain, Seen, Protocol, Items
  <2>10. Published' /\ NoneLost' /\ InOrder'
    <3>1. CASE /\ Written' = Written /\ UNCHANGED << n, Ring!Queue >>
      <4>1. Published'
        BY <1>1, <2>4, <3>1, Counts DEF Published
      <4>2. QED
        BY <1>1, <2>1, <2>5, <2>6, <3>1, <4>1 DEF NoneLost, InOrder
    <3>2. CASE /\ wpc' = "return" /\ wres' = Ring!Stored /\ n \in 0 .. Size - 1
               /\ n' = n + 1 /\ Ring!Queue' = Append(Ring!Queue, warg)
      <4>1. Published'
        BY <2>4, <3>2, Counts DEF Published
      <4>2. Written' = Written + 1
        BY <2>1, <2>6, <3>2 DEF Written, Items
      <4>3. NoneLost'
        BY <1>1, <2>1, <2>5, <2>6, <3>2, <4>2, Counts DEF NoneLost
      <4>4. \A k \in 1 .. n + 1 : Ring!Queue'[k] = received + InHand + k - 1
        <5>1. \A k \in 1 .. n + 1 : k \in 1 .. n \/ k = n + 1
          BY <3>2
        <5>2. \A k \in 1 .. n : Ring!Queue'[k] = Ring!Queue[k]
          BY <2>5, <3>2, Counts
        <5>3. Ring!Queue'[n + 1] = i
          BY <2>5, <2>6, <3>2, Counts
        <5>4. i = received + InHand + (n + 1) - 1
          BY <2>5, <2>6, <3>2, Counts
        <5>5. QED
          BY <1>1, <2>5, <5>1, <5>2, <5>3, <5>4 DEF InOrder
      <4>5. QED
        BY <1>1, <2>1, <2>5, <2>6, <3>2, <4>1, <4>3, <4>4 DEF InOrder
    <3>3. \/ Written' = Written
          \/ wpc' = "return" /\ wres' = Ring!Stored
      BY <2>1, <2>6 DEF Written, Ring!Stored
    <3>4. QED
      BY <1>1, <2>1, <2>4, <2>6, <3>1, <3>2, <3>3, WriteOutcome
         DEF Ring!NullPointer, Ring!Stored, Ring!FifoFull
  <2>11. QED
    BY <1>2, <2>8, <2>9, <2>10 DEF StressInv
<1>8. CASE WriteReturned
  <2>1. /\ wpc = "return" /\ wpc' = "idle"
        /\ UNCHANGED << mpc, p, received, corrupt, hbVars, rpc, pointer >>
        /\ IF wres = Ring!FifoFull THEN ppc' = "write" /\ UNCHANGED i ELSE NextItem
    BY <1>8 DEF WriteReturned, Ring!WriteReturn, Ring!consumerVars
  <2>2. UNCHANGED << n, open, Ring!Queue >>
    BY <1>1, <1>8, CallsKeepQueue DEF WriteReturned
  <2>3. wres \in { Ring!Stored, Ring!FifoFull }
    <3>1. wres \in { Ring!Stored, Ring!FifoFull, Ring!NullPointer }
      BY <1>1 DEF Ring!RingInv, Ring!TypeOK
    <3>2. QED
      BY <1>1, <2>1, <3>1 DEF Protocol
  <2>4. ppc = "writing" /\ i \in 0 .. NItems - 1 /\ open
    BY <1>1, <2>1 DEF Protocol
  <2>5. Protocol'
    BY <1>1, <2>1, <2>2, <2>4 DEF Protocol, NextItem
  <2>6. UNCHANGED << Written, InHand, Taken >>
    BY <2>1, <2>3, <2>4 DEF Written, InHand, Taken, NextItem, Ring!Stored, Ring!FifoFull
  <2>7. QED
    BY <1>2, <2>1, <2>2, <2>4, <2>5, <2>6, QuietStep DEF NextItem
<1>9. CASE TryRead
  <2>1. /\ mpc = "read" /\ mpc' = "reading" /\ open /\ rpc = "idle" /\ rpc' = "enter"
        /\ UNCHANGED << ppc, i, p, received, corrupt, hbVars, wpc, warg, wres >>
    BY <1>9 DEF TryRead, Ring!CallRead, Ring!producerVars
  <2>2. UNCHANGED << n, open, Ring!Queue >>
    BY <1>1, <1>9, CallsKeepQueue DEF TryRead
  <2>3. Protocol'
    BY <1>1, <2>1, <2>2 DEF Protocol
  <2>4. UNCHANGED << Written, InHand, Taken >>
    BY <2>1 DEF Written, InHand, Taken
  <2>5. QED
    BY <1>2, <2>1, <2>2, <2>3, <2>4, QuietStep
<1>10. CASE InRead
  <2>1. Ring!ReadBy("main") /\ rpc # "return" /\ UNCHANGED clientVars
    BY <1>10 DEF InRead
  <2>2. unseen["main"] \subseteq ByProducer /\ DOMAIN unseen = Threads
    BY <1>1 DEF Apart
  <2>3. /\ Ring!ReadStep
        /\ DOMAIN unseen' = Threads
        /\ unseen'["main"] \subseteq unseen["main"]
        /\ rpc' = "load" => unseen'["main"] \subseteq untold[Ring!Counter]
        /\ unseen'["producer"] \subseteq unseen["producer"] \cup FifoByMain
        /\ untold'[Ring!Counter] \subseteq untold[Ring!Counter] \cup FifoByMain
        /\ races' = races
    BY <2>1, <2>2, ReadAccess
  <2>4. open /\ UNCHANGED << open, wpc, warg, wres >>
    BY <1>1, <2>1, <2>3, ReadOutcome
  <2>5. rpc # "idle"
    BY <2>3 DEF Ring!ReadStep, Ring!ReadEmpty, Ring!ReadHasPointer,
       Ring!ReadLoad, Ring!ReadAdvance, Ring!ReadDecrement, Ring!ReadReturn
  <2>6. rpc' \in { "load", "advance", "decrement", "return" }
    BY <1>1, <2>1, <2>3, ReadOutcome
  <2>7. Protocol' /\ NothingCorrupt' /\ PayloadVisible' /\ Written' = Written /\ InHand = 0
    BY <1>1, <2>1, <2>3, <2>4, <2>5, <2>6
       DEF Protocol, NothingCorrupt, PayloadVisible, Written, InHand
  <2>8. Apart' /\ Published'
    BY <1>1, <2>1, <2>3, <2>4, <2>7, Counts DEF Apart, Published, ByMain
  <2>9. NoneLost' /\ InOrder' /\ Seen'
    <3>1. CASE /\ rpc' \in { "load", "advance", "decrement" }
               /\ rpc' = "load" <=> rpc = "enter"
               /\ UNCHANGED << n, Ring!Queue >>
      <4>1. InHand' = 0
        BY <1>1, <2>1, <2>5, <3>1 DEF InHand, Protocol
      <4>2. NoneLost' /\ InOrder'
        BY <1>1, <2>1, <2>4, <2>7, <3>1, <4>1 DEF NoneLost, InOrder
      <4>3. CASE rpc = "enter"
        <5>1. n > 0 /\ Written > received
          BY <1>1, <1>2, <2>4, <2>7, <3>1, <4>3, Counts
             DEF Ring!RingInv, Ring!ChecksStayTrue
        <5>2. received \in Items
          BY <1>1, <2>1, <2>5 DEF Protocol, Items
        <5>3. Filling(received) \notin untold[Ring!Counter]
          BY <1>1, <5>1, <5>2, Counts DEF Published
        <5>4. Filling(received) \notin unseen'["main"]
          BY <2>3, <3>1, <4>3, <5>3
        <5>5. QED
          BY <2>1, <4>2, <5>4 DEF Seen, Filling
      <4>4. CASE rpc # "enter"
        <5>1. Taken
          BY <2>1, <2>5, <3>1, <4>4, <1>1 DEF Taken, Ring!RingInv, Ring!TypeOK
        <5>2. QED
          BY <1>1, <2>1, <2>3, <4>2, <5>1 DEF Seen
      <4>5. QED
        BY <4>2, <4>3, <4>4
    <3>2. CASE /\ rpc' = "return" /\ pointer' = NULL
               /\ UNCHANGED << n, Ring!Queue >>
      <4>1. InHand' = 0 /\ ~ Taken'
        BY <1>1, <2>1, <2>5, <3>2 DEF InHand, Taken, Protocol
      <4>2. QED
        BY <1>1, <2>1, <2>4, <2>7, <3>2, <4>1 DEF NoneLost, InOrder, Seen
    <3>3. CASE /\ rpc' = "return" /\ pointer' = Head(Ring!Queue) /\ n \in 1 .. Size
               /\ n' = n - 1 /\ Ring!Queue' = Tail(Ring!Queue)
               /\ rpc \in { "load", "advance", "decrement" }
      <4>1. Ring!Queue[1] = received /\ received \in Items
        BY <1>1, <2>1, <2>4, <2>5, <2>7, <3>3 DEF InOrder, Protocol, Items
      <4>2. pointer' = received /\ InHand' = 1
        BY <1>1, <2>4, <3>3, <4>1, Counts DEF InHand
      <4>3. NoneLost'
        BY <1>1, <2>1, <2>4, <2>7, <3>3, <4>2, Counts DEF NoneLost
      <4>4. \A k \in 1 .. n - 1 : Ring!Queue'[k] = received + k
        <5>1. \A k \in 1 .. n - 1 : Ring!Queue'[k] = Ring!Queue[k + 1] /\ k + 1 \in 1 .. n
          BY <2>4, <3>3, Counts
        <5>2. QED
          BY <1>1, <2>4, <2>7, <3>3, <5>1, Counts DEF InOrder
      <4>5. InOrder'
        BY <1>1, <2>1, <2>4, <3>3, <4>2, <4>4, Counts DEF InOrder
      <4>6. Filling(received) \notin unseen'["main"]
        BY <1>1, <2>3, <3>3 DEF Seen, Taken
      <4>7. QED
        BY <2>1, <4>3, <4>5, <4>6 DEF Seen, Filling
    <3>4. QED
      BY <1>1, <2>1, <2>3, <3>1, <3>2, <3>3, ReadOutcome
  <2>10. QED
    BY <1>2, <2>7, <2>8, <2>9 DEF StressInv
<1>11. CASE ReadReturned
  <2>1. /\ rpc = "return" /\ rpc' = "idle" /\ p' = pointer
        /\ mpc' = IF pointer = NULL THEN "read" ELSE "examine"
        /\ UNCHANGED << ppc, i, received, corrupt, hbVars, wpc, warg, wres >>
    BY <1>11 DEF ReadReturned, Ring!ReadReturn, Ring!producerVars
  <2>2. UNCHANGED << n, open, Ring!Queue >>
    BY <1>1, <1>11, CallsKeepQueue DEF ReadReturned
  <2>3. mpc = "reading" /\ pointer \in { NULL, received }
    BY <1>1, <2>1 DEF Protocol, InOrder
  <2>4. Protocol'
    BY <1>1, <2>1, <2>2, <2>3 DEF Protocol
  <2>5. UNCHANGED << Written, InHand, Taken >>
    BY <2>1, <2>3 DEF Written, InHand, Taken
  <2>6. QED
    BY <1>2, <2>1, <2>2, <2>3, <2>4, <2>5, QuietStep
<1>12. CASE Examine
  <2>1. /\ mpc = "examine" /\ received' = received + 1
        /\ mpc' = IF received + 1 < NItems THEN "read" ELSE "join"
        /\ UNCHANGED << ringVars, ppc, i, p >>
        /\ Ring!HB!Access("main", {}, {Item(p)}, {}, {})
        /\ \E sequence \in IF MaybeStale THEN {p, Garbage} ELSE {p} :
             corrupt' = IF sequence = received THEN corrupt ELSE corrupt + 1
    BY <1>12 DEF Examine
  <2>2. /\ open /\ p = received /\ received \in Items /\ ppc # "created"
        /\ InHand = 1 /\ rpc = "idle" /\ mpc' \notin { "init", "create" }
    BY <1>1, <2>1 DEF Protocol, Items, InHand
  <2>3. ~ (\E a \in unseen["main"] : a[1] = Item(p) /\ a[2] = "exclusive")
    <3>1. Filling(p) \notin unseen["main"]
      BY <1>1, <2>2 DEF Seen, Taken
    <3>2. \A a \in ByProducer : a[1] = Item(p) => a = Filling(p)
      BY <2>2, Locations DEF ByProducer, FifoByProducer, Filling
    <3>3. QED
      BY <1>1, <3>1, <3>2 DEF Apart
  <2>4. races' = races
    BY <2>1, <2>3, NoRace DEF Threads
  <2>5. corrupt' = corrupt
    BY <2>1, <2>2, <2>3 DEF MaybeStale
  <2>6. /\ DOMAIN unseen' = Threads
        /\ unseen'["main"] \subseteq unseen["main"]
        /\ unseen'["producer"] \subseteq unseen["producer"] \cup {Looking(received)}
        /\ untold'[Ring!Counter] \subseteq untold[Ring!Counter] \cup {Looking(received)}
    <3>1. Accesses("main", {Item(received)}, {}) = {Looking(received)}
      BY DEF Accesses, Looking
    <3>2. Ring!HB!Access("main", {}, {Item(received)}, {}, {})
      BY <2>1, <2>2
    <3>3. QED
      BY <3>1, <3>2, AccessOutcome DEF Threads
  <2>7. Written' = Written /\ InHand' = 0 /\ ~ Taken'
    BY <2>1, <2>2 DEF Written, InHand, Taken, ringVars
  <2>8. Protocol'
    BY <1>1, <2>1, <2>2 DEF Protocol, ringVars, Items
  <2>9. NoneLost' /\ InOrder'
    <3>1. UNCHANGED << Ring!Queue, n, open, rpc >>
      BY <2>1, QueueIsSame DEF ringVars
    <3>2. NoneLost'
      BY <1>1, <2>1, <2>2, <2>7, <3>1, Counts DEF NoneLost
    <3>3. InOrder'
      BY <1>1, <2>1, <2>2, <2>7, <3>1, Counts DEF InOrder
    <3>4. QED
      BY <3>2, <3>3
  <2>10. Apart'
    BY <1>1, <2>1, <2>2, <2>6 DEF Apart, ByMain, Items
  <2>11. Published'
    BY <1>1, <2>6, <2>7 DEF Published, Filling, Looking
  <2>12. QED
    BY <1>1, <1>2, <2>4, <2>5, <2>7, <2>8, <2>9, <2>10, <2>11
       DEF StressInv, Seen, PayloadVisible, NothingCorrupt
<1>13. CASE Join
  <2>1. /\ mpc = "join" /\ ppc = "exit" /\ mpc' = "done"
        /\ UNCHANGED << ringVars, ppc, i, p, received, corrupt, untold, races >>
        /\ unseen' = [unseen EXCEPT !["main"] = @ \cap unseen["producer"]]
    BY <1>13 DEF Join, Ring!HB!Follow
  <2>2. /\ DOMAIN unseen' = Threads /\ unseen'["producer"] = unseen["producer"]
        /\ unseen'["main"] \subseteq unseen["main"]
    BY <1>1, <2>1 DEF Apart, Threads
  <2>3. Protocol' /\ NoneLost' /\ NothingCorrupt' /\ PayloadVisible' /\ Published'
    BY <1>1, <2>1
       DEF Protocol, NoneLost, Written, InHand, NothingCorrupt, PayloadVisible, Published,
           ringVars
  <2>4. InOrder'
    BY <1>1, <2>1, QueueIsSame DEF InOrder, InHand, ringVars
  <2>5. Apart' /\ Seen'
    BY <1>1, <2>1, <2>2 DEF Apart, ByMain, Seen, Taken, InHand, ringVars
  <2>6. QED
    BY <1>2, <2>3, <2>4, <2>5 DEF StressInv
<1>14. CASE MainDone
  <2>1. /\ mpc = "done" /\ mpc' = "end" /\ ~ open'
        /\ UNCHANGED << n, ppc, i, p, received, corrupt, hbVars, wpc, warg, wres, rpc,
                        pointer >>
    BY <1>14 DEF MainDone, Ring!DoneFifo, Ring!producerVars, Ring!consumerVars
  <2>2. wpc = "idle" /\ rpc = "idle"
    BY <1>14 DEF MainDone, Ring!DoneFifo
  <2>3. Protocol' /\ NoneLost' /\ InOrder' /\ NothingCorrupt' /\ PayloadVisible' /\ Published'
    BY <1>1, <2>1, <2>2
       DEF Protocol, NoneLost, InOrder, Written, InHand, NothingCorrupt, PayloadVisible,
           Published, hbVars
  <2>4. Apart' /\ Seen'
    BY <1>1, <2>1, <2>2 DEF Apart, ByMain, Seen, Taken, InHand, hbVars
  <2>5. QED
    BY <1>2, <2>3, <2>4 DEF StressInv
<1>15. CASE UNCHANGED vars
  <2>1. UNCHANGED Ring!Queue
    BY <1>15, QueueIsSame DEF vars
  <2>2. Protocol' /\ UNCHANGED << Written, InHand, Taken >>
    BY <1>1, <1>15 DEF Protocol, Written, InHand, Taken, vars, ringVars
  <2>3. QED
    BY <1>2, <1>15, <2>1, <2>2, QuietStep DEF vars, ringVars
<1>20. QED
  BY <1>3, <1>4, <1>5, <1>6, <1>7, <1>8, <1>9, <1>10, <1>11, <1>12, <1>13, <1>14, <1>15
     DEF Next, Producer, Main, Ended

(* The invariant holds in every reachable state.                           *)
THEOREM StressCorrect == Spec => []StressInv
BY InitStress, StressStep, PTL DEF Spec

(* No item is lost or doubled while it is handed over through a fifo that  *)
(* may be full or empty at any time, whoever retries.                      *)
THEOREM ItemsArrive == Spec => []NoneLost
<1>1. StressInv => NoneLost
  BY DEF StressInv
<1>2. QED
  BY <1>1, StressCorrect, PTL

(* Nobody accesses an item or a field of the fifo in a data race: the      *)
(* counter alone orders what the two threads do.                           *)
THEOREM NoDataRace == Spec => []PayloadVisible
<1>1. StressInv => PayloadVisible
  BY DEF StressInv
<1>2. QED
  BY <1>1, StressCorrect, PTL

(* The main thread finds in every item what the producer filled in, and    *)
(* the items in the order in which they were written.                      *)
THEOREM ItemsIntact == Spec => []NothingCorrupt
<1>1. StressInv => NothingCorrupt
  BY DEF StressInv
<1>2. QED
  BY <1>1, StressCorrect, PTL

=============================================================================
