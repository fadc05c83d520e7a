--------------------------- MODULE RecyclingProofs ---------------------------
(***************************************************************************)
(* Proofs about Recycling, for every Size, any number of laps and all      *)
(* integer widths: two buffers more than the fifo has slots are enough for *)
(* data to be handed over in buffers that are used in turn.                *)
(***************************************************************************)
EXTENDS Recycling, Sequences, TLAPS

(* The lemmas about the ring, for the buffers as pointers.                 *)
Lemmas == INSTANCE FixedPointerFifoProofs WITH Pointers <- Buffers, Observers <- {}

-----------------------------------------------------------------------------
(* The inductive invariant: what the threads may be doing,                 *)
Datas == 0 .. Laps * Pool - 1

Protocol ==
  /\ ppc \in { "none", "fill", "write", "writing" }
  /\ cpc \in { "init", "create", "read", "reading", "examine" }
  /\ ppc = "none" <=> cpc \in { "init", "create" }
  /\ open <=> cpc # "init"
  /\ wpc # "idle" <=> ppc = "writing"
  /\ rpc # "idle" <=> cpc = "reading"
  /\ wpc # "idle" => warg = Buffer(next)
  /\ wpc = "return" => wres # Ring!NullPointer
  /\ next \in Datas /\ expect \in Datas
  /\ ppc = "none" => next = expect

(* that what was written and not yet examined is as much as there is in    *)
(* the fifo and in the hands of the consumer, in its order,                *)
After(d, k) ==
  IF d + k < Laps * Pool THEN d + k ELSE d + k - Laps * Pool   \* k pieces of data later

Written == wpc = "return" /\ wres = Ring!Stored   \* though next does not say so
InHand  == IF cpc = "examine" \/ (rpc = "return" /\ pointer # NULL) THEN 1 ELSE 0
Fresh   == IF Written THEN After(next, 1) ELSE next

InSequence ==
  open =>
    /\ Fresh = After(expect, n + InHand)
    /\ \A k \in 1 .. n : Ring!Queue[k] = Buffer(After(expect, InHand + k - 1))
    /\ rpc = "return" => pointer \in { NULL, Buffer(expect) }
    /\ cpc = "examine" => item = Buffer(expect)

(* that the buffers hold it,                                               *)
Held ==
  /\ contents \in [Buffers -> Datas \cup {Garbage}]
  /\ open => \A k \in 0 .. n + InHand - 1 :
       contents[Buffer(After(expect, k))] = After(expect, k)
  /\ ppc \in { "write", "writing" } => contents[Buffer(next)] = next

(* what of the accesses of one thread the other may not have seen,         *)
Filling(b) == << Memory(b), "exclusive", "producer" >>
Looking(b) == << Memory(b), "shared", "consumer" >>

FifoByProducer ==
  { << Ring!Counter, "shared", "producer" >>,
    << Ring!Field("write"), "shared", "producer" >>,
    << Ring!Field("write"), "exclusive", "producer" >> }

FifoByConsumer ==
  { << Ring!Counter, "shared", "consumer" >>,
    << Ring!Field("read"), "shared", "consumer" >>,
    << Ring!Field("read"), "exclusive", "consumer" >> }

ByProducer == FifoByProducer \cup { Filling(b) : b \in Buffers }
ByConsumer == FifoByConsumer \cup { Looking(b) : b \in Buffers }

Apart ==
  /\ DOMAIN unseen = Threads
  /\ unseen["consumer"] \subseteq ByProducer
  /\ ppc # "none" => unseen["producer"] \subseteq ByConsumer
  /\ ppc = "none" => unseen["consumer"] = {}

(* that a load of n shows the consumer all fillings of buffers that were   *)
(* written, so that it has seen that of the buffer it takes,               *)
Taken ==
  \/ rpc \in { "load", "advance", "decrement" }
  \/ InHand = 1

FillingsSeen ==
  /\ \A b \in Buffers :
        Filling(b) \in untold[Ring!Counter] => b = Buffer(next) /\ ~ Written
  /\ Taken => Filling(Buffer(expect)) \notin unseen["consumer"]

(* and that it shows the producer all the looking but for that at the last *)
(* buffer, which is not the one it will fill next if there is room.        *)
LookingsSeen ==
  /\ \A b \in Buffers :
        Looking(b) \in untold[Ring!Counter] =>
          b = Buffer(After(expect, Pool - 1)) /\ InHand = 0
  /\ ppc = "fill" => Looking(Buffer(next)) \notin unseen["producer"]
  /\ wpc \in { "store", "advance", "increment" } \/ Written =>
        Looking(Buffer(After(next, 1))) \notin unseen["producer"]

RecyclingInv ==
  /\ Ring!RingInv
  /\ Protocol /\ InSequence /\ Held
  /\ Apart /\ FillingsSeen /\ LookingsSeen
  /\ RefillsAfterUse /\ DataIntact

-----------------------------------------------------------------------------
(* The ring of the client.                                                 *)

(* What the lemmas assume of the constants.                                *)
LEMMA Assumptions ==
  Lemmas!SizeAssumption /\ Lemmas!WidthAssumption /\ Lemmas!PointerAssumption
BY RingAssumption DEF Lemmas!SizeAssumption, Lemmas!WidthAssumption,
   Lemmas!PointerAssumption, Ring!SizeAssumption, Ring!WidthAssumption,
   Ring!PointerAssumption

(* Both instances of the ring have the same invariant,                     *)
LEMMA SameInvariant ==
  /\ Ring!RingInv <=> Lemmas!RingInv
  /\ Ring!RingInv' <=> Lemmas!RingInv'
BY DEF Ring!RingInv, Ring!TypeOK, Ring!ClosedIsQuiet, Ring!NullStopped,
   Ring!ChecksStayTrue, Ring!IndicesMatchCount, Ring!SlotsHoldPointers,
   Ring!TakenPointerIntact, Ring!Slots, Ring!Stored, Ring!FifoFull,
   Ring!NullPointer, Ring!At, Ring!Oldest, Ring!Back, Lemmas!RingInv,
   Lemmas!TypeOK, Lemmas!ClosedIsQuiet, Lemmas!NullStopped,
   Lemmas!ChecksStayTrue, Lemmas!IndicesMatchCount, Lemmas!SlotsHoldPointers,
   Lemmas!TakenPointerIntact, Lemmas!Slots, Lemmas!Stored, Lemmas!FifoFull,
   Lemmas!NullPointer, Lemmas!At, Lemmas!Oldest, Lemmas!Back

(* the same steps,                                                         *)
LEMMA SameActions ==
  /\ Ring!WriteStep <=> Lemmas!WriteStep
  /\ Ring!ReadStep <=> Lemmas!ReadStep
  /\ [Ring!Next]_(Ring!vars) <=> [Lemmas!Next]_(Lemmas!vars)
BY DEF Ring!InitFifo, Ring!DoneFifo, Ring!CallWrite, Ring!WriteStep,
   Ring!WriteNull, Ring!WriteFull, Ring!WriteHasRoom, Ring!WriteStore,
   Ring!WriteAdvance, Ring!WriteIncrement, Ring!WriteReturn, Ring!CallRead,
   Ring!ReadStep, Ring!ReadEmpty, Ring!ReadHasPointer, Ring!ReadLoad,
   Ring!ReadAdvance, Ring!ReadDecrement, Ring!ReadReturn, Ring!GetCount,
   Ring!Count, Ring!Wrap, Ring!fifoVars, Ring!producerVars,
   Ring!consumerVars, Ring!Stored, Ring!FifoFull, Ring!NullPointer,
   Ring!Next, Ring!vars, Lemmas!InitFifo, Lemmas!DoneFifo, Lemmas!CallWrite,
   Lemmas!WriteStep, Lemmas!WriteNull, Lemmas!WriteFull, Lemmas!WriteHasRoom,
   Lemmas!WriteStore, Lemmas!WriteAdvance, Lemmas!WriteIncrement,
   Lemmas!WriteReturn, Lemmas!CallRead, Lemmas!ReadStep, Lemmas!ReadEmpty,
   Lemmas!ReadHasPointer, Lemmas!ReadLoad, Lemmas!ReadAdvance,
   Lemmas!ReadDecrement, Lemmas!ReadReturn, Lemmas!GetCount, Lemmas!Count,
   Lemmas!Wrap, Lemmas!fifoVars, Lemmas!producerVars, Lemmas!consumerVars,
   Lemmas!Stored, Lemmas!FifoFull, Lemmas!NullPointer, Lemmas!Next,
   Lemmas!vars

(* and the same queue.                                                     *)
LEMMA SameQueue == Ring!Queue = Lemmas!Queue /\ Ring!Queue' = Lemmas!Queue'
BY DEF Ring!Queue, Ring!At, Ring!Oldest, Ring!Back, Lemmas!Queue, Lemmas!At,
   Lemmas!Oldest, Lemmas!Back

(* The invariant holds of the uninitialized fifo,                          *)
LEMMA RingStarts == Ring!Init => Ring!RingInv
<1>1. Ring!Init <=> Lemmas!Init
  BY DEF Ring!Init, Ring!Slots, Ring!Stored, Lemmas!Init, Lemmas!Slots, Lemmas!Stored
<1>2. QED
  BY <1>1, Assumptions, Lemmas!InitRing, SameInvariant

(* and every step of the fifo keeps it.                                    *)
LEMMA RingStep == Ring!RingInv /\ [Ring!Next]_(Ring!vars) => Ring!RingInv'
BY Assumptions, Lemmas!RingStep, SameInvariant, SameActions

(* The queue of an open fifo has as many pointers as the counter says.     *)
LEMMA QueueIsSeq ==
  ASSUME Ring!RingInv, open
  PROVE  Ring!Queue \in Seq(Buffers) /\ Len(Ring!Queue) = n
BY Assumptions, Lemmas!QueueIsSeq, SameInvariant, SameQueue

(* What a step of _write does, when it does not return: at the increment,  *)
(* and only there, the pointer is appended.                                *)
LEMMA WriteOutcome ==
  ASSUME Ring!RingInv, Ring!WriteStep, wpc # "return"
  PROVE  /\ open /\ UNCHANGED << open, warg, rpc, pointer >>
         /\ \/ /\ wpc' \in { "store", "advance", "increment" }
               /\ wpc' = "store" <=> wpc = "enter"
               /\ UNCHANGED << n, Ring!Queue >>
            \/ /\ wpc' = "return" /\ wres' = Ring!NullPointer /\ warg = NULL
               /\ UNCHANGED << n, Ring!Queue >>
            \/ /\ wpc' = "return" /\ wres' = Ring!FifoFull
               /\ UNCHANGED << n, Ring!Queue >>
            \/ /\ wpc' = "return" /\ wres' = Ring!Stored /\ n \in 0 .. Size - 1
               /\ n' = n + 1 /\ Ring!Queue' = Append(Ring!Queue, warg)
               /\ wpc \in { "store", "advance", "increment" }
BY Assumptions, Lemmas!WriteOutcome, SameInvariant, SameActions, SameQueue
   DEF Ring!Stored, Ring!FifoFull, Ring!NullPointer, Lemmas!Stored, Lemmas!FifoFull,
   Lemmas!NullPointer

(* What a step of _read does, when it does not return: at the decrement,   *)
(* and only there, the head is removed.                                    *)
LEMMA ReadOutcome ==
  ASSUME Ring!RingInv, Ring!ReadStep, rpc # "return"
  PROVE  /\ open /\ UNCHANGED << open, wpc, warg, wres >>
         /\ \/ /\ rpc' \in { "load", "advance", "decrement" }
               /\ rpc' = "load" <=> rpc = "enter"
               /\ UNCHANGED << n, Ring!Queue >>
            \/ /\ rpc' = "return" /\ pointer' = NULL
               /\ UNCHANGED << n, Ring!Queue >>
            \/ /\ rpc' = "return" /\ pointer' = Head(Ring!Queue) /\ n \in 1 .. Size
               /\ n' = n - 1 /\ Ring!Queue' = Tail(Ring!Queue)
               /\ rpc \in { "load", "advance", "decrement" }
BY Assumptions, Lemmas!ReadOutcome, SameInvariant, SameActions, SameQueue

(* Neither to enter a call nor to return from one moves a pointer.         *)
LEMMA CallsKeepQueue ==
  ASSUME Ring!RingInv,
         (\E p : Ring!CallWrite(p)) \/ Ring!WriteReturn \/ Ring!CallRead \/ Ring!ReadReturn
  PROVE  UNCHANGED << n, open, Ring!Queue >>
<1>1. (\E p : Lemmas!CallWrite(p)) \/ Lemmas!WriteReturn \/ Lemmas!CallRead
      \/ Lemmas!ReadReturn
  BY DEF Ring!CallWrite, Ring!WriteReturn, Ring!CallRead, Ring!ReadReturn,
     Ring!fifoVars, Ring!producerVars, Ring!consumerVars, Ring!Stored,
     Lemmas!CallWrite, Lemmas!WriteReturn, Lemmas!CallRead, Lemmas!ReadReturn,
     Lemmas!fifoVars, Lemmas!producerVars, Lemmas!consumerVars, Lemmas!Stored
<1>2. QED
  BY <1>1, Assumptions, Lemmas!CallsKeepQueue, SameInvariant, SameQueue

-----------------------------------------------------------------------------
(* What a call that was made accesses.                                     *)

(* The locations of the fifo and of the buffers are all different.           *)
LEMMA Locations ==
  /\ Ring!Counter # Ring!Field("write") /\ Ring!Counter # Ring!Field("read")
  /\ Ring!Field("write") # Ring!Field("read")
  /\ \A b : /\ Memory(b) # Ring!Counter
            /\ Memory(b) # Ring!Field("write") /\ Memory(b) # Ring!Field("read")
  /\ \A a, b : Memory(a) = Memory(b) => a = b
BY DEF Ring!Counter, Ring!Field, Memory

(* The accesses of one step of t.                                          *)
Accesses(t, shared, exclusive) ==
  (shared \X {"shared"} \X {t}) \cup (exclusive \X {"exclusive"} \X {t})

(* They reach the other thread unseen, and a load of n that does not see   *)
(* them; a step sees at most what is untold at what it loads.              *)
LEMMA AccessOutcome ==
  ASSUME NEW t \in Threads, NEW u \in Threads, t # u,
         NEW from, NEW shared, NEW exclusive, NEW to,
         Ring!HB!Access(t, from, shared, exclusive, to)
  PROVE  /\ DOMAIN unseen' = Threads
         /\ unseen'[t] \subseteq unseen[t]
         /\ Ring!Counter \in from => unseen'[t] \subseteq untold[Ring!Counter]
         /\ unseen'[u] = unseen[u] \cup Accesses(t, shared, exclusive)
         /\ Ring!Counter \notin to =>
              untold'[Ring!Counter] = untold[Ring!Counter] \cup Accesses(t, shared, exclusive)
         /\ Ring!Counter \in to => untold'[Ring!Counter] = unseen'[t]
BY DEF Ring!HB!Access, Accesses

(* There is no race if all that t has not seen is compatible with what it  *)
(* does now.                                                               *)
LEMMA NoRace ==
  ASSUME NEW t \in Threads,
         NEW from, NEW shared, NEW exclusive, NEW to,
         Ring!HB!Access(t, from, shared, exclusive, to),
         \A a \in unseen[t] : /\ a[1] \notin exclusive
                              /\ a[1] \in shared => a[2] # "exclusive"
  PROVE  races' = races
BY DEF Ring!HB!Access

(* The accesses of _write are compatible with those of the other thread.   *)
LEMMA ProducerAccess ==
  ASSUME NEW from, NEW shared, NEW exclusive, NEW to,
         Ring!HB!Access("producer", from, shared, exclusive, to),
         shared \subseteq { Ring!Counter, Ring!Field("write") },
         exclusive \subseteq { Ring!Field("write") },
         unseen["producer"] \subseteq ByConsumer
  PROVE  /\ DOMAIN unseen' = Threads
         /\ unseen'["producer"] \subseteq unseen["producer"]
         /\ Ring!Counter \in from => unseen'["producer"] \subseteq untold[Ring!Counter]
         /\ unseen'["consumer"] \subseteq unseen["consumer"] \cup FifoByProducer
         /\ Ring!Counter \notin to => untold'[Ring!Counter] \subseteq untold[Ring!Counter] \cup FifoByProducer
         /\ Ring!Counter \in to => untold'[Ring!Counter] = unseen'["producer"]
         /\ races' = races
<1>1. "producer" \in Threads /\ "consumer" \in Threads
  BY DEF Threads
<1>2. Accesses("producer", shared, exclusive) \subseteq FifoByProducer
  BY DEF Accesses, FifoByProducer
<1>3. \A a \in unseen["producer"] :
        /\ a[1] \notin exclusive
        /\ a[1] \in shared => a[2] # "exclusive"
  BY Locations DEF ByConsumer, FifoByConsumer, Looking
<1>4. races' = races
  BY <1>1, <1>3, NoRace
<1>5. QED
  BY <1>1, <1>2, <1>4, AccessOutcome

(* So are those of _read.                                                  *)
LEMMA ConsumerAccess ==
  ASSUME NEW from, NEW shared, NEW exclusive, NEW to,
         Ring!HB!Access("consumer", from, shared, exclusive, to),
         shared \subseteq { Ring!Counter, Ring!Field("read") },
         exclusive \subseteq { Ring!Field("read") },
         unseen["consumer"] \subseteq ByProducer
  PROVE  /\ DOMAIN unseen' = Threads
         /\ unseen'["consumer"] \subseteq unseen["consumer"]
         /\ Ring!Counter \in from => unseen'["consumer"] \subseteq untold[Ring!Counter]
         /\ unseen'["producer"] \subseteq unseen["producer"] \cup FifoByConsumer
         /\ Ring!Counter \notin to => untold'[Ring!Counter] \subseteq untold[Ring!Counter] \cup FifoByConsumer
         /\ Ring!Counter \in to => untold'[Ring!Counter] = unseen'["consumer"]
         /\ races' = races
<1>1. "consumer" \in Threads /\ "producer" \in Threads
  BY DEF Threads
<1>2. Accesses("consumer", shared, exclusive) \subseteq FifoByConsumer
  BY DEF Accesses, FifoByConsumer
<1>3. \A a \in unseen["consumer"] :
        /\ a[1] \notin exclusive
        /\ a[1] \in shared => a[2] # "exclusive"
  BY Locations DEF ByProducer, FifoByProducer, Filling
<1>4. races' = races
  BY <1>1, <1>3, NoRace
<1>5. QED
  BY <1>1, <1>2, <1>4, AccessOutcome

(* What _write accesses, and what of it a load of n may not show.          *)
LEMMA WriteAccess ==
  ASSUME wpc # "return", Ring!WriteBy("producer"),
         DOMAIN unseen = Threads, unseen["producer"] \subseteq ByConsumer
  PROVE  /\ Ring!WriteStep
         /\ DOMAIN unseen' = Threads
         /\ unseen'["producer"] \subseteq unseen["producer"]
         /\ unseen'["consumer"] \subseteq unseen["consumer"] \cup FifoByProducer
         /\ wpc' = "store" => unseen'["producer"] \subseteq untold[Ring!Counter]
         /\ untold'[Ring!Counter] \subseteq untold[Ring!Counter] \cup FifoByProducer
         /\ wpc' = "return" /\ wres' = Ring!Stored => untold'[Ring!Counter] \subseteq ByConsumer
         /\ races' = races
<1>1. CASE /\ Ring!WriteNull \/ Ring!WriteReturn
           /\ UNCHANGED Ring!hbVars
  BY <1>1 DEF Ring!hbVars, Ring!WriteStep, Ring!WriteNull, Ring!WriteReturn,
     Ring!NullPointer, Ring!Stored
<1>2. CASE /\ Ring!WriteFull \/ Ring!WriteHasRoom
           /\ Ring!HB!Access("producer", {Ring!Counter}, {Ring!Counter}, {}, {})
  <2>1. ~ (wpc' = "return" /\ wres' = Ring!Stored)
    BY <1>2 DEF Ring!WriteFull, Ring!WriteHasRoom, Ring!FifoFull, Ring!Stored
  <2>2. QED
    BY <1>2, <2>1, ProducerAccess DEF Ring!WriteStep
<1>3. CASE /\ Ring!WriteStore
           /\ Ring!HB!Access("producer", {}, {Ring!Field("write")}, {}, {Ring!Slot(write)})
  <2>1. wpc' = "advance" /\ Ring!Counter # Ring!Slot(write)
    BY <1>3 DEF Ring!WriteStore, Ring!Counter, Ring!Field, Ring!Slot
  <2>2. QED
    BY <1>3, <2>1, ProducerAccess DEF Ring!WriteStep
<1>4. CASE /\ Ring!WriteAdvance
           /\ Ring!HB!Access("producer", {}, {}, {Ring!Field("write")}, {})
  <2>1. wpc' = "increment"
    BY <1>4 DEF Ring!WriteAdvance
  <2>2. QED
    BY <1>4, <2>1, ProducerAccess DEF Ring!WriteStep
<1>5. CASE /\ Ring!WriteIncrement
           /\ Ring!HB!Access("producer", {Ring!Counter}, {Ring!Counter}, {}, {Ring!Counter})
  <2>1. wpc' = "return"
    BY <1>5 DEF Ring!WriteIncrement
  <2>2. QED
    BY <1>5, <2>1, ProducerAccess DEF Ring!WriteStep
<1>6. QED
  BY <1>1, <1>2, <1>3, <1>4, <1>5 DEF Ring!WriteBy

(* What _read accesses; a load of n shows what is not untold.              *)
LEMMA ReadAccess ==
  ASSUME rpc # "return", Ring!ReadBy("consumer"),
         DOMAIN unseen = Threads, unseen["consumer"] \subseteq ByProducer
  PROVE  /\ Ring!ReadStep
         /\ DOMAIN unseen' = Threads
         /\ unseen'["consumer"] \subseteq unseen["consumer"]
         /\ rpc' = "load" => unseen'["consumer"] \subseteq untold[Ring!Counter]
         /\ unseen'["producer"] \subseteq unseen["producer"] \cup FifoByConsumer
         /\ untold'[Ring!Counter] \subseteq untold[Ring!Counter] \cup FifoByConsumer
         /\ rpc' = "return" /\ rpc # "enter" => untold'[Ring!Counter] \subseteq ByProducer
         /\ races' = races
<1>1. CASE /\ Ring!ReadEmpty \/ Ring!ReadHasPointer
           /\ Ring!HB!Access("consumer", {Ring!Counter}, {Ring!Counter}, {}, {})
  <2>1. rpc = "enter"
    BY <1>1 DEF Ring!ReadEmpty, Ring!ReadHasPointer
  <2>2. QED
    BY <1>1, <2>1, ConsumerAccess DEF Ring!ReadStep
<1>2. CASE /\ Ring!ReadLoad
           /\ Ring!HB!Access("consumer", {Ring!Slot(read)}, {Ring!Field("read")}, {}, {})
  <2>1. rpc' = "advance"
    BY <1>2 DEF Ring!ReadLoad
  <2>2. QED
    BY <1>2, <2>1, ConsumerAccess DEF Ring!ReadStep
<1>3. CASE /\ Ring!ReadAdvance
           /\ Ring!HB!Access("consumer", {}, {}, {Ring!Field("read")}, {})
  <2>1. rpc' = "decrement"
    BY <1>3 DEF Ring!ReadAdvance
  <2>2. QED
    BY <1>3, <2>1, ConsumerAccess DEF Ring!ReadStep
<1>4. CASE /\ Ring!ReadDecrement
           /\ Ring!HB!Access("consumer", {Ring!Counter}, {Ring!Counter}, {}, {Ring!Counter})
  <2>1. rpc' # "load"
    BY <1>4 DEF Ring!ReadDecrement
  <2>2. QED
    BY <1>4, <2>1, ConsumerAccess DEF Ring!ReadStep
<1>5. QED
  BY <1>1, <1>2, <1>3, <1>4 DEF Ring!ReadBy, Ring!ReadReturn

-----------------------------------------------------------------------------
(* The numbers of the data and their buffers.                              *)

(* A remainder is known by the product that it is left over from.          *)
LEMMA ModUnique ==
  ASSUME NEW P \in Nat \ {0}, NEW q \in Int, NEW r \in 0 .. P - 1
  PROVE  (P * q + r) % P = r
<1> DEFINE x == P * q + r
           q2 == x \div P
           r2 == x % P
<1>1. x \in Int
  OBVIOUS
<1>2. q2 \in Int /\ r2 \in 0 .. P - 1 /\ x = P * q2 + r2
  BY <1>1
<1> HIDE DEF q2, r2
<1>3. CASE q2 >= q + 1
  <2>1. P * q2 >= P * (q + 1)
    BY <1>2, <1>3
  <2>2. QED
    BY <1>2, <2>1
<1>4. CASE q2 <= q - 1
  <2>1. P * q2 <= P * (q - 1)
    BY <1>2, <1>4
  <2>2. QED
    BY <1>2, <2>1
<1>5. CASE q2 = q
  BY <1>2, <1>5
<1>6. r2 = r
  BY <1>2, <1>3, <1>4, <1>5
<1>7. QED
  BY <1>6 DEF r2

(* What is d modulo the Pool, written as quotient and remainder.           *)
LEMMA Divided ==
  ASSUME NEW d \in Nat
  PROVE  /\ Buffer(d) \in Buffers
         /\ \E q \in Nat : d = Pool * q + Buffer(d)
<1>1. Pool \in Nat \ {0}
  BY RingAssumption DEF Ring!SizeAssumption, Pool
<1> DEFINE q == d \div Pool
           r == d % Pool
<1>2. q \in Int /\ r \in 0 .. Pool - 1 /\ d = Pool * q + r
  BY <1>1
<1> HIDE DEF q, r
<1>3. q \in Nat
  <2>1. CASE q <= -1
    <3>1. Pool * q <= Pool * (-1)
      BY <1>1, <1>2, <2>1
    <3>2. QED
      BY <1>1, <1>2, <3>1
  <2>2. QED
    BY <1>2, <2>1
<1>4. QED
  BY <1>2, <1>3 DEF Buffer, Buffers, r

(* There are two more buffers than slots, and at least two laps.           *)
LEMMA Sizes ==
  /\ Size \in Nat \ {0} /\ Pool = Size + 2
  /\ Laps * Pool \in Nat /\ Laps * Pool >= 2 * Pool
<1>1. Size \in Nat \ {0} /\ Pool = Size + 2 /\ Laps \in Nat /\ Laps >= 2
  BY LapsAssumption, RingAssumption DEF Ring!SizeAssumption, Pool
<1>2. \A l, p \in Nat : l >= 2 => l * p \in Nat /\ l * p >= 2 * p
  <2> SUFFICES ASSUME NEW l \in Nat, NEW p \in Nat, l >= 2
               PROVE  l * p \in Nat /\ l * p >= 2 * p
    OBVIOUS
  <2>1. PICK m \in Nat : l = m + 2
    <3>1. l - 2 \in Nat /\ l = (l - 2) + 2
      OBVIOUS
    <3>2. QED
      BY <3>1
  <2>2. m * p \in Nat
    OBVIOUS
  <2>3. (m + 2) * p = m * p + 2 * p
    OBVIOUS
  <2>4. QED
    BY <2>1, <2>2, <2>3
<1>3. Pool \in Nat
  BY <1>1
<1>4. QED
  BY <1>1, <1>2, <1>3

(* Going on by some pieces of data, at most as many as there are buffers.  *)
LEMMA AfterWalks ==
  ASSUME NEW d \in Datas
  PROVE  /\ After(d, 0) = d
         /\ (d + 1) % (Laps * Pool) = After(d, 1)
         /\ \A k \in 0 .. Pool : After(d, k) \in Datas
         /\ \A j, k \in 0 .. Pool : j + k <= Pool => After(After(d, j), k) = After(d, j + k)
<1> DEFINE M == Laps * Pool
<1>1. M \in Nat /\ Pool \in Nat /\ M >= 2 * Pool /\ Pool > 1 /\ d \in 0 .. M - 1
  BY Sizes DEF Datas
<1> HIDE DEF M
<1>2. \A x, k : After(x, k) = IF x + k < M THEN x + k ELSE x + k - M
  BY DEF After, M
<1>3. Datas = 0 .. M - 1
  BY DEF Datas, M
<1>4. (d + 1) % M = After(d, 1)
  BY <1>1, <1>2
<1>5. /\ After(d, 0) = d
      /\ \A k \in 0 .. Pool : After(d, k) \in Datas
      /\ \A j, k \in 0 .. Pool : j + k <= Pool => After(After(d, j), k) = After(d, j + k)
  <2>1. After(d, 0) = d
    BY <1>1, <1>2
  <2>2. \A k \in 0 .. Pool : After(d, k) \in Datas
    BY <1>1, <1>2, <1>3
  <2>3. ASSUME NEW j \in 0 .. Pool, NEW k \in 0 .. Pool, j + k <= Pool
        PROVE  After(After(d, j), k) = After(d, j + k)
    <3>1. CASE d + j < M
      BY <1>1, <1>2, <2>3, <3>1
    <3>2. CASE d + j >= M
      BY <1>1, <1>2, <2>3, <3>2
    <3>3. QED
      BY <1>1, <3>1, <3>2
  <2>4. QED
    BY <2>1, <2>2, <2>3
<1>6. QED
  BY <1>4, <1>5 DEF M

(* The buffers that are used after that of d.                              *)
Later(b, k) == IF b + k < Pool THEN b + k ELSE b + k - Pool

(* Later data are in later buffers, modulo the Pool.                       *)
LEMMA LaterBuffer ==
  ASSUME NEW d \in Datas, NEW k \in 0 .. Pool
  PROVE  Buffer(After(d, k)) = Later(Buffer(d), k)
<1> DEFINE r == Buffer(d)
<1>1. /\ Pool \in Nat \ {0} /\ Laps \in Nat /\ Laps * Pool \in Nat /\ d \in Nat
      /\ Pool * Laps = Laps * Pool
  BY Sizes, LapsAssumption DEF Datas
<1>2. PICK q \in Nat : d = Pool * q + r
  BY <1>1, Divided
<1>3. r \in 0 .. Pool - 1
  BY <1>1, Divided DEF Buffers
<1> HIDE DEF r
<1>4. \A p \in Int, s \in 0 .. Pool - 1 : (Pool * p + s) % Pool = s
  BY <1>1, ModUnique
<1>5. /\ Pool * (q + 1) = Pool * q + Pool
      /\ Pool * (q - Laps) = Pool * q - Laps * Pool
      /\ Pool * (q + 1 - Laps) = Pool * q + Pool - Laps * Pool
      /\ Pool * q \in Int
  BY <1>1, <1>2
<1>6. CASE d + k < Laps * Pool /\ r + k < Pool
  <2>1. After(d, k) = Pool * q + (r + k) /\ r + k \in 0 .. Pool - 1
    BY <1>1, <1>2, <1>3, <1>5, <1>6 DEF After
  <2>2. q \in Int
    BY <1>1, <1>2
  <2>3. After(d, k) % Pool = r + k
    BY <1>4, <2>1, <2>2
  <2>4. QED
    BY <1>6, <2>3 DEF Buffer, Later, r
<1>7. CASE d + k < Laps * Pool /\ r + k >= Pool
  <2>1. After(d, k) = Pool * (q + 1) + (r + k - Pool) /\ r + k - Pool \in 0 .. Pool - 1
    BY <1>1, <1>2, <1>3, <1>5, <1>7 DEF After
  <2>2. q + 1 \in Int
    BY <1>1, <1>2
  <2>3. After(d, k) % Pool = r + k - Pool
    BY <1>4, <2>1, <2>2
  <2>4. QED
    BY <1>1, <1>3, <1>7, <2>3 DEF Buffer, Later, r
<1>8. CASE d + k >= Laps * Pool /\ r + k < Pool
  <2>1. After(d, k) = Pool * (q - Laps) + (r + k) /\ r + k \in 0 .. Pool - 1
    BY <1>1, <1>2, <1>3, <1>5, <1>8 DEF After
  <2>2. q - Laps \in Int
    BY <1>1, <1>2
  <2>3. After(d, k) % Pool = r + k
    BY <1>4, <2>1, <2>2
  <2>4. QED
    BY <1>8, <2>3 DEF Buffer, Later, r
<1>9. CASE d + k >= Laps * Pool /\ r + k >= Pool
  <2>1. /\ After(d, k) = Pool * (q + 1 - Laps) + (r + k - Pool)
        /\ r + k - Pool \in 0 .. Pool - 1
    BY <1>1, <1>2, <1>3, <1>5, <1>9 DEF After
  <2>2. q + 1 - Laps \in Int
    BY <1>1, <1>2
  <2>3. After(d, k) % Pool = r + k - Pool
    BY <1>4, <2>1, <2>2
  <2>4. QED
    BY <1>1, <1>3, <1>9, <2>3 DEF Buffer, Later, r
<1>10. QED
  BY <1>1, <1>3, <1>6, <1>7, <1>8, <1>9

(* Fewer pieces of data in a row than there are buffers use different      *)
(* buffers, and after all of them comes the first one again.               *)
LEMMA BuffersDiffer ==
  ASSUME NEW d \in Datas
  PROVE  /\ Buffer(d) \in Buffers
         /\ Buffer(After(d, Pool)) = Buffer(d)
         /\ \A k \in 0 .. Pool : Buffer(After(d, k)) \in Buffers
         /\ \A j, k \in 0 .. Pool - 1 :
              j # k => Buffer(After(d, j)) # Buffer(After(d, k))
<1>1. Pool \in Nat /\ Pool > 1 /\ Datas \subseteq Nat
  BY Sizes DEF Datas
<1>2. Buffer(d) \in 0 .. Pool - 1
  BY <1>1, Divided DEF Buffers
<1>3. \A k \in 0 .. Pool : Buffer(After(d, k)) = Later(Buffer(d), k)
  BY LaterBuffer
<1>4. QED
  BY <1>1, <1>2, <1>3 DEF Later, Buffers

-----------------------------------------------------------------------------
(* The invariant is inductive.                                             *)

(* What it says of the numbers in play.                                    *)
LEMMA Counts ==
  ASSUME RecyclingInv
  PROVE  /\ expect \in Datas /\ next \in Datas
         /\ InHand \in 0 .. 1
         /\ open => n \in 0 .. Size
         /\ open => Ring!Queue \in Seq(Buffers) /\ Len(Ring!Queue) = n
         /\ open /\ rpc \in { "load", "advance", "decrement" } => n > 0
         /\ wpc \in { "store", "advance", "increment" } => n < Size
         /\ wpc # "return" => ~ Written
         /\ open /\ ~ Written => next = After(expect, n + InHand)
         /\ open /\ Written => After(next, 1) = After(expect, n + InHand)
BY QueueIsSeq DEF RecyclingInv, Protocol, InSequence, InHand, Written, Fresh,
   Ring!RingInv, Ring!TypeOK, Ring!ChecksStayTrue

(* Which accesses are not the same.                                        *)
LEMMA AccessesDiffer ==
  /\ \A b \in Buffers : /\ Filling(b) \notin FifoByProducer
                        /\ Filling(b) \notin ByConsumer
                        /\ Looking(b) \notin FifoByConsumer
                        /\ Looking(b) \notin ByProducer
  /\ \A b \in Buffers : Filling(b) \in ByProducer /\ Looking(b) \in ByConsumer
  /\ \A a, b : Filling(a) = Filling(b) => a = b
  /\ \A a, b : Looking(a) = Looking(b) => a = b
  /\ \A a, b : Looking(a) # Filling(b)
  /\ FifoByProducer \subseteq ByProducer /\ FifoByConsumer \subseteq ByConsumer
<1>1. \A b : Filling(b) \notin FifoByProducer /\ Looking(b) \notin FifoByConsumer
  BY Locations DEF Filling, Looking, FifoByProducer, FifoByConsumer
<1>2. \A a \in ByConsumer : a[3] = "consumer"
  BY DEF ByConsumer, FifoByConsumer, Looking
<1>3. \A a \in ByProducer : a[3] = "producer"
  BY DEF ByProducer, FifoByProducer, Filling
<1>4. \A b : Filling(b)[3] = "producer" /\ Looking(b)[3] = "consumer"
  BY DEF Filling, Looking
<1>5. /\ \A a, b : Filling(a) = Filling(b) => a = b
      /\ \A a, b : Looking(a) = Looking(b) => a = b
  BY Locations DEF Filling, Looking
<1>6. QED
  BY <1>1, <1>2, <1>3, <1>4, <1>5 DEF ByProducer, ByConsumer

(* The queue is in the fields of the fifo.                                 *)
LEMMA QueueIsSame ==
  ASSUME UNCHANGED ringVars
  PROVE  UNCHANGED Ring!Queue
BY DEF ringVars, Ring!Queue, Ring!At, Ring!Oldest, Ring!Back

(* The invariant holds initially.                                          *)
LEMMA InitRecycling == Init => RecyclingInv
<1> SUFFICES ASSUME Init
             PROVE  RecyclingInv
  OBVIOUS
<1>1. Ring!RingInv
  BY RingStarts DEF Init, Ring!OrderedInit
<1>2. wpc = "idle" /\ rpc = "idle" /\ open = FALSE
  BY DEF Init, Ring!OrderedInit, Ring!Init
<1>3. /\ ppc = "none" /\ next = 0 /\ cpc = "init" /\ expect = 0
      /\ contents = [b \in Buffers |-> Garbage] /\ 0 \in Datas
  BY Sizes DEF Init, Datas
<1>4. Protocol
  BY <1>2, <1>3 DEF Protocol
<1>5. InSequence /\ Held /\ DataIntact /\ ~ Taken /\ ~ Written
  BY <1>2, <1>3 DEF InSequence, Held, DataIntact, Taken, InHand, Written
<1>6. /\ unseen = [t \in Threads |-> {}] /\ untold[Ring!Counter] = {}
      /\ races = {}
  BY DEF Init, Ring!OrderedInit, Ring!HB!HBInit
<1>7. Apart /\ FillingsSeen /\ LookingsSeen /\ RefillsAfterUse
  BY <1>2, <1>3, <1>5, <1>6
     DEF Apart, FillingsSeen, LookingsSeen, RefillsAfterUse, Threads
<1>8. QED
  BY <1>1, <1>4, <1>5, <1>7 DEF RecyclingInv

(* A step that neither accesses memory nor moves data.                     *)
LEMMA QuietStep ==
  ASSUME RecyclingInv, Ring!RingInv', Protocol',
         UNCHANGED << hbVars, contents, expect, n, open, Ring!Queue, Fresh, InHand >>,
         ppc' = "none" <=> ppc = "none",
         ppc' = "writing" => ppc \in { "write", "writing" } /\ UNCHANGED next,
         ppc' = "write" => ppc \in { "write", "writing" } /\ UNCHANGED next,
         Written' => Written,
         UNCHANGED next \/ (Written /\ ~ Written'),
         ppc' = "fill" => (ppc = "fill" /\ UNCHANGED next)
                            \/ (Written /\ next' = After(next, 1)),
         wpc' \in { "store", "advance", "increment" } \/ Written' =>
            (wpc \in { "store", "advance", "increment" } \/ Written) /\ UNCHANGED next,
         rpc' = "return" => rpc = "return" /\ pointer' = pointer,
         cpc' = "examine" => item' = Buffer(expect),
         Taken' => Taken
  PROVE  RecyclingInv'
<1>1. InSequence'
  BY DEF RecyclingInv, InSequence
<1>2. Held'
  BY DEF RecyclingInv, Held
<1>3. Apart' /\ RefillsAfterUse'
  BY DEF RecyclingInv, Apart, RefillsAfterUse, hbVars
<1>4. FillingsSeen'
  BY DEF RecyclingInv, FillingsSeen, hbVars
<1>5. LookingsSeen'
  BY DEF RecyclingInv, LookingsSeen, hbVars
<1>6. DataIntact'
  <2> SUFFICES ASSUME cpc' = "examine"
               PROVE  contents'[item'] = expect
    BY DEF DataIntact
  <2>1. InHand' = 1 /\ open' /\ n' \in Nat
    <3>1. open'
      BY DEF Protocol
    <3>2. QED
      BY <3>1, Counts, Sizes DEF InHand
  <2>2. contents'[Buffer(After(expect, 0))] = After(expect, 0)
    <3>1. 0 \in 0 .. n' + InHand' - 1
      BY <2>1
    <3>2. QED
      BY <1>2, <2>1, <3>1 DEF Held
  <2>3. QED
    BY <2>2, AfterWalks, Counts
<1>7. QED
  BY <1>1, <1>2, <1>3, <1>4, <1>5, <1>6 DEF RecyclingInv

(* Every step of either thread keeps it.                                   *)
LEMMA RecyclingStep == RecyclingInv /\ [Next]_vars => RecyclingInv'
<1> SUFFICES ASSUME RecyclingInv, [Next]_vars
             PROVE  RecyclingInv'
  OBVIOUS
<1> USE DEF clientVars
<1>1. /\ Ring!RingInv /\ Protocol /\ InSequence /\ Held
      /\ Apart /\ FillingsSeen /\ LookingsSeen
      /\ RefillsAfterUse /\ DataIntact
      /\ Size \in Nat \ {0} /\ Pool = Size + 2 /\ NULL \notin Buffers
      /\ "producer" \in Threads /\ "consumer" \in Threads
  BY Sizes, RingAssumption DEF RecyclingInv, Ring!PointerAssumption, Threads
<1>2. Ring!RingInv'
  <2> USE DEF Ring!Next, Ring!vars, Ring!fifoVars, Ring!producerVars,
              Ring!consumerVars, ringVars
  <2>1. CASE Fill \/ CreateThread \/ Examine \/ UNCHANGED vars
    BY <1>1, <2>1, RingStep DEF Fill, CreateThread, Examine, vars
  <2>2. CASE TryWrite \/ WriteReturned \/ TryRead \/ ReadReturned
    <3>1. Buffer(next) \in Buffers
      BY Counts, BuffersDiffer
    <3>2. [Ring!Next]_(Ring!vars)
      BY <2>2, <3>1 DEF TryWrite, WriteReturned, TryRead, ReadReturned, Ring!WriteStep,
         Ring!ReadStep
    <3>3. QED
      BY <1>1, <3>2, RingStep
  <2>3. CASE InWrite \/ InRead \/ Start
    <3>1. Ring!Next
      BY <2>3 DEF InWrite, InRead, Start, Ring!InitBy, Ring!WriteBy,
         Ring!ReadBy, Ring!WriteStep, Ring!ReadStep
    <3>2. QED
      BY <1>1, <3>1, RingStep
  <2>4. QED
    BY <2>1, <2>2, <2>3 DEF Next, Producer, Consumer
<1>3. CASE Start
  <2>1. /\ wpc = "idle" /\ rpc = "idle" /\ n' = 0 /\ open'
        /\ UNCHANGED << wpc, warg, wres, rpc, pointer >>
    BY <1>3 DEF Start, Ring!InitBy, Ring!InitFifo, Ring!producerVars,
       Ring!consumerVars
  <2>2. cpc = "init" /\ cpc' = "create" /\ UNCHANGED << contents, ppc, next, item, expect >>
    BY <1>3 DEF Start
  <2>3. ppc = "none" /\ next = expect /\ expect \in Datas /\ ~ open
    BY <1>1, <2>2 DEF Protocol
  <2>4. Protocol' /\ DataIntact' /\ ~ Written' /\ ~ Taken' /\ InHand' = 0
    BY <1>1, <2>1, <2>2, <2>3 DEF Protocol, DataIntact, Written, Taken, InHand
  <2>5. InSequence' /\ Held'
    BY <1>1, <2>1, <2>2, <2>3, <2>4, AfterWalks DEF InSequence, Held, Fresh
  <2>6. unseen["consumer"] = {}
    BY <1>1, <2>3 DEF Apart
  <2>7. Ring!HB!Access("consumer", {}, {},
                       { Ring!Field("write"), Ring!Field("read"), Ring!Counter }, {})
    BY <1>3 DEF Start, Ring!InitBy
  <2>8. races' = races
    BY <1>1, <2>6, <2>7, NoRace
  <2>9. /\ unseen'["consumer"] = {} /\ DOMAIN unseen' = Threads
        /\ untold'[Ring!Counter] = untold[Ring!Counter] \cup
             Accesses("consumer", {}, { Ring!Field("write"), Ring!Field("read"), Ring!Counter })
    BY <1>1, <2>6, <2>7, AccessOutcome
  <2>10. \A b \in Buffers :
           /\ Filling(b) \in untold'[Ring!Counter] => Filling(b) \in untold[Ring!Counter]
           /\ Looking(b) \in untold'[Ring!Counter] => Looking(b) \in untold[Ring!Counter]
    BY <2>9, Locations DEF Accesses, Filling, Looking
  <2>11. ~ Written /\ InHand = 0
    BY <1>1, <2>1, <2>2 DEF Written, InHand, Protocol
  <2>12. Apart' /\ RefillsAfterUse'
    BY <1>1, <2>2, <2>3, <2>8, <2>9 DEF Apart, RefillsAfterUse
  <2>13. FillingsSeen' /\ LookingsSeen'
    BY <1>1, <2>1, <2>2, <2>3, <2>4, <2>9, <2>10, <2>11 DEF FillingsSeen, LookingsSeen
  <2>14. QED
    BY <1>2, <2>4, <2>5, <2>12, <2>13 DEF RecyclingInv
<1>4. CASE CreateThread
  <2>1. /\ cpc = "create" /\ cpc' = "read" /\ ppc' = "fill"
        /\ UNCHANGED << ringVars, contents, next, item, expect, untold, races >>
        /\ unseen' = [unseen EXCEPT !["producer"] = @ \cap unseen["consumer"]]
    BY <1>4 DEF CreateThread, Ring!HB!Follow
  <2>2. ppc = "none" /\ wpc = "idle" /\ rpc = "idle"
    BY <1>1, <2>1 DEF Protocol
  <2>3. /\ Protocol' /\ Held' /\ DataIntact'
        /\ UNCHANGED << Written, Taken, InHand >> /\ ~ Written
    BY <1>1, <2>1, <2>2 DEF Protocol, Held, DataIntact, Written, Taken, InHand, ringVars
  <2>4. unseen'["producer"] = {} /\ unseen'["consumer"] = {} /\ DOMAIN unseen' = Threads
    BY <1>1, <2>1, <2>2 DEF Apart
  <2>5. InSequence'
    BY <1>1, <2>1, <2>2, <2>3, QueueIsSame DEF InSequence, Fresh, ringVars
  <2>6. Apart' /\ FillingsSeen' /\ LookingsSeen' /\ RefillsAfterUse'
    BY <1>1, <2>1, <2>2, <2>3, <2>4
       DEF Apart, FillingsSeen, LookingsSeen, RefillsAfterUse
  <2>7. QED
    BY <1>2, <2>3, <2>5, <2>6 DEF RecyclingInv
<1>5. CASE Fill
  <2>1. /\ ppc = "fill" /\ ppc' = "write"
        /\ contents' = [contents EXCEPT ![Buffer(next)] = next]
        /\ UNCHANGED << ringVars, next, cpc, item, expect >>
        /\ Ring!HB!Access("producer", {}, {}, {Memory(Buffer(next))}, {})
    BY <1>5 DEF Fill
  <2>2. /\ open /\ wpc = "idle" /\ ~ Written /\ next \in Datas /\ expect \in Datas
        /\ Buffer(next) \in Buffers /\ next = After(expect, n + InHand)
        /\ n + InHand \in 0 .. Pool - 1
    BY <1>1, <2>1, Counts, BuffersDiffer DEF Protocol
  <2>3. \A a \in unseen["producer"] : a[1] # Memory(Buffer(next))
    BY <1>1, <2>1, <2>2, Locations DEF Apart, LookingsSeen, ByConsumer, FifoByConsumer, Looking
  <2>4. races' = races
    BY <1>1, <2>1, <2>3, NoRace
  <2>5. /\ DOMAIN unseen' = Threads
        /\ unseen'["producer"] \subseteq unseen["producer"]
        /\ unseen'["consumer"] = unseen["consumer"] \cup {Filling(Buffer(next))}
        /\ untold'[Ring!Counter] = untold[Ring!Counter] \cup {Filling(Buffer(next))}
    <3>1. Accesses("producer", {}, {Memory(Buffer(next))}) = {Filling(Buffer(next))}
      BY DEF Accesses, Filling
    <3>2. QED
      BY <1>1, <2>1, <3>1, AccessOutcome, Locations
  <2>6. /\ Protocol' /\ RefillsAfterUse'
        /\ UNCHANGED << Written, Taken, InHand, Fresh >>
    BY <1>1, <2>1, <2>2, <2>4
       DEF Protocol, RefillsAfterUse, Written, Taken, InHand, Fresh, ringVars
  <2>7. InSequence'
    BY <1>1, <2>1, <2>6, QueueIsSame DEF InSequence, ringVars
  <2>8. \A k \in 0 .. n + InHand - 1 : Buffer(After(expect, k)) # Buffer(next)
    <3>1. \A k \in 0 .. n + InHand - 1 : k \in 0 .. Pool - 1 /\ k # n + InHand
      <4>1. n \in 0 .. Size /\ InHand \in 0 .. 1
        BY <2>2, Counts
      <4>2. QED
        BY <1>1, <4>1
    <3>2. QED
      BY <2>2, <3>1, BuffersDiffer
  <2>9. Held'
    <3>1. /\ contents' \in [Buffers -> Datas \cup {Garbage}]
          /\ contents'[Buffer(next)] = next
          /\ \A b \in Buffers : b # Buffer(next) => contents'[b] = contents[b]
      BY <1>1, <2>1, <2>2 DEF Held
    <3>2. \A k \in 0 .. n + InHand - 1 :
            /\ Buffer(After(expect, k)) \in Buffers
            /\ contents[Buffer(After(expect, k))] = After(expect, k)
      <4>1. \A k \in 0 .. n + InHand - 1 : k \in 0 .. Pool
        BY <1>1, <2>2, Counts
      <4>2. QED
        BY <1>1, <2>2, <4>1, BuffersDiffer DEF Held
    <3>3. QED
      BY <1>1, <2>1, <2>2, <2>6, <2>8, <3>1, <3>2 DEF Held, ringVars
  <2>10. Apart'
    BY <1>1, <2>1, <2>2, <2>5, AccessesDiffer DEF Apart
  <2>11. FillingsSeen'
    <3>1. Taken => 0 \in 0 .. n + InHand - 1
      BY <1>1, <2>2, Counts DEF Taken
    <3>2. Taken => Buffer(expect) # Buffer(next) /\ Buffer(expect) \in Buffers
      BY <2>2, <2>8, <3>1, AfterWalks, BuffersDiffer
    <3>3. \A b \in Buffers :
            Filling(b) \in untold'[Ring!Counter] => b = Buffer(next)
      BY <1>1, <2>5, AccessesDiffer DEF FillingsSeen
    <3>4. Taken' => Filling(Buffer(expect)) \notin unseen'["consumer"]
      BY <1>1, <2>5, <2>6, <3>2, AccessesDiffer DEF FillingsSeen
    <3>5. QED
      BY <2>1, <2>2, <2>6, <3>3, <3>4 DEF FillingsSeen
  <2>12. LookingsSeen'
    BY <1>1, <2>1, <2>2, <2>5, <2>6, AccessesDiffer DEF LookingsSeen, ringVars
  <2>13. DataIntact'
    <3>1. ASSUME cpc = "examine"
          PROVE  /\ item = Buffer(expect) /\ Buffer(expect) \in Buffers
                 /\ Buffer(expect) # Buffer(next)
      <4>1. InHand = 1 /\ 0 \in 0 .. n + InHand - 1
        BY <1>1, <2>2, <3>1, Counts DEF InHand
      <4>2. Buffer(expect) # Buffer(next) /\ Buffer(expect) \in Buffers
        BY <2>2, <2>8, <4>1, AfterWalks, BuffersDiffer
      <4>3. QED
        BY <1>1, <2>2, <3>1, <4>2 DEF InSequence
    <3>2. QED
      BY <1>1, <2>1, <2>2, <3>1 DEF DataIntact, Held
  <2>14. QED
    BY <1>2, <2>6, <2>7, <2>9, <2>10, <2>11, <2>12, <2>13 DEF RecyclingInv
<1>6. CASE TryWrite
  <2>1. /\ ppc = "write" /\ ppc' = "writing" /\ open /\ wpc = "idle"
        /\ wpc' = "enter" /\ warg' = Buffer(next)
        /\ UNCHANGED << contents, next, cpc, item, expect, hbVars, rpc, pointer >>
    BY <1>6 DEF TryWrite, Ring!CallWrite, Ring!consumerVars
  <2>2. UNCHANGED << n, open, Ring!Queue >>
    BY <1>1, <1>6, CallsKeepQueue DEF TryWrite
  <2>3. Protocol'
    BY <1>1, <2>1, <2>2 DEF Protocol
  <2>4. UNCHANGED << Written, InHand, Taken, Fresh >> /\ ~ Written
    BY <2>1 DEF Written, InHand, Taken, Fresh
  <2>5. cpc' = "examine" => item' = Buffer(expect)
    BY <1>1, <2>1 DEF InSequence
  <2>6. QED
    BY <1>2, <2>1, <2>2, <2>3, <2>4, <2>5, QuietStep
<1>7. CASE InWrite
  <2>1. Ring!WriteBy("producer") /\ wpc # "return" /\ UNCHANGED clientVars
    BY <1>7 DEF InWrite
  <2>2. wpc # "idle" /\ ppc = "writing"
    BY <1>1, <2>1 DEF Protocol, Ring!WriteBy, Ring!WriteNull, Ring!WriteFull,
       Ring!WriteHasRoom, Ring!WriteStore, Ring!WriteAdvance, Ring!WriteIncrement,
       Ring!WriteReturn
  <2>3. unseen["producer"] \subseteq ByConsumer /\ DOMAIN unseen = Threads
    BY <1>1, <2>2 DEF Apart
  <2>4. /\ Ring!WriteStep
        /\ DOMAIN unseen' = Threads
        /\ unseen'["producer"] \subseteq unseen["producer"]
        /\ unseen'["consumer"] \subseteq unseen["consumer"] \cup FifoByProducer
        /\ wpc' = "store" => unseen'["producer"] \subseteq untold[Ring!Counter]
        /\ untold'[Ring!Counter] \subseteq untold[Ring!Counter] \cup FifoByProducer
        /\ wpc' = "return" /\ wres' = Ring!Stored => untold'[Ring!Counter] \subseteq ByConsumer
        /\ races' = races
    BY <2>1, <2>3, WriteAccess
  <2>5. /\ open /\ UNCHANGED << open, warg, rpc, pointer >>
        /\ wpc' \in { "store", "advance", "increment", "return" }
    BY <1>1, <2>1, <2>4, WriteOutcome
  <2>6. /\ warg = Buffer(next) /\ next \in Datas /\ expect \in Datas
        /\ Buffer(next) \in Buffers /\ warg # NULL
        /\ ~ Written /\ next = After(expect, n + InHand) /\ n + InHand \in 0 .. Pool - 1
        /\ UNCHANGED << InHand, Taken >>
    <3>1. warg = Buffer(next) /\ next \in Datas /\ expect \in Datas /\ ~ Written
      BY <1>1, <2>1, <2>2 DEF Protocol, Written
    <3>2. Buffer(next) \in Buffers
      BY <3>1, BuffersDiffer
    <3>3. next = After(expect, n + InHand) /\ n + InHand \in 0 .. Pool - 1
      BY <1>1, <2>5, <3>1, Counts
    <3>4. UNCHANGED << InHand, Taken >>
      BY <2>1, <2>5 DEF InHand, Taken
    <3>5. QED
      BY <1>1, <3>1, <3>2, <3>3, <3>4
  <2>7. wpc' = "return" => wres' # Ring!NullPointer
    BY <1>1, <2>1, <2>4, <2>6, WriteOutcome DEF Ring!NullPointer, Ring!Stored, Ring!FifoFull
  <2>8. Protocol' /\ DataIntact' /\ RefillsAfterUse'
    BY <1>1, <2>1, <2>2, <2>4, <2>5, <2>7 DEF Protocol, DataIntact, RefillsAfterUse
  <2>9. Apart'
    BY <1>1, <2>1, <2>2, <2>3, <2>4 DEF Apart, ByProducer
  <2>10. CASE ~ Written' /\ UNCHANGED << n, Ring!Queue >>
    <3>1. UNCHANGED Fresh
      BY <2>1, <2>6, <2>10 DEF Fresh
    <3>2. InSequence' /\ Held'
      BY <1>1, <2>1, <2>5, <2>6, <2>10, <3>1 DEF InSequence, Held
    <3>3. FillingsSeen'
      BY <1>1, <2>1, <2>4, <2>6, <2>10, AccessesDiffer, BuffersDiffer DEF FillingsSeen
    <3>4. ASSUME wpc' = "store" PROVE LookingsSeen'
      <4>1. n \in 0 .. Size - 1
        BY <1>2, <1>1, <2>5, <2>10, <3>4, Counts DEF Ring!RingInv, Ring!ChecksStayTrue
      <4>2. /\ n + InHand + 1 \in 0 .. Pool - 1 /\ 1 \in 0 .. Pool
            /\ InHand = 0 => n + InHand + 1 # Pool - 1
        BY <1>1, <4>1, Counts
      <4>3. After(next, 1) = After(expect, n + InHand + 1) /\ After(next, 1) \in Datas
        <5>1. n + InHand \in 0 .. Pool /\ (n + InHand) + 1 <= Pool
          BY <1>1, <4>1, Counts
        <5>2. QED
          BY <2>6, <4>2, <5>1, AfterWalks
      <4>4. InHand = 0 => Buffer(After(next, 1)) # Buffer(After(expect, Pool - 1))
        BY <1>1, <2>6, <4>2, <4>3, BuffersDiffer
      <4>5. Looking(Buffer(After(next, 1))) \notin unseen'["producer"]
        BY <1>1, <2>4, <3>4, <4>3, <4>4, BuffersDiffer DEF LookingsSeen
      <4>6. QED
        BY <1>1, <2>1, <2>2, <2>4, <2>6, <4>5, AccessesDiffer DEF LookingsSeen
    <3>5. ASSUME wpc' # "store" PROVE LookingsSeen'
      <4>1. wpc' \in { "store", "advance", "increment" } =>
               wpc \in { "store", "advance", "increment" }
        <5>1. wpc \in { "enter", "store", "advance", "increment" }
          BY <1>1, <2>1, <2>2 DEF Ring!RingInv, Ring!TypeOK
        <5>2. QED
          BY <1>1, <2>1, <2>4, <3>5, <5>1, WriteOutcome
      <4>2. QED
        BY <1>1, <2>1, <2>2, <2>4, <2>6, <2>10, <4>1, AccessesDiffer DEF LookingsSeen
    <3>6. QED
      BY <1>2, <2>8, <2>9, <3>2, <3>3, <3>4, <3>5 DEF RecyclingInv
  <2>11. CASE /\ wpc' = "return" /\ wres' = Ring!Stored /\ n \in 0 .. Size - 1
              /\ n' = n + 1 /\ Ring!Queue' = Append(Ring!Queue, warg)
              /\ wpc \in { "store", "advance", "increment" }
    <3>1. Written' /\ Fresh' = After(next, 1)
      BY <2>1, <2>11 DEF Written, Fresh, Ring!Stored
    <3>2. After(next, 1) = After(expect, n' + InHand)
      <4>1. /\ n + InHand \in 0 .. Pool /\ 1 \in 0 .. Pool /\ n + InHand + 1 <= Pool
            /\ n' + InHand = n + InHand + 1
        BY <1>1, <2>11, Counts
      <4>2. QED
        BY <2>6, <4>1, AfterWalks
    <3>3. \A k \in 1 .. n' : Ring!Queue'[k] = Buffer(After(expect, InHand + k - 1))
      <4>1. \A k \in 1 .. n' : k \in 1 .. n \/ k = n + 1
        BY <2>11
      <4>2. \A k \in 1 .. n : Ring!Queue'[k] = Ring!Queue[k]
        BY <2>5, <2>11, Counts
      <4>3. Ring!Queue'[n + 1] = Buffer(next)
        BY <2>5, <2>6, <2>11, Counts
      <4>4. InHand + (n + 1) - 1 = n + InHand
        BY <2>11, Counts
      <4>5. QED
        BY <1>1, <2>5, <2>6, <4>1, <4>2, <4>3, <4>4 DEF InSequence
    <3>4. InSequence'
      BY <1>1, <2>1, <2>5, <2>6, <3>1, <3>2, <3>3 DEF InSequence
    <3>5. Held'
      <4>1. contents[Buffer(next)] = next
        BY <1>1, <2>2 DEF Held
      <4>2. \A k \in 0 .. n' + InHand - 1 : k \in 0 .. n + InHand - 1 \/ k = n + InHand
        BY <2>11, Counts
      <4>3. \A k \in 0 .. n' + InHand - 1 :
              contents[Buffer(After(expect, k))] = After(expect, k)
        BY <1>1, <2>5, <2>6, <4>1, <4>2 DEF Held
      <4>4. QED
        BY <1>1, <2>1, <2>2, <2>6, <4>1, <4>3 DEF Held
    <3>6. FillingsSeen'
      BY <1>1, <2>1, <2>4, <2>6, <2>11, AccessesDiffer, BuffersDiffer DEF FillingsSeen
    <3>7. LookingsSeen'
      BY <1>1, <2>1, <2>2, <2>4, <2>6, <2>11, AccessesDiffer DEF LookingsSeen
    <3>8. QED
      BY <1>2, <2>8, <2>9, <3>4, <3>5, <3>6, <3>7 DEF RecyclingInv
  <2>12. \/ ~ Written' /\ UNCHANGED << n, Ring!Queue >>
         \/ /\ wpc' = "return" /\ wres' = Ring!Stored /\ n \in 0 .. Size - 1
            /\ n' = n + 1 /\ Ring!Queue' = Append(Ring!Queue, warg)
            /\ wpc \in { "store", "advance", "increment" }
    <3>1. Written' <=> wpc' = "return" /\ wres' = Ring!Stored
      BY DEF Written, Ring!Stored
    <3>2. Ring!Stored # Ring!FifoFull /\ Ring!Stored # Ring!NullPointer
      BY DEF Ring!NullPointer, Ring!Stored, Ring!FifoFull
    <3>3. QED
      BY <1>1, <2>1, <2>4, <3>1, <3>2, WriteOutcome
  <2>13. QED
    BY <2>10, <2>11, <2>12
<1>8. CASE WriteReturned
  <2>1. /\ wpc = "return" /\ wpc' = "idle"
        /\ UNCHANGED << contents, cpc, item, expect, hbVars, rpc, pointer >>
        /\ \/ wres = Ring!FifoFull /\ ppc' = "write" /\ UNCHANGED next
           \/ /\ wres = Ring!Stored /\ ppc' = "fill"
              /\ next' = (next + 1) % (Laps * Pool)
    BY <1>8 DEF WriteReturned, Ring!WriteReturn, Ring!consumerVars
  <2>2. UNCHANGED << n, open, Ring!Queue >>
    BY <1>1, <1>8, CallsKeepQueue DEF WriteReturned
  <2>3. /\ wres = Ring!Stored => next' = After(next, 1) /\ next' \in Datas
        /\ (wres = Ring!Stored <=> Written) /\ ~ Written'
    <3>1. /\ (next + 1) % (Laps * Pool) = After(next, 1)
          /\ After(next, 1) \in Datas
      <4>1. 1 \in 0 .. Pool /\ next \in Datas
        BY <1>1, Counts
      <4>2. QED
        BY <4>1, AfterWalks
    <3>2. QED
      BY <2>1, <3>1 DEF Written, Ring!Stored, Ring!FifoFull
  <2>4. ppc = "writing" /\ open
    BY <1>1, <2>1 DEF Protocol
  <2>5. Protocol'
    BY <1>1, <2>1, <2>2, <2>3, <2>4 DEF Protocol, Ring!Stored, Ring!FifoFull
  <2>6. UNCHANGED << InHand, Taken, Fresh >>
    BY <2>1, <2>3 DEF InHand, Taken, Fresh, Written, Ring!Stored, Ring!FifoFull
  <2>7. cpc' = "examine" => item' = Buffer(expect)
    BY <1>1, <2>1, <2>4 DEF InSequence
  <2>8. QED
    BY <1>2, <2>1, <2>2, <2>3, <2>4, <2>5, <2>6, <2>7, QuietStep
<1>9. CASE TryRead
  <2>1. /\ cpc = "read" /\ cpc' = "reading" /\ open /\ rpc = "idle" /\ rpc' = "enter"
        /\ UNCHANGED << contents, ppc, next, item, expect, hbVars, wpc, warg, wres >>
    BY <1>9 DEF TryRead, Ring!CallRead, Ring!producerVars
  <2>2. UNCHANGED << n, open, Ring!Queue >>
    BY <1>1, <1>9, CallsKeepQueue DEF TryRead
  <2>3. Protocol'
    BY <1>1, <2>1, <2>2 DEF Protocol
  <2>4. UNCHANGED << Written, InHand, Taken, Fresh >>
    BY <2>1 DEF Written, InHand, Taken, Fresh
  <2>5. QED
    BY <1>2, <2>1, <2>2, <2>3, <2>4, QuietStep
<1>10. CASE InRead
  <2>1. Ring!ReadBy("consumer") /\ rpc # "return" /\ UNCHANGED clientVars
    BY <1>10 DEF InRead
  <2>2. rpc # "idle" /\ cpc = "reading" /\ ppc # "none"
    BY <1>1, <2>1 DEF Protocol, Ring!ReadBy, Ring!ReadEmpty, Ring!ReadHasPointer,
       Ring!ReadLoad, Ring!ReadAdvance, Ring!ReadDecrement, Ring!ReadReturn
  <2>3. unseen["consumer"] \subseteq ByProducer /\ DOMAIN unseen = Threads
    BY <1>1 DEF Apart
  <2>4. /\ Ring!ReadStep
        /\ DOMAIN unseen' = Threads
        /\ unseen'["consumer"] \subseteq unseen["consumer"]
        /\ rpc' = "load" => unseen'["consumer"] \subseteq untold[Ring!Counter]
        /\ unseen'["producer"] \subseteq unseen["producer"] \cup FifoByConsumer
        /\ untold'[Ring!Counter] \subseteq untold[Ring!Counter] \cup FifoByConsumer
        /\ rpc' = "return" /\ rpc # "enter" => untold'[Ring!Counter] \subseteq ByProducer
        /\ races' = races
    BY <2>1, <2>3, ReadAccess
  <2>5. /\ open /\ UNCHANGED << open, wpc, warg, wres >>
        /\ rpc' \in { "load", "advance", "decrement", "return" }
    BY <1>1, <2>1, <2>4, ReadOutcome
  <2>6. /\ expect \in Datas /\ Buffer(expect) \in Buffers /\ Buffer(next) \in Buffers
        /\ InHand = 0 /\ n \in 0 .. Size
        /\ UNCHANGED << Written, Fresh >>
    <3>1. expect \in Datas /\ next \in Datas /\ n \in 0 .. Size
      BY <2>5, Counts
    <3>2. InHand = 0 /\ UNCHANGED << Written, Fresh >>
      BY <2>1, <2>2, <2>5 DEF InHand, Written, Fresh
    <3>3. QED
      BY <3>1, <3>2, BuffersDiffer
  <2>7. Protocol' /\ DataIntact' /\ RefillsAfterUse'
    BY <1>1, <2>1, <2>2, <2>4, <2>5 DEF Protocol, DataIntact, RefillsAfterUse
  <2>8. Apart'
    BY <1>1, <2>1, <2>2, <2>3, <2>4 DEF Apart, ByConsumer
  <2>9. \A b \in Buffers :
          /\ Filling(b) \in untold'[Ring!Counter] => Filling(b) \in untold[Ring!Counter]
          /\ Looking(b) \in untold'[Ring!Counter] => Looking(b) \in untold[Ring!Counter]
          /\ Looking(b) \in unseen'["producer"] => Looking(b) \in unseen["producer"]
    BY <2>4, AccessesDiffer
  <2>10. CASE /\ rpc' \in { "load", "advance", "decrement" }
              /\ rpc' = "load" <=> rpc = "enter"
              /\ UNCHANGED << n, Ring!Queue >>
    <3>1. InHand' = InHand
      BY <2>1, <2>2, <2>10 DEF InHand
    <3>2. InSequence' /\ Held'
      BY <1>1, <2>1, <2>2, <2>5, <2>6, <2>10, <3>1 DEF InSequence, Held
    <3>3. ASSUME rpc' = "load"
          PROVE  FillingsSeen'
      <4>1. n \in 1 .. Size
        BY <1>1, <1>2, <2>5, <2>6, <2>10, <3>3 DEF Ring!RingInv, Ring!ChecksStayTrue
      <4>2. ~ Written => next = After(expect, n)
        BY <2>5, <2>6, Counts
      <4>3. ~ Written => Buffer(expect) # Buffer(next)
        <5>1. 0 \in 0 .. Pool - 1 /\ n \in 0 .. Pool - 1 /\ n # 0
          BY <1>1, <4>1
        <5>2. Buffer(After(expect, 0)) # Buffer(After(expect, n))
          BY <2>6, <5>1, BuffersDiffer
        <5>3. QED
          BY <2>6, <4>2, <5>2, AfterWalks
      <4>4. Filling(Buffer(expect)) \notin untold[Ring!Counter]
        BY <1>1, <2>6, <4>3 DEF FillingsSeen
      <4>5. QED
        BY <1>1, <2>1, <2>4, <2>6, <2>9, <3>3, <4>4 DEF FillingsSeen
    <3>4. ASSUME rpc' # "load"
          PROVE  FillingsSeen'
      <4>1. rpc \in { "enter", "load", "advance", "decrement" }
        BY <1>1, <2>1, <2>2 DEF Ring!RingInv, Ring!TypeOK
      <4>2. Taken
        BY <2>10, <3>4, <4>1 DEF Taken
      <4>3. QED
        BY <1>1, <2>1, <2>4, <2>6, <2>9, <4>2 DEF FillingsSeen
    <3>5. LookingsSeen'
      BY <1>1, <2>1, <2>2, <2>5, <2>6, <2>9, <3>1, Counts, BuffersDiffer DEF LookingsSeen
    <3>6. QED
      BY <1>2, <2>7, <2>8, <3>2, <3>3, <3>4, <3>5 DEF RecyclingInv
  <2>11. CASE /\ rpc' = "return" /\ pointer' = NULL
              /\ UNCHANGED << n, Ring!Queue >>
    <3>1. InHand' = InHand /\ ~ Taken'
      BY <2>1, <2>2, <2>6, <2>11 DEF InHand, Taken
    <3>2. InSequence' /\ Held'
      BY <1>1, <2>1, <2>2, <2>5, <2>6, <2>11, <3>1 DEF InSequence, Held
    <3>3. FillingsSeen'
      BY <1>1, <2>1, <2>6, <2>9, <3>1 DEF FillingsSeen
    <3>4. LookingsSeen'
      BY <1>1, <2>1, <2>2, <2>5, <2>6, <2>9, <3>1, Counts, BuffersDiffer DEF LookingsSeen
    <3>5. QED
      BY <1>2, <2>7, <2>8, <3>2, <3>3, <3>4 DEF RecyclingInv
  <2>12. CASE /\ rpc' = "return" /\ pointer' = Head(Ring!Queue) /\ n \in 1 .. Size
              /\ n' = n - 1 /\ Ring!Queue' = Tail(Ring!Queue)
              /\ rpc \in { "load", "advance", "decrement" }
    <3>1. Ring!Queue \in Seq(Buffers) /\ Len(Ring!Queue) = n
      BY <2>5, Counts
    <3>2. pointer' = Buffer(expect)
      <4>1. pointer' = Ring!Queue[1] /\ 1 \in 1 .. n
        BY <2>12, <3>1
      <4>2. Ring!Queue[1] = Buffer(After(expect, InHand + 1 - 1))
        BY <1>1, <2>5, <4>1 DEF InSequence
      <4>3. QED
        BY <2>6, <4>1, <4>2, AfterWalks
    <3>3. InHand' = 1 /\ Taken' /\ Taken
      BY <1>1, <2>6, <2>12, <3>2 DEF InHand, Taken
    <3>4. \A k \in 1 .. n' : Ring!Queue'[k] = Buffer(After(expect, 1 + k - 1))
      <4> SUFFICES ASSUME NEW k \in 1 .. n'
                   PROVE  Ring!Queue'[k] = Buffer(After(expect, 1 + k - 1))
        OBVIOUS
      <4>1. k + 1 \in 1 .. n /\ Ring!Queue'[k] = Ring!Queue[k + 1]
        BY <2>12, <3>1
      <4>2. Ring!Queue[k + 1] = Buffer(After(expect, 0 + (k + 1) - 1))
        BY <1>1, <2>5, <2>6, <4>1 DEF InSequence
      <4>3. 0 + (k + 1) - 1 = 1 + k - 1
        BY <2>12
      <4>4. QED
        BY <4>1, <4>2, <4>3
    <3>5. n' + InHand' = n + InHand
      BY <2>6, <2>12, <3>3
    <3>6. InSequence'
      BY <1>1, <2>1, <2>2, <2>5, <2>6, <3>2, <3>3, <3>4, <3>5 DEF InSequence
    <3>7. Held'
      <4>1. \A k \in 0 .. n' + InHand' - 1 :
              contents[Buffer(After(expect, k))] = After(expect, k)
        <5>1. \A k \in 0 .. n + InHand - 1 :
                contents[Buffer(After(expect, k))] = After(expect, k)
          BY <1>1, <2>5 DEF Held
        <5>2. n' + InHand' - 1 = n + InHand - 1
          BY <2>6, <2>12, <3>3
        <5>3. QED
          BY <5>1, <5>2
      <4>2. QED
        BY <1>1, <2>1, <2>5, <4>1 DEF Held
    <3>8. FillingsSeen'
      BY <1>1, <2>1, <2>4, <2>6, <2>9, <3>3 DEF FillingsSeen
    <3>9. LookingsSeen'
      <4>1. \A b \in Buffers : Looking(b) \notin untold'[Ring!Counter]
        BY <2>4, <2>12, AccessesDiffer
      <4>2. next \in Datas /\ After(next, 1) \in Datas
        <5>1. 1 \in 0 .. Pool /\ next \in Datas
          BY <1>1, Counts
        <5>2. QED
          BY <5>1, AfterWalks
      <4>3. QED
        BY <1>1, <2>1, <2>2, <2>5, <2>6, <2>9, <4>1, <4>2, BuffersDiffer DEF LookingsSeen
    <3>10. QED
      BY <1>2, <2>7, <2>8, <3>6, <3>7, <3>8, <3>9 DEF RecyclingInv
  <2>13. QED
    BY <1>1, <2>1, <2>4, <2>10, <2>11, <2>12, ReadOutcome
<1>11. CASE ReadReturned
  <2>1. /\ rpc = "return" /\ rpc' = "idle" /\ item' = pointer
        /\ cpc' = IF pointer = NULL THEN "read" ELSE "examine"
        /\ UNCHANGED << contents, ppc, next, expect, hbVars, wpc, warg, wres >>
    BY <1>11 DEF ReadReturned, Ring!ReadReturn, Ring!producerVars
  <2>2. UNCHANGED << n, open, Ring!Queue >>
    BY <1>1, <1>11, CallsKeepQueue DEF ReadReturned
  <2>3. cpc = "reading" /\ open /\ pointer \in { NULL, Buffer(expect) }
    BY <1>1, <2>1 DEF Protocol, InSequence
  <2>4. Protocol'
    BY <1>1, <2>1, <2>2, <2>3 DEF Protocol
  <2>5. UNCHANGED << Written, InHand, Taken, Fresh >>
    BY <2>1, <2>3 DEF Written, InHand, Taken, Fresh
  <2>6. QED
    BY <1>2, <2>1, <2>2, <2>3, <2>4, <2>5, QuietStep
<1>12. CASE Examine
  <2>1. /\ cpc = "examine" /\ cpc' = "read"
        /\ expect' = (expect + 1) % (Laps * Pool)
        /\ UNCHANGED << ringVars, contents, ppc, next, item >>
        /\ Ring!HB!Access("consumer", {}, {Memory(item)}, {}, {})
    BY <1>12 DEF Examine
  <2>2. /\ open /\ rpc = "idle" /\ ppc # "none" /\ InHand = 1 /\ Taken /\ item = Buffer(expect)
        /\ expect \in Datas /\ next \in Datas /\ Buffer(expect) \in Buffers
        /\ n \in 0 .. Size
    <3>1. open /\ rpc = "idle" /\ ppc # "none" /\ InHand = 1 /\ Taken
      BY <1>1, <2>1 DEF Protocol, InHand, Taken
    <3>2. QED
      BY <1>1, <2>1, <3>1, Counts, BuffersDiffer DEF InSequence
  <2>3. \A a \in unseen["consumer"] : a[1] # Memory(item)
    BY <1>1, <2>2, Locations DEF Apart, FillingsSeen, ByProducer, FifoByProducer, Filling
  <2>4. races' = races
    BY <1>1, <2>1, <2>3, NoRace
  <2>5. /\ DOMAIN unseen' = Threads
        /\ unseen'["consumer"] \subseteq unseen["consumer"]
        /\ unseen'["producer"] = unseen["producer"] \cup {Looking(Buffer(expect))}
        /\ untold'[Ring!Counter] = untold[Ring!Counter] \cup {Looking(Buffer(expect))}
    <3>1. Accesses("consumer", {Memory(item)}, {}) = {Looking(Buffer(expect))}
      BY <2>2 DEF Accesses, Looking
    <3>2. Ring!HB!Access("consumer", {}, {Memory(item)}, {}, {})
      BY <2>1
    <3>3. QED
      BY <1>1, <3>1, <3>2, AccessOutcome
  <2>6. /\ expect' = After(expect, 1) /\ expect' \in Datas
        /\ \A k \in 0 .. Pool - 1 : After(expect', k) = After(expect, k + 1)
    <3>1. 1 \in 0 .. Pool
      BY <1>1
    <3>2. expect' = After(expect, 1) /\ expect' \in Datas
      BY <2>1, <2>2, <3>1, AfterWalks
    <3>3. \A k \in 0 .. Pool - 1 : k \in 0 .. Pool /\ 1 + k <= Pool /\ 1 + k = k + 1
      BY <1>1
    <3>4. \A k \in 0 .. Pool - 1 : After(After(expect, 1), k) = After(expect, k + 1)
      BY <2>2, <3>1, <3>3, AfterWalks
    <3>5. QED
      BY <3>2, <3>4
  <2>7. /\ Protocol' /\ RefillsAfterUse' /\ DataIntact'
        /\ UNCHANGED << Written, Fresh >> /\ InHand' = 0 /\ ~ Taken'
    BY <1>1, <2>1, <2>2, <2>4, <2>6
       DEF Protocol, RefillsAfterUse, DataIntact, Written, Fresh, InHand, Taken, ringVars
  <2>8. InSequence'
    <3>1. Fresh' = After(expect', n)
      <4>1. n \in 0 .. Pool - 1 /\ n + InHand = n + 1
        BY <1>1, <2>2
      <4>2. QED
        BY <1>1, <2>2, <2>6, <2>7, <4>1 DEF InSequence
    <3>2. \A k \in 1 .. n : Ring!Queue[k] = Buffer(After(expect', 0 + k - 1))
      <4> SUFFICES ASSUME NEW k \in 1 .. n
                   PROVE  Ring!Queue[k] = Buffer(After(expect', 0 + k - 1))
        OBVIOUS
      <4>1. k - 1 \in 0 .. Pool - 1 /\ 1 + k - 1 = (k - 1) + 1 /\ 0 + k - 1 = k - 1
        BY <1>1, <2>2
      <4>2. Ring!Queue[k] = Buffer(After(expect, 1 + k - 1))
        BY <1>1, <2>2 DEF InSequence
      <4>3. QED
        BY <2>6, <4>1, <4>2
    <3>3. n + 0 = n /\ UNCHANGED << n, open, rpc, Ring!Queue >>
      BY <2>1, <2>2, QueueIsSame DEF ringVars
    <3>4. QED
      BY <2>1, <2>2, <2>7, <3>1, <3>2, <3>3 DEF InSequence
  <2>9. Held'
    <3>1. \A k \in 0 .. n - 1 : k \in 0 .. Pool - 1 /\ k + 1 \in 0 .. n + InHand - 1
      BY <1>1, <2>2
    <3>2. \A k \in 0 .. n - 1 : contents[Buffer(After(expect', k))] = After(expect', k)
      BY <1>1, <2>2, <2>6, <3>1 DEF Held
    <3>3. n + 0 - 1 = n - 1 /\ UNCHANGED << n, open >>
      BY <2>1, <2>2 DEF ringVars
    <3>4. QED
      BY <1>1, <2>1, <2>2, <2>7, <3>2, <3>3 DEF Held
  <2>10. Apart'
    BY <1>1, <2>1, <2>2, <2>5, AccessesDiffer DEF Apart
  <2>11. FillingsSeen'
    BY <1>1, <2>1, <2>5, <2>7, AccessesDiffer DEF FillingsSeen
  <2>12. LookingsSeen'
    <3>1. Buffer(After(expect', Pool - 1)) = Buffer(expect)
      <4>1. Pool - 1 \in 0 .. Pool - 1 /\ (Pool - 1) + 1 = Pool
        BY <1>1
      <4>2. QED
        BY <2>2, <2>6, <4>1, BuffersDiffer
    <3>2. \A b \in Buffers : Looking(b) \in untold'[Ring!Counter] => b = Buffer(expect)
      BY <1>1, <2>2, <2>5, AccessesDiffer DEF LookingsSeen
    <3>3. \A k \in 1 .. Pool - 1 : Buffer(After(expect, k)) # Buffer(expect)
      <4>1. \A k \in 1 .. Pool - 1 : k \in 0 .. Pool - 1 /\ k # 0 /\ 0 \in 0 .. Pool - 1
        BY <1>1
      <4>2. QED
        BY <2>2, <4>1, AfterWalks, BuffersDiffer
    <3>4. ppc = "fill" => Buffer(next) # Buffer(expect)
      <4>1. ppc = "fill" => next = After(expect, n + 1)
        BY <1>1, <2>2, Counts DEF Protocol
      <4>2. n + 1 \in 1 .. Pool - 1
        BY <1>1, <2>2
      <4>3. QED
        BY <3>3, <4>1, <4>2
    <3>5. wpc \in { "store", "advance", "increment" } =>
            Buffer(After(next, 1)) # Buffer(expect)
      <4> SUFFICES ASSUME wpc \in { "store", "advance", "increment" }
                   PROVE  Buffer(After(next, 1)) # Buffer(expect)
        OBVIOUS
      <4>1. next = After(expect, n + 1) /\ n < Size
        BY <2>2, Counts
      <4>2. /\ n + 1 \in 0 .. Pool /\ 1 \in 0 .. Pool /\ (n + 1) + 1 <= Pool
            /\ (n + 1) + 1 \in 1 .. Pool - 1
        BY <1>1, <2>2, <4>1
      <4>3. After(next, 1) = After(expect, (n + 1) + 1)
        BY <2>2, <4>1, <4>2, AfterWalks
      <4>4. QED
        BY <3>3, <4>2, <4>3
    <3>6. Written => Buffer(After(next, 1)) # Buffer(expect)
      <4>1. Written => After(next, 1) = After(expect, n + 1)
        BY <2>2, Counts
      <4>2. n + 1 \in 1 .. Pool - 1
        BY <1>1, <2>2
      <4>3. QED
        BY <3>3, <4>1, <4>2
    <3>7. UNCHANGED << next, ppc, wpc, Written >>
      BY <2>1, <2>7 DEF ringVars
    <3>8. QED
      BY <1>1, <2>5, <2>7, <3>1, <3>2, <3>4, <3>5, <3>6, <3>7, AccessesDiffer DEF LookingsSeen
  <2>13. QED
    BY <1>2, <2>7, <2>8, <2>9, <2>10, <2>11, <2>12 DEF RecyclingInv
<1>13. CASE UNCHANGED vars
  <2>1. UNCHANGED Ring!Queue
    BY <1>13, QueueIsSame DEF vars
  <2>2. Protocol' /\ UNCHANGED << Written, InHand, Taken, Fresh >>
    BY <1>1, <1>13 DEF Protocol, Written, InHand, Taken, Fresh, vars, ringVars
  <2>3. cpc = "examine" => item = Buffer(expect)
    BY <1>1 DEF InSequence, Protocol
  <2>4. QED
    BY <1>2, <1>13, <2>1, <2>2, <2>3, QuietStep DEF vars, ringVars
<1>14. QED
  BY <1>3, <1>4, <1>5, <1>6, <1>7, <1>8, <1>9, <1>10, <1>11, <1>12, <1>13
     DEF Next, Producer, Consumer

(* The invariant holds in all reachable states.                            *)
THEOREM RecyclingCorrect == Spec => []RecyclingInv
BY InitRecycling, RecyclingStep, PTL DEF Spec

(* No buffer is filled while the consumer may still look at what was in it *)
(* before, nor looked at while it is filled: the loads and updates of n in *)
(* _write and _read order the two, whatever the Size.                      *)
THEOREM RefillsCorrect == Spec => []RefillsAfterUse
<1>1. RecyclingInv => RefillsAfterUse
  BY DEF RecyclingInv
<1>2. QED
  BY <1>1, RecyclingCorrect, PTL

(* The consumer finds in each buffer it takes the data it waits for.       *)
THEOREM DataCorrect == Spec => []DataIntact
<1>1. RecyclingInv => DataIntact
  BY DEF RecyclingInv
<1>2. QED
  BY <1>1, RecyclingCorrect, PTL

=============================================================================
