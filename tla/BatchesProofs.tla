---------------------------- MODULE BatchesProofs ----------------------------
(***************************************************************************)
(* Proofs about Batches, for every Size, every number of Laps and all      *)
(* integer widths: a client that acts on get_count finds the room and the  *)
(* pointers it was told of, and reads the pointers in their order.         *)
(***************************************************************************)
EXTENDS Batches, Sequences, TLAPS

(* The lemmas about the ring, for the pointers and observers of Batches.   *)
Lemmas == INSTANCE FixedPointerFifoProofs WITH
            Pointers  <- 0 .. Laps - 1,
            Observers <- { "producer", "consumer" }

-----------------------------------------------------------------------------
(* The inductive invariant.  The writes of a batch that are still to take  *)
(* effect fit into the fifo, the reads find as many pointers: an operation *)
(* of the other thread only makes more room, or more pointers.             *)
ToStore == IF wpc = "return" THEN room - 1 ELSE room
ToTake  == IF rpc = "return" THEN stored - 1 ELSE stored

RoomKept ==
  /\ ToStore \in Nat
  /\ wpc \notin { "idle", "return" } => ToStore > 0
  /\ open => ToStore + n <= Size
  /\ ~ open => room = 0

PointersKept ==
  /\ ToTake \in Nat
  /\ rpc \notin { "idle", "return" } => ToTake > 0
  /\ open => ToTake <= n
  /\ ~ open => stored = 0

(* From the pointer that is read next on the fifo holds them in order, up  *)
(* to the one that is written next.                                        *)
After(d, k) == IF d + k < Laps THEN d + k ELSE d + k - Laps

First == IF rpc = "return" THEN After(expect, 1) ELSE expect
Fresh == IF wpc = "return" THEN After(next, 1) ELSE next

InSequence ==
  /\ next \in 0 .. Laps - 1 /\ expect \in 0 .. Laps - 1
  /\ wpc # "idle" => warg = next
  /\ open => /\ Fresh = After(First, n)
             /\ \A k \in 1 .. n : Ring!Queue[k] = After(First, k - 1)
  /\ ~ open => next = 0 /\ expect = 0

BatchInv ==
  /\ Ring!RingInv
  /\ RoomKept /\ PointersKept /\ InSequence
  /\ BatchFits /\ BatchComes

-----------------------------------------------------------------------------
(* The ring of the client.                                                 *)

(* What the lemmas assume of the constants.                                *)
LEMMA Assumptions ==
  Lemmas!SizeAssumption /\ Lemmas!WidthAssumption /\ Lemmas!PointerAssumption
BY RingAssumption DEF Lemmas!SizeAssumption, Lemmas!WidthAssumption,
   Lemmas!PointerAssumption, Ring!SizeAssumption, Ring!WidthAssumption,
   Ring!PointerAssumption

(* Both instances of the ring have the same invariant,                     *)
LEMMA SameInvariant ==
  /\ Ring!RingInv <=> Lemmas!RingInv
  /\ Ring!RingInv' <=> Lemmas!RingInv'
BY DEF Ring!RingInv, Ring!TypeOK, Ring!ClosedIsQuiet, Ring!NullStopped,
   Ring!ChecksStayTrue, Ring!IndicesMatchCount, Ring!SlotsHoldPointers,
   Ring!TakenPointerIntact, Ring!Slots, Ring!Stored, Ring!FifoFull,
   Ring!NullPointer, Ring!At, Ring!Oldest, Ring!Back, Lemmas!RingInv,
   Lemmas!TypeOK, Lemmas!ClosedIsQuiet, Lemmas!NullStopped,
   Lemmas!ChecksStayTrue, Lemmas!IndicesMatchCount, Lemmas!SlotsHoldPointers,
   Lemmas!TakenPointerIntact, Lemmas!Slots, Lemmas!Stored, Lemmas!FifoFull,
   Lemmas!NullPointer, Lemmas!At, Lemmas!Oldest, Lemmas!Back

(* the same steps,                                                         *)
LEMMA SameActions ==
  /\ Ring!WriteStep <=> Lemmas!WriteStep
  /\ Ring!ReadStep <=> Lemmas!ReadStep
  /\ [Ring!Next]_(Ring!vars) <=> [Lemmas!Next]_(Lemmas!vars)
BY DEF Ring!InitFifo, Ring!DoneFifo, Ring!CallWrite, Ring!WriteStep,
   Ring!WriteNull, Ring!WriteFull, Ring!WriteHasRoom, Ring!WriteStore,
   Ring!WriteAdvance, Ring!WriteIncrement, Ring!WriteReturn, Ring!CallRead,
   Ring!ReadStep, Ring!ReadEmpty, Ring!ReadHasPointer, Ring!ReadLoad,
   Ring!ReadAdvance, Ring!ReadDecrement, Ring!ReadReturn, Ring!GetCount,
   Ring!Count, Ring!Wrap, Ring!fifoVars, Ring!producerVars,
   Ring!consumerVars, Ring!Stored, Ring!FifoFull, Ring!NullPointer,
   Ring!Next, Ring!vars, Lemmas!InitFifo, Lemmas!DoneFifo, Lemmas!CallWrite,
   Lemmas!WriteStep, Lemmas!WriteNull, Lemmas!WriteFull, Lemmas!WriteHasRoom,
   Lemmas!WriteStore, Lemmas!WriteAdvance, Lemmas!WriteIncrement,
   Lemmas!WriteReturn, Lemmas!CallRead, Lemmas!ReadStep, Lemmas!ReadEmpty,
   Lemmas!ReadHasPointer, Lemmas!ReadLoad, Lemmas!ReadAdvance,
   Lemmas!ReadDecrement, Lemmas!ReadReturn, Lemmas!GetCount, Lemmas!Count,
   Lemmas!Wrap, Lemmas!fifoVars, Lemmas!producerVars, Lemmas!consumerVars,
   Lemmas!Stored, Lemmas!FifoFull, Lemmas!NullPointer, Lemmas!Next,
   Lemmas!vars

(* and the same queue.                                                     *)
LEMMA SameQueue == Ring!Queue = Lemmas!Queue /\ Ring!Queue' = Lemmas!Queue'
BY DEF Ring!Queue, Ring!At, Ring!Oldest, Ring!Back, Lemmas!Queue, Lemmas!At,
   Lemmas!Oldest, Lemmas!Back

(* The invariant holds of the uninitialized fifo,                          *)
LEMMA RingStarts == Ring!Init => Ring!RingInv
<1>1. Ring!Init <=> Lemmas!Init
  BY DEF Ring!Init, Ring!Slots, Ring!Stored, Lemmas!Init, Lemmas!Slots, Lemmas!Stored
<1>2. QED
  BY <1>1, Assumptions, Lemmas!InitRing, SameInvariant

(* and every step of the fifo keeps it.                                    *)
LEMMA RingStep == Ring!RingInv /\ [Ring!Next]_(Ring!vars) => Ring!RingInv'
BY Assumptions, Lemmas!RingStep, SameInvariant, SameActions

(* The queue of an open fifo has as many pointers as the counter says.     *)
LEMMA QueueIsSeq ==
  ASSUME Ring!RingInv, open
  PROVE  Ring!Queue \in Seq(0 .. Laps - 1) /\ Len(Ring!Queue) = n
BY Assumptions, Lemmas!QueueIsSeq, SameInvariant, SameQueue

(* What a step of _write does, when it does not return: at the increment,  *)
(* and only there, the pointer is appended.                                *)
LEMMA WriteOutcome ==
  ASSUME Ring!RingInv, Ring!WriteStep, wpc # "return"
  PROVE  /\ open /\ UNCHANGED << open, warg, rpc, pointer >>
         /\ \/ /\ wpc' \in { "store", "advance", "increment" }
               /\ UNCHANGED << n, Ring!Queue >>
            \/ /\ wpc' = "return" /\ warg = NULL
            \/ /\ wpc' = "return" /\ n = Size
            \/ /\ wpc' = "return" /\ wres' = Ring!Stored /\ n \in 0 .. Size - 1
               /\ n' = n + 1 /\ Ring!Queue' = Append(Ring!Queue, warg)
BY Assumptions, Lemmas!WriteOutcome, SameInvariant, SameActions, SameQueue
   DEF Ring!Stored, Lemmas!Stored

(* What a step of _read does, when it does not return: at the decrement,   *)
(* and only there, the head is removed.                                    *)
LEMMA ReadOutcome ==
  ASSUME Ring!RingInv, Ring!ReadStep, rpc # "return"
  PROVE  /\ open /\ UNCHANGED << open, wpc, warg, wres >>
         /\ \/ /\ rpc' \in { "load", "advance", "decrement" }
               /\ UNCHANGED << n, Ring!Queue >>
            \/ /\ rpc' = "return" /\ n = 0
            \/ /\ rpc' = "return" /\ pointer' = Head(Ring!Queue) /\ n \in 1 .. Size
               /\ n' = n - 1 /\ Ring!Queue' = Tail(Ring!Queue)
BY Assumptions, Lemmas!ReadOutcome, SameInvariant, SameActions, SameQueue

(* Neither to enter a call nor to return from one moves a pointer.         *)
LEMMA CallsKeepQueue ==
  ASSUME Ring!RingInv,
         (\E p : Ring!CallWrite(p)) \/ Ring!WriteReturn \/ Ring!CallRead \/ Ring!ReadReturn
  PROVE  UNCHANGED << n, open, Ring!Queue >>
<1>1. (\E p : Lemmas!CallWrite(p)) \/ Lemmas!WriteReturn \/ Lemmas!CallRead
      \/ Lemmas!ReadReturn
  BY DEF Ring!CallWrite, Ring!WriteReturn, Ring!CallRead, Ring!ReadReturn,
     Ring!fifoVars, Ring!producerVars, Ring!consumerVars, Ring!Stored,
     Lemmas!CallWrite, Lemmas!WriteReturn, Lemmas!CallRead, Lemmas!ReadReturn,
     Lemmas!fifoVars, Lemmas!producerVars, Lemmas!consumerVars, Lemmas!Stored
<1>2. QED
  BY <1>1, Assumptions, Lemmas!CallsKeepQueue, SameInvariant, SameQueue

(* get_count returns the number of pointers in the fifo.                   *)
LEMMA CountOutcome ==
  ASSUME Ring!RingInv, NEW o \in { "producer", "consumer" }, Ring!GetCount(o)
  PROVE  /\ open /\ n \in 0 .. Size /\ observed'[o] = n
         /\ UNCHANGED << n, open, Ring!Queue, wpc, warg, wres, rpc, pointer >>
<1>1. Lemmas!GetCount(o)
  BY DEF Ring!GetCount, Ring!Count, Ring!fifoVars, Ring!producerVars,
     Ring!consumerVars, Lemmas!GetCount, Lemmas!Count, Lemmas!fifoVars,
     Lemmas!producerVars, Lemmas!consumerVars
<1>2. QED
  BY <1>1, Assumptions, Lemmas!CountOutcome, SameInvariant, SameQueue

-----------------------------------------------------------------------------
(* The numbers of the pointers.                                            *)

(* After counts modulo Laps, without a modulo.                             *)
LEMMA AfterWalks ==
  ASSUME NEW d \in 0 .. Laps - 1
  PROVE  /\ After(d, 0) = d
         /\ (d + 1) % Laps = After(d, 1)
         /\ \A k \in 0 .. Size : After(d, k) \in 0 .. Laps - 1
         /\ \A k \in 0 .. Size : After(After(d, 1), k) = After(d, k + 1)
         /\ \A k \in 0 .. Size : After(After(d, k), 1) = After(d, k + 1)
<1>1. Laps \in Nat /\ Size \in Nat \ {0} /\ Size < Laps
  BY LapsAssumption, RingAssumption DEF Ring!SizeAssumption
<1>2. (d + 1) % Laps = After(d, 1)
  BY <1>1 DEF After
<1>3. QED
  BY <1>1, <1>2 DEF After

-----------------------------------------------------------------------------
(* The invariant is inductive.                                             *)

(* The invariant holds initially.                                          *)
LEMMA InitBatches == Init => BatchInv
<1> SUFFICES ASSUME Init
             PROVE  BatchInv
  OBVIOUS
<1>1. Ring!RingInv
  BY RingStarts DEF Init
<1>2. wpc = "idle" /\ rpc = "idle" /\ open = FALSE
  BY DEF Init, Ring!Init
<1>3. room = 0 /\ stored = 0 /\ next = 0 /\ expect = 0 /\ 0 \in 0 .. Laps - 1
  BY LapsAssumption, RingAssumption DEF Init, Ring!SizeAssumption
<1>4. QED
  BY <1>1, <1>2, <1>3 DEF BatchInv, RoomKept, PointersKept, InSequence, ToStore, ToTake,
     BatchFits, BatchComes

(* Every step of either thread keeps it.                                   *)
LEMMA BatchStep == BatchInv /\ [Next]_vars => BatchInv'
<1> SUFFICES ASSUME BatchInv, [Next]_vars
             PROVE  BatchInv'
  OBVIOUS
<1> USE DEF BatchInv, RoomKept, PointersKept, InSequence, ToStore, ToTake, First, Fresh,
            BatchFits, BatchComes, clientVars
<1>1. Laps \in Nat /\ Size \in Nat \ {0} /\ Size < Laps /\ NULL \notin 0 .. Laps - 1
  BY LapsAssumption, RingAssumption DEF Ring!SizeAssumption, Ring!PointerAssumption
<1>2. Ring!RingInv'
  <2>1. [Ring!Next]_(Ring!vars)
    BY DEF Next, Producer, Consumer, Start, LookForRoom, WriteNext, InWrite,
       WriteReturned, LookForPointers, ReadNext, InRead, ReadReturned, vars, ringVars,
       Ring!Next, Ring!vars, Ring!fifoVars, Ring!producerVars, Ring!consumerVars,
       Ring!WriteStep, Ring!ReadStep
  <2>2. QED
    BY <2>1, RingStep
<1>3. open => n \in 0 .. Size /\ Ring!Queue \in Seq(0 .. Laps - 1) /\ Len(Ring!Queue) = n
  BY QueueIsSeq DEF Ring!RingInv, Ring!TypeOK
<1>4. CASE Start
  <2>1. wpc = "idle" /\ rpc = "idle" /\ n' = 0 /\ open' /\ UNCHANGED << clientVars, wpc, warg, rpc, pointer, wres >>
    BY <1>4 DEF Start, Ring!InitFifo, Ring!producerVars, Ring!consumerVars
  <2>2. ~ open
    BY <1>4 DEF Start
  <2>3. After(0, 0) = 0
    BY <1>1 DEF After
  <2>4. QED
    BY <1>1, <1>2, <2>1, <2>2, <2>3
<1>5. CASE LookForRoom
  <2>1. /\ open /\ wpc = "idle" /\ Ring!GetCount("producer")
        /\ room' = Size - observed'["producer"]
        /\ UNCHANGED << next, stored, expect >>
    BY <1>5 DEF LookForRoom
  <2>2. /\ n \in 0 .. Size /\ observed'["producer"] = n
        /\ UNCHANGED << n, open, Ring!Queue, wpc, warg, wres, rpc, pointer >>
    BY <2>1, CountOutcome
  <2>3. QED
    BY <1>1, <1>2, <2>1, <2>2
<1>6. CASE WriteNext
  <2>1. /\ open /\ wpc = "idle" /\ wpc' = "enter" /\ warg' = next
        /\ UNCHANGED << rpc, pointer, clientVars >> /\ room # 0
    BY <1>6 DEF WriteNext, Ring!CallWrite, Ring!consumerVars
  <2>2. UNCHANGED << n, open, Ring!Queue >>
    BY <1>6, CallsKeepQueue DEF WriteNext
  <2>3. QED
    BY <1>1, <1>2, <2>1, <2>2
<1>7. CASE InWrite
  <2>1. Ring!WriteStep /\ wpc # "return" /\ UNCHANGED clientVars
    BY <1>7 DEF InWrite
  <2>2. wpc # "idle"
    BY <2>1 DEF Ring!WriteStep, Ring!WriteNull, Ring!WriteFull, Ring!WriteHasRoom,
       Ring!WriteStore, Ring!WriteAdvance, Ring!WriteIncrement, Ring!WriteReturn
  <2>3. open /\ UNCHANGED << open, warg, rpc, pointer >>
    BY <2>1, WriteOutcome
  <2>4. n + room <= Size /\ room > 0 /\ warg = next /\ next \in 0 .. Laps - 1
        /\ n \in 0 .. Size
    BY <1>3, <2>1, <2>2, <2>3
  <2>5. CASE /\ wpc' \in { "store", "advance", "increment" }
             /\ UNCHANGED << n, Ring!Queue >>
    BY <1>1, <1>2, <2>1, <2>2, <2>3, <2>4, <2>5
  <2>6. CASE /\ wpc' = "return" /\ wres' = Ring!Stored /\ n \in 0 .. Size - 1
             /\ n' = n + 1 /\ Ring!Queue' = Append(Ring!Queue, warg)
    <3>1. RoomKept' /\ PointersKept' /\ BatchFits' /\ BatchComes'
      BY <1>1, <2>1, <2>2, <2>3, <2>4, <2>6 DEF Ring!Stored
    <3>2. next = After(First, n) /\ First \in 0 .. Laps - 1
      <4>1. After(expect, 1) \in 0 .. Laps - 1
        BY <1>1 DEF After
      <4>2. QED
        BY <2>1, <2>2, <2>3, <4>1
    <3>3. \A k \in 1 .. n + 1 : Ring!Queue'[k] = After(First, k - 1)
      <4>1. \A k \in 1 .. n + 1 : k = n + 1 \/ k \in 1 .. n
        BY <2>4
      <4>2. /\ Ring!Queue'[n + 1] = warg
            /\ \A k \in 1 .. n : Ring!Queue'[k] = Ring!Queue[k]
        BY <1>3, <2>3, <2>4, <2>6
      <4>3. \A k \in 1 .. n : Ring!Queue'[k] = After(First, k - 1)
        BY <2>3, <4>2
      <4>4. Ring!Queue'[n + 1] = After(First, (n + 1) - 1)
        BY <2>4, <3>2, <4>2
      <4>5. QED
        BY <4>1, <4>3, <4>4
    <3>4. After(next, 1) = After(First, n + 1)
      BY <2>4, <3>2, AfterWalks
    <3>5. InSequence'
      BY <1>1, <2>1, <2>2, <2>3, <2>4, <2>6, <3>3, <3>4 DEF After
    <3>6. QED
      BY <1>2, <3>1, <3>5
  <2>7. QED
    BY <1>1, <2>1, <2>4, <2>5, <2>6, WriteOutcome
<1>8. CASE WriteReturned
  <2>1. /\ wpc = "return" /\ wpc' = "idle" /\ room' = room - 1
        /\ next' = (next + 1) % Laps /\ UNCHANGED << stored, expect, rpc, pointer >>
    BY <1>8 DEF WriteReturned, Ring!WriteReturn, Ring!consumerVars
  <2>2. UNCHANGED << n, open, Ring!Queue >>
    BY <1>8, CallsKeepQueue DEF WriteReturned
  <2>3. open
    BY <2>1 DEF Ring!RingInv, Ring!ClosedIsQuiet
  <2>4. next' = After(next, 1) /\ next' \in 0 .. Laps - 1
    BY <1>1, <2>1, AfterWalks
  <2>5. QED
    BY <1>1, <1>2, <1>3, <2>1, <2>2, <2>3, <2>4 DEF After
<1>9. CASE LookForPointers
  <2>1. /\ open /\ rpc = "idle" /\ Ring!GetCount("consumer")
        /\ stored' = observed'["consumer"]
        /\ UNCHANGED << room, next, expect >>
    BY <1>9 DEF LookForPointers
  <2>2. /\ n \in 0 .. Size /\ observed'["consumer"] = n
        /\ UNCHANGED << n, open, Ring!Queue, wpc, warg, wres, rpc, pointer >>
    BY <2>1, CountOutcome
  <2>3. QED
    BY <1>1, <1>2, <2>1, <2>2
<1>10. CASE ReadNext
  <2>1. /\ open /\ rpc = "idle" /\ rpc' = "enter" /\ stored # 0
        /\ UNCHANGED << wpc, warg, wres, clientVars >>
    BY <1>10 DEF ReadNext, Ring!CallRead, Ring!producerVars
  <2>2. UNCHANGED << n, open, Ring!Queue >>
    BY <1>10, CallsKeepQueue DEF ReadNext
  <2>3. QED
    BY <1>1, <1>2, <2>1, <2>2
<1>11. CASE InRead
  <2>1. Ring!ReadStep /\ rpc # "return" /\ UNCHANGED clientVars
    BY <1>11 DEF InRead
  <2>2. rpc # "idle"
    BY <2>1 DEF Ring!ReadStep, Ring!ReadEmpty, Ring!ReadHasPointer,
       Ring!ReadLoad, Ring!ReadAdvance, Ring!ReadDecrement, Ring!ReadReturn
  <2>3. open /\ UNCHANGED << open, wpc, warg, wres >>
    BY <2>1, ReadOutcome
  <2>4. stored <= n /\ stored > 0 /\ expect \in 0 .. Laps - 1 /\ n \in 0 .. Size
    BY <1>3, <2>1, <2>2, <2>3
  <2>5. CASE /\ rpc' \in { "load", "advance", "decrement" }
             /\ UNCHANGED << n, Ring!Queue >>
    BY <1>1, <1>2, <2>1, <2>2, <2>3, <2>4, <2>5
  <2>6. CASE /\ rpc' = "return" /\ pointer' = Head(Ring!Queue) /\ n \in 1 .. Size
             /\ n' = n - 1 /\ Ring!Queue' = Tail(Ring!Queue)
    <3>1. Ring!Queue[1] = expect
      BY <1>3, <2>1, <2>3, <2>4, <2>6, AfterWalks
    <3>2. RoomKept' /\ PointersKept' /\ BatchFits' /\ BatchComes'
      BY <1>1, <1>3, <2>1, <2>2, <2>3, <2>4, <2>6, <3>1
    <3>3. \A k \in 1 .. n - 1 : Ring!Queue'[k] = After(After(expect, 1), k - 1)
      <4>1. \A k \in 1 .. n - 1 : Ring!Queue'[k] = Ring!Queue[k + 1]
        BY <1>3, <2>3, <2>4, <2>6
      <4>2. \A k \in 1 .. n - 1 : /\ k + 1 \in 1 .. n /\ (k + 1) - 1 = k
                                  /\ (k - 1) + 1 = k /\ k - 1 \in 0 .. Size
        BY <1>1, <2>4
      <4>3. \A k \in 1 .. n - 1 : Ring!Queue[k + 1] = After(expect, k)
        BY <2>1, <2>3, <4>2
      <4>4. QED
        BY <2>4, <4>1, <4>2, <4>3, AfterWalks
    <3>4. Fresh = After(After(expect, 1), n - 1)
      <4>1. n - 1 \in 0 .. Size /\ (n - 1) + 1 = n
        BY <1>1, <2>6
      <4>2. QED
        BY <2>1, <2>3, <2>4, <4>1, AfterWalks
    <3>5. InSequence'
      BY <1>1, <2>1, <2>2, <2>3, <2>4, <2>6, <3>3, <3>4 DEF After
    <3>6. QED
      BY <1>2, <3>2, <3>5
  <2>7. QED
    BY <2>1, <2>4, <2>5, <2>6, ReadOutcome
<1>12. CASE ReadReturned
  <2>1. /\ rpc = "return" /\ rpc' = "idle" /\ stored' = stored - 1
        /\ expect' = (expect + 1) % Laps
        /\ UNCHANGED << room, next, wpc, warg, wres >>
    BY <1>12 DEF ReadReturned, Ring!ReadReturn, Ring!producerVars
  <2>2. UNCHANGED << n, open, Ring!Queue >>
    BY <1>12, CallsKeepQueue DEF ReadReturned
  <2>3. open
    BY <2>1 DEF Ring!RingInv, Ring!ClosedIsQuiet
  <2>4. expect' = After(expect, 1) /\ expect' \in 0 .. Laps - 1
    BY <1>1, <2>1, AfterWalks
  <2>5. QED
    BY <1>1, <1>2, <1>3, <2>1, <2>2, <2>3, <2>4 DEF After
<1>13. CASE UNCHANGED vars
  BY <1>2, <1>13 DEF vars, ringVars, Ring!Queue, Ring!At, Ring!Oldest, Ring!Back
<1>14. QED
  BY <1>4, <1>5, <1>6, <1>7, <1>8, <1>9, <1>10, <1>11, <1>12, <1>13
     DEF Next, Producer, Consumer

(* The invariant holds in every reachable state.                           *)
THEOREM BatchCorrect == Spec => []BatchInv
BY InitBatches, BatchStep, PTL DEF Spec

(* A producer that writes as many pointers as get_count left room for      *)
(* never finds the fifo full, however long ago it asked.                   *)
THEOREM RoomIsKept == Spec => []BatchFits
<1>1. BatchInv => BatchFits
  BY DEF BatchInv
<1>2. QED
  BY <1>1, BatchCorrect, PTL

(* A consumer that reads as many pointers as get_count promised gets them  *)
(* all, in the order in which they were written.                           *)
THEOREM PointersCome == Spec => []BatchComes
<1>1. BatchInv => BatchComes
  BY DEF BatchInv
<1>2. QED
  BY <1>1, BatchCorrect, PTL

==============================================================================
