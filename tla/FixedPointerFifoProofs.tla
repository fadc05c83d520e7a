----------------------- MODULE FixedPointerFifoProofs -----------------------
(***************************************************************************)
(* Proofs about FixedPointerFifo, for every Size and every integer width   *)
(* that can hold it: the ring invariant is inductive, hence the type       *)
(* invariant and the safety properties hold, and the ring implements the   *)
(* bounded fifo.                                                           *)
(***************************************************************************)
EXTENDS FixedPointerFifo, SequenceTheorems, TLAPS

-----------------------------------------------------------------------------
(* Arithmetic.                                                             *)

(* A number below the modulus is its own remainder.                        *)
LEMMA ModSmall ==
  ASSUME NEW m \in Nat \ {0}, NEW i \in 0 .. m - 1
  PROVE  i % m = i
OBVIOUS

(* The modulus itself has remainder 0.                                     *)
LEMMA ModSelf ==
  ASSUME NEW m \in Nat \ {0}
  PROVE  m % m = 0
OBVIOUS

(* (i + 1) % Size in unsigned arithmetic is the next slot around the ring, *)
(* for no index and no Size does the addition overflow; Back undoes it.    *)
LEMMA WrapIsNext ==
  ASSUME NEW i \in Slots
  PROVE  /\ Wrap(i) = IF i + 1 = Size THEN 0 ELSE i + 1
         /\ Wrap(i) \in Slots
         /\ Back(i) \in Slots
         /\ Back(Wrap(i)) = i
         /\ Wrap(Back(i)) = i
<1>1. \A j \in Slots : Wrap(j) = IF j + 1 = Size THEN 0 ELSE j + 1
  <2>1. SUFFICES ASSUME NEW j \in Slots
                 PROVE  Wrap(j) = IF j + 1 = Size THEN 0 ELSE j + 1
    OBVIOUS
  <2>2. (j + 1) % UIntMod = j + 1
    BY SizeAssumption, WidthAssumption, ModSmall DEF Slots
  <2>3. CASE j + 1 = Size
    BY <2>2, <2>3, SizeAssumption, ModSelf DEF Wrap
  <2>4. CASE j + 1 # Size
    BY <2>2, <2>4, SizeAssumption, ModSmall DEF Wrap, Slots
  <2>5. QED
    BY <2>3, <2>4
<1>2. Back(i) \in Slots
  BY SizeAssumption DEF Back, Slots
<1>3. QED
  BY <1>1, <1>2, SizeAssumption DEF Back, Slots

(* At walks around the ring: by single steps, and onto distinct slots.     *)
LEMMA AtWalks ==
  ASSUME NEW i \in Slots
  PROVE  /\ At(i, 0) = i
         /\ \A k \in 0 .. Size : At(i, k) \in Slots
         /\ \A k \in 0 .. Size - 1 : At(i, k + 1) = Wrap(At(i, k))
         /\ \A k \in 0 .. Size - 1 : At(Wrap(i), k) = At(i, k + 1)
         /\ \A j, k \in 0 .. Size - 1 : At(i, j) = At(i, k) => j = k
<1>1. \A j \in Slots : Wrap(j) = IF j + 1 = Size THEN 0 ELSE j + 1
  BY WrapIsNext
<1>2. \A k \in 0 .. Size : At(i, k) \in Slots
  BY SizeAssumption DEF At, Slots
<1>3. QED
  BY <1>1, <1>2, SizeAssumption DEF At, Slots

(* Within the ring the counter neither overflows nor underflows, and the   *)
(* truncation in get_count loses nothing.                                  *)
LEMMA CounterIsExact ==
  ASSUME NEW c \in 0 .. Size
  PROVE  /\ c % UIntMod = c
         /\ c < Size => (c + 1) % UIntPtrMod = c + 1
         /\ c > 0 => (c - 1) % UIntPtrMod = c - 1
BY SizeAssumption, WidthAssumption, ModSmall

-----------------------------------------------------------------------------
(* The ring invariant is inductive.                                        *)

(* It holds of a fifo that is not yet initialized,                         *)
LEMMA InitRing == Init => RingInv
<1> SUFFICES ASSUME Init
             PROVE  RingInv
  OBVIOUS
<1>1. TypeOK
  <2>1. storage \in [Slots -> Pointers \cup {NULL, Garbage}]
    BY DEF Init
  <2>2. observed \in [Observers -> 0 .. UIntMod - 1]
    BY SizeAssumption, WidthAssumption DEF Init
  <2>3. open = FALSE /\ n \in 0 .. UIntPtrMod - 1
    BY DEF Init
  <2>4. QED
    BY <2>1, <2>2, <2>3, Zenon DEF Init, TypeOK, Stored, FifoFull, NullPointer
<1>2. QED
  BY <1>1 DEF Init, RingInv, ClosedIsQuiet, NullStopped, ChecksStayTrue,
              IndicesMatchCount, SlotsHoldPointers, TakenPointerIntact

(* and every step of every caller keeps it.                                *)
LEMMA RingStep == RingInv /\ [Next]_vars => RingInv'
<1> SUFFICES ASSUME RingInv, [Next]_vars
             PROVE  RingInv'
  OBVIOUS
<1> USE SizeAssumption, WidthAssumption, PointerAssumption
        DEF RingInv, TypeOK, ClosedIsQuiet, NullStopped, ChecksStayTrue,
            IndicesMatchCount, SlotsHoldPointers, TakenPointerIntact, Oldest,
            fifoVars, producerVars, consumerVars, Stored, FifoFull, NullPointer
<1>1. /\ 0 \in Slots
      /\ Size \in 0 .. UIntMod - 1 /\ Size \in 0 .. UIntPtrMod - 1
      /\ Slots \subseteq 0 .. UIntMod - 1
  BY DEF Slots
<1>2. CASE InitFifo
  BY <1>1, <1>2, AtWalks DEF InitFifo
<1>3. CASE DoneFifo
  BY <1>3 DEF DoneFifo
<1>4. ASSUME NEW p \in Pointers \cup {NULL}, CallWrite(p)
      PROVE  RingInv'
  BY <1>4 DEF CallWrite
<1>5. CASE WriteNull
  BY <1>5 DEF WriteNull
<1>6. CASE WriteFull
  BY <1>6 DEF WriteFull
<1>7. CASE WriteHasRoom
  BY <1>7, CounterIsExact DEF WriteHasRoom, Count
<1>8. CASE WriteStore
  BY <1>8, AtWalks, WrapIsNext DEF WriteStore
<1>9. CASE WriteAdvance
  <2>1. /\ open /\ Oldest \in Slots /\ n \in 0 .. Size - 1
        /\ write = At(Oldest, n)
    BY <1>9, WrapIsNext DEF WriteAdvance
  <2>2. Wrap(write) \in Slots /\ Wrap(write) = At(Oldest, n + 1)
    BY <2>1, AtWalks, WrapIsNext
  <2>3. /\ Oldest' = Oldest /\ n' = n /\ open' = open /\ write' = Wrap(write)
        /\ wpc' = "increment"
    BY <1>9 DEF WriteAdvance
  <2>4. IndicesMatchCount'
    BY <2>1, <2>2, <2>3
  <2>5. TypeOK'
    BY <1>9, <2>2, <1>1 DEF WriteAdvance
  <2>6. SlotsHoldPointers'
    BY <1>9, <2>1, <2>3 DEF WriteAdvance
  <2>7. QED
    BY <1>9, <2>1, <2>3, <2>4, <2>5, <2>6 DEF WriteAdvance
<1>10. CASE WriteIncrement
  <2>1. /\ open /\ Oldest \in Slots /\ n \in 0 .. Size - 1
        /\ write = At(Oldest, n + 1) /\ storage[At(Oldest, n)] \in Pointers
    BY <1>10, WrapIsNext DEF WriteIncrement
  <2>2. /\ Oldest' = Oldest /\ n' = n + 1 /\ storage' = storage
        /\ open' = open /\ write' = write /\ wpc' = "return"
    BY <1>10, <2>1, CounterIsExact DEF WriteIncrement
  <2>3. SlotsHoldPointers'
    <3>1. \A k \in 0 .. n' - 1 : k = n \/ k \in 0 .. n - 1
      BY <2>1, <2>2
    <3>2. QED
      BY <2>1, <2>2, <3>1
  <2>4. QED
    BY <1>10, <2>1, <2>2, <2>3, <1>1 DEF WriteIncrement
<1>11. CASE WriteReturn
  BY <1>11 DEF WriteReturn
<1>12. CASE CallRead
  BY <1>12 DEF CallRead
<1>13. CASE ReadEmpty
  BY <1>13 DEF ReadEmpty
<1>14. CASE ReadHasPointer
  BY <1>14, CounterIsExact DEF ReadHasPointer, Count
<1>15. CASE ReadLoad
  BY <1>15, AtWalks DEF ReadLoad
<1>16. CASE ReadAdvance
  BY <1>16, WrapIsNext, <1>1 DEF ReadAdvance
<1>17. CASE ReadDecrement
  <2>1. /\ open /\ Oldest \in Slots /\ n \in 1 .. Size /\ read \in Slots
        /\ Oldest = Back(read)
    BY <1>17, WrapIsNext DEF ReadDecrement
  <2>2. /\ Oldest' = Wrap(Oldest) /\ n' = n - 1 /\ rpc' = "return"
        /\ UNCHANGED << open, write, storage, wpc, warg >>
    BY <1>17, <2>1, WrapIsNext, CounterIsExact DEF ReadDecrement
  <2>3. \A k \in 0 .. Size - 1 : At(Oldest', k) = At(Oldest, k + 1)
    <3>1. \A i \in Slots : \A k \in 0 .. Size - 1 : At(Wrap(i), k) = At(i, k + 1)
      BY AtWalks
    <3>2. QED
      BY <2>1, <2>2, <3>1
  <2>4. ChecksStayTrue'
    BY <2>1, <2>2
  <2>5. IndicesMatchCount'
    BY <2>1, <2>2, <2>3
  <2>6. SlotsHoldPointers'
    <3>1. \A k \in 0 .. n' - 1 : k \in 0 .. Size - 1 /\ k + 1 \in 0 .. n - 1
      BY <2>1, <2>2
    <3>2. QED
      BY <2>1, <2>2, <2>3, <3>1
  <2>7. QED
    BY <1>17, <2>1, <2>2, <2>4, <2>5, <2>6, <1>1 DEF ReadDecrement
<1>18. CASE ReadReturn
  BY <1>18 DEF ReadReturn
<1>19. ASSUME NEW o \in Observers, GetCount(o)
       PROVE  RingInv'
  <2>1. Count \in 0 .. UIntMod - 1
    BY <1>19 DEF GetCount, Count
  <2>2. QED
    BY <1>19, <2>1 DEF GetCount
<1>20. CASE UNCHANGED vars
  BY <1>20 DEF vars
<1>21. QED
  BY <1>2, <1>3, <1>4, <1>5, <1>6, <1>7, <1>8, <1>9, <1>10, <1>11, <1>12,
     <1>13, <1>14, <1>15, <1>16, <1>17, <1>18, <1>19, <1>20
     DEF Next, WriteStep, ReadStep

(* The ring invariant holds in every reachable state.                      *)
THEOREM RingCorrect == Spec => []RingInv
BY InitRing, RingStep, PTL DEF Spec

(* Counter, indices and slots keep their types, and once init ran the      *)
(* counter stays in 0 .. Size and both indices stay inside the ring.       *)
THEOREM TypeCorrect == Spec => []TypeOK
<1>1. RingInv => TypeOK
  BY DEF RingInv
<1>2. QED
  BY <1>1, RingCorrect, PTL

(* The answer of the one load of n in _write and in _read is still right   *)
(* when the counter is updated.                                            *)
THEOREM ChecksCorrect == Spec => []ChecksStayTrue
<1>1. RingInv => ChecksStayTrue
  BY DEF RingInv
<1>2. QED
  BY <1>1, RingCorrect, PTL

(* Write index, read index and counter agree at every moment, whatever the *)
(* two threads are in the middle of.                                       *)
THEOREM IndicesCorrect == Spec => []IndicesMatchCount
<1>1. RingInv => IndicesMatchCount
  BY DEF RingInv
<1>2. QED
  BY <1>1, RingCorrect, PTL

(* The producer never stores into a slot whose pointer is still to be read *)
(* or is being read.                                                       *)
THEOREM StoresCorrect == Spec => []StoresIntoFreeSlot
<1>1. RingInv => StoresIntoFreeSlot
  <2>1. SUFFICES ASSUME RingInv, wpc = "store", write \in LiveSlots
                 PROVE  FALSE
    BY DEF StoresIntoFreeSlot
  <2>2. /\ Oldest \in Slots /\ n \in 0 .. Size - 1
        /\ write = At(Oldest, n)
    BY <2>1, WrapIsNext, SizeAssumption
       DEF RingInv, TypeOK, ClosedIsQuiet, ChecksStayTrue, IndicesMatchCount, Oldest
  <2>3. PICK k \in 0 .. n - 1 : write = At(Oldest, k)
    BY <2>1 DEF LiveSlots
  <2>4. \A i, j \in 0 .. Size - 1 : At(Oldest, i) = At(Oldest, j) => i = j
    BY <2>2, AtWalks
  <2>5. n \in 0 .. Size - 1 /\ k \in 0 .. Size - 1 /\ n # k
    BY <2>2, SizeAssumption
  <2>6. QED
    BY <2>2, <2>3, <2>4, <2>5
<1>2. QED
  BY <1>1, RingCorrect, PTL

(* The slot a pointer was loaded from keeps it until the slot is given     *)
(* back, and what _read returns is a pointer that was written.             *)
THEOREM TakenCorrect == Spec => []TakenPointerIntact
<1>1. RingInv => TakenPointerIntact
  BY DEF RingInv
<1>2. QED
  BY <1>1, RingCorrect, PTL

-----------------------------------------------------------------------------
(* The ring implements the bounded fifo.                                   *)

(* The queue in terms of the ring: a sequence of n pointers.               *)
LEMMA QueueIsSeq ==
  ASSUME RingInv, open
  PROVE  /\ Queue \in Seq(Pointers)
         /\ Len(Queue) = n
         /\ \A k \in 1 .. n : Queue[k] = storage[At(Oldest, k - 1)]
<1>1. n \in Nat /\ Queue = [k \in 1 .. n |-> storage[At(Oldest, k - 1)]]
  BY SizeAssumption DEF RingInv, TypeOK, Queue
<1>2. \A k \in 1 .. n : storage[At(Oldest, k - 1)] \in Pointers
  <2>1. \A k \in 1 .. n : k - 1 \in 0 .. n - 1
    BY <1>1
  <2>2. QED
    BY <2>1 DEF RingInv, SlotsHoldPointers
<1>3. Queue \in [1 .. n -> Pointers]
  BY <1>1, <1>2
<1>4. QED
  BY <1>1, <1>3

(* A step that leaves alone what the queue is made of leaves the queue     *)
(* alone.                                                                  *)
LEMMA QueueUnchanged ==
  ASSUME n' = n, storage' = storage, Oldest' = Oldest, open' = open
  PROVE  Queue' = Queue
BY DEF Queue

(* Phase distinguishes being idle, being in the call and being done.       *)
LEMMA PhaseIs ==
  /\ Phase("idle") = "idle"
  /\ Phase("return") = "returning"
  /\ \A pc \in { "enter", "store", "load", "advance", "increment", "decrement" } :
        Phase(pc) = "called"
BY DEF Phase

(* A store fills the slot behind the queue.                                *)
LEMMA StoreKeepsQueue ==
  ASSUME RingInv, WriteStore
  PROVE  Queue' = Queue
<1>1. open /\ n \in 0 .. Size - 1 /\ Oldest \in Slots /\ write = At(Oldest, n)
  BY WrapIsNext, SizeAssumption DEF WriteStore, RingInv, TypeOK, ClosedIsQuiet,
     ChecksStayTrue, IndicesMatchCount, Oldest
<1>2. \A i, j \in 0 .. Size - 1 : At(Oldest, i) = At(Oldest, j) => i = j
  BY <1>1, AtWalks
<1>3. \A k \in 1 .. n : k - 1 \in 0 .. Size - 1 /\ k - 1 # n
  BY <1>1, SizeAssumption
<1>4. \A k \in 1 .. n : At(Oldest, k - 1) # write /\ At(Oldest, k - 1) \in Slots
  BY <1>1, <1>2, <1>3, AtWalks, SizeAssumption
<1>5. /\ storage' = [storage EXCEPT ![write] = warg]
      /\ storage \in [Slots -> Pointers \cup {NULL, Garbage}]
  BY DEF WriteStore, RingInv, TypeOK
<1>6. \A k \in 1 .. n : storage'[At(Oldest, k - 1)] = storage[At(Oldest, k - 1)]
  BY <1>4, <1>5
<1>7. Oldest' = Oldest /\ n' = n /\ open' = open
  BY DEF WriteStore, Oldest, consumerVars
<1>8. QED
  BY <1>6, <1>7 DEF Queue

(* An increment appends the pointer that was stored.                       *)
LEMMA IncrementAppends ==
  ASSUME RingInv, WriteIncrement
  PROVE  /\ open /\ warg \in Pointers
         /\ n \in 0 .. Size - 1 /\ n' = n + 1
         /\ Queue' = Append(Queue, warg)
<1>1. /\ open /\ n \in 0 .. Size - 1 /\ warg \in Pointers
      /\ storage[At(Oldest, n)] = warg
  BY SizeAssumption DEF WriteIncrement, RingInv, TypeOK, ClosedIsQuiet, NullStopped,
     ChecksStayTrue, SlotsHoldPointers
<1>2. n' = n + 1 /\ storage' = storage /\ Oldest' = Oldest /\ open' = open
  <2>1. n \in 0 .. Size /\ n < Size
    BY <1>1, SizeAssumption
  <2>2. QED
    BY <2>1, CounterIsExact DEF WriteIncrement, Oldest, consumerVars
<1>3. /\ Queue \in Seq(Pointers) /\ Len(Queue) = n
      /\ \A k \in 1 .. n : Queue[k] = storage[At(Oldest, k - 1)]
  BY <1>1, QueueIsSeq
<1>4. Queue' = [k \in 1 .. n + 1 |-> storage[At(Oldest, k - 1)]]
  BY <1>1, <1>2 DEF Queue
<1>5. Queue'[n + 1] = warg /\ \A k \in 1 .. n : Queue'[k] = Queue[k]
  BY <1>1, <1>3, <1>4
<1>6. Queue' \in Seq(Pointers) /\ Len(Queue') = n + 1
  <2>1. \A k \in 1 .. n + 1 : k = n + 1 \/ k \in 1 .. n
    BY <1>1
  <2>2. \A k \in 1 .. n : Queue[k] \in Pointers
    BY <1>3, ElementOfSeq
  <2>3. \A k \in 1 .. n + 1 : Queue'[k] \in Pointers
    BY <1>1, <1>5, <2>1, <2>2
  <2>4. Queue' \in [1 .. n + 1 -> Pointers] /\ n + 1 \in Nat
    BY <1>1, <1>4, <2>3
  <2>5. QED
    BY <2>4
<1>7. /\ Append(Queue, warg) \in Seq(Pointers)
      /\ Len(Append(Queue, warg)) = n + 1
      /\ Append(Queue, warg)[n + 1] = warg
      /\ \A k \in 1 .. n : Append(Queue, warg)[k] = Queue[k]
  BY <1>1, <1>3, AppendProperties
<1>8. \A k \in 1 .. n + 1 : Queue'[k] = Append(Queue, warg)[k]
  BY <1>1, <1>5, <1>7
<1>9. Queue' = Append(Queue, warg)
  BY <1>6, <1>7, <1>8, SeqEqual
<1>10. QED
  BY <1>1, <1>2, <1>9

(* A decrement removes the pointer that was loaded.                        *)
LEMMA DecrementRemoves ==
  ASSUME RingInv, ReadDecrement
  PROVE  /\ open
         /\ n \in 1 .. Size /\ n' = n - 1
         /\ Queue # << >> /\ Head(Queue) = pointer
         /\ Queue' = Tail(Queue)
<1>1. /\ open /\ n \in 1 .. Size /\ Oldest \in Slots /\ Oldest = Back(read)
      /\ read \in Slots /\ pointer = storage[Oldest]
  BY WrapIsNext, SizeAssumption DEF ReadDecrement, RingInv, TypeOK,
     ClosedIsQuiet, ChecksStayTrue, TakenPointerIntact, Oldest
<1>2. n' = n - 1 /\ storage' = storage /\ Oldest' = Wrap(Oldest) /\ open' = open
  BY <1>1, CounterIsExact, WrapIsNext DEF ReadDecrement, Oldest
<1>3. /\ Queue \in Seq(Pointers) /\ Len(Queue) = n
      /\ \A k \in 1 .. n : Queue[k] = storage[At(Oldest, k - 1)]
  BY <1>1, QueueIsSeq
<1>4. Queue # << >> /\ Head(Queue) = pointer
  BY <1>1, <1>3, AtWalks
<1>5. Queue' = [k \in 1 .. n - 1 |-> storage[At(Wrap(Oldest), k - 1)]]
  BY <1>1, <1>2 DEF Queue
<1>6. \A k \in 1 .. n - 1 : At(Wrap(Oldest), k - 1) = At(Oldest, k)
  <2>1. \A k \in 1 .. n - 1 : k - 1 \in 0 .. Size - 1 /\ (k - 1) + 1 = k
    BY <1>1, SizeAssumption
  <2>2. QED
    BY <1>1, <2>1, AtWalks
<1>7. /\ Tail(Queue) \in Seq(Pointers) /\ Len(Tail(Queue)) = n - 1
      /\ \A k \in 1 .. n - 1 : Tail(Queue)[k] = Queue[k + 1]
  BY <1>3, <1>4, HeadTailProperties
<1>8. \A k \in 1 .. n - 1 : k + 1 \in 1 .. n /\ (k + 1) - 1 = k
  BY <1>1
<1>9. \A k \in 1 .. n - 1 : Queue'[k] = Tail(Queue)[k]
  BY <1>3, <1>5, <1>6, <1>7, <1>8
<1>10. Queue' \in Seq(Pointers) /\ Len(Queue') = n - 1
  <2>1. \A k \in 1 .. n - 1 : storage[At(Wrap(Oldest), k - 1)] \in Pointers
    BY <1>3, <1>6, <1>8, ElementOfSeq
  <2>2. Queue' \in [1 .. n - 1 -> Pointers] /\ n - 1 \in Nat
    BY <1>1, <1>5, <2>1
  <2>3. QED
    BY <2>2
<1>11. Queue' = Tail(Queue)
  BY <1>7, <1>9, <1>10, SeqEqual
<1>12. QED
  BY <1>1, <1>2, <1>4, <1>11

(* What a client can tell of a step inside of _write: it goes on, or it    *)
(* has got to one of the three results.                                    *)
LEMMA WriteOutcome ==
  ASSUME RingInv, WriteStep, wpc # "return"
  PROVE  /\ open /\ UNCHANGED << open, read, warg, rpc, pointer, observed >>
         /\ \/ /\ wpc' \in { "store", "advance", "increment" }
               /\ wpc' = "store" <=> wpc = "enter"
               /\ UNCHANGED << n, wres, Queue >>
            \/ /\ wpc' = "return" /\ wres' = NullPointer /\ warg = NULL
               /\ UNCHANGED << n, Queue >>
            \/ /\ wpc' = "return" /\ wres' = FifoFull /\ warg # NULL /\ n = Size
               /\ UNCHANGED << n, Queue >>
            \/ /\ wpc' = "return" /\ wres' = Stored /\ n \in 0 .. Size - 1
               /\ n' = n + 1 /\ Queue' = Append(Queue, warg)
               /\ wpc \in { "store", "advance", "increment" }
<1> USE DEF fifoVars, consumerVars
<1>1. open
  BY DEF WriteStep, WriteNull, WriteFull, WriteHasRoom, WriteStore, WriteAdvance,
     WriteIncrement, WriteReturn, RingInv, ClosedIsQuiet
<1>2. CASE WriteNull
  BY <1>1, <1>2, QueueUnchanged DEF WriteNull, Oldest
<1>3. CASE WriteFull
  BY <1>1, <1>3, QueueUnchanged, CounterIsExact
     DEF WriteFull, Count, Oldest, RingInv, TypeOK
<1>4. CASE WriteHasRoom
  BY <1>1, <1>4, QueueUnchanged DEF WriteHasRoom, Oldest
<1>5. CASE WriteStore
  BY <1>1, <1>5, StoreKeepsQueue DEF WriteStore
<1>6. CASE WriteAdvance
  BY <1>1, <1>6, QueueUnchanged DEF WriteAdvance, Oldest
<1>7. CASE WriteIncrement
  BY <1>1, <1>7, IncrementAppends DEF WriteIncrement
<1>8. QED
  BY <1>2, <1>3, <1>4, <1>5, <1>6, <1>7 DEF WriteStep, WriteReturn

(* The same for _read.                                                     *)
LEMMA ReadOutcome ==
  ASSUME RingInv, ReadStep, rpc # "return"
  PROVE  /\ open /\ UNCHANGED << open, write, wpc, warg, wres, observed >>
         /\ \/ /\ rpc' \in { "load", "advance", "decrement" }
               /\ rpc' = "load" <=> rpc = "enter"
               /\ UNCHANGED << n, Queue >>
            \/ /\ rpc' = "return" /\ pointer' = NULL /\ n = 0
               /\ UNCHANGED << n, Queue >>
            \/ /\ rpc' = "return" /\ pointer' = Head(Queue) /\ n \in 1 .. Size
               /\ n' = n - 1 /\ Queue' = Tail(Queue)
               /\ rpc \in { "load", "advance", "decrement" }
<1> USE DEF fifoVars, producerVars
<1>1. open
  BY DEF ReadStep, ReadEmpty, ReadHasPointer, ReadLoad, ReadAdvance,
     ReadDecrement, ReadReturn, RingInv, ClosedIsQuiet
<1>2. CASE ReadEmpty
  BY <1>1, <1>2, QueueUnchanged, CounterIsExact
     DEF ReadEmpty, Count, Oldest, RingInv, TypeOK
<1>3. CASE ReadHasPointer
  BY <1>1, <1>3, QueueUnchanged DEF ReadHasPointer, Oldest
<1>4. CASE ReadLoad
  BY <1>1, <1>4, QueueUnchanged DEF ReadLoad, Oldest
<1>5. CASE ReadAdvance
  <2>1. Oldest' = Oldest
    BY <1>1, <1>5, WrapIsNext DEF ReadAdvance, Oldest, RingInv, TypeOK
  <2>2. QED
    BY <1>1, <1>5, <2>1, QueueUnchanged DEF ReadAdvance
<1>6. CASE ReadDecrement
  BY <1>1, <1>6, DecrementRemoves DEF ReadDecrement
<1>7. QED
  BY <1>2, <1>3, <1>4, <1>5, <1>6 DEF ReadStep, ReadReturn

(* Beginning or ending a call leaves the queue alone.                      *)
LEMMA CallsKeepQueue ==
  ASSUME RingInv,
         (\E p : CallWrite(p)) \/ WriteReturn \/ CallRead \/ ReadReturn
  PROVE  UNCHANGED << n, open, observed, Queue >>
<1>1. UNCHANGED << n, open, observed, storage, Oldest >>
  BY DEF CallWrite, WriteReturn, CallRead, ReadReturn, Oldest, fifoVars, producerVars,
     consumerVars
<1>2. QED
  BY <1>1, QueueUnchanged

(* What get_count returns is exact when it is taken.                       *)
LEMMA CountOutcome ==
  ASSUME RingInv, NEW o \in Observers, GetCount(o)
  PROVE  /\ open /\ n \in 0 .. Size /\ observed'[o] = n
         /\ UNCHANGED << n, open, Queue, wpc, warg, wres, rpc, pointer >>
<1>1. /\ open /\ n \in 0 .. Size
      /\ UNCHANGED << n, open, storage, Oldest, wpc, warg, wres, rpc, pointer >>
  BY DEF GetCount, RingInv, TypeOK, Oldest, fifoVars, producerVars, consumerVars
<1>2. observed'[o] = n
  BY <1>1, CounterIsExact DEF GetCount, Count, RingInv, TypeOK
<1>3. QED
  BY <1>1, <1>2, QueueUnchanged

(* Every step of the ring is a step of the bounded fifo or leaves all that *)
(* can be seen of it alone.                                                *)
LEMMA RefinementStep ==
  ASSUME RingInv, RingInv', [Next]_vars
  PROVE  [BF!Next]_(BF!vars)
<1> USE PhaseIs DEF fifoVars, producerVars, consumerVars, Stored, FifoFull,
        NullPointer, BF!Stored, BF!FifoFull, BF!NullPointer
<1> DEFINE rres     == IF rpc = "return" THEN pointer ELSE NULL
           capacity == IF open THEN Size ELSE 0
           told     == [o \in Observers |-> [named |-> TRUE, count |-> observed[o]]]
<1>1. CASE InitFifo
  <2>1. Queue' = << >>
    BY <1>1 DEF InitFifo, Queue
  <2>2. BF!Open(Size)
    BY <1>1, <2>1 DEF InitFifo, BF!Open
  <2>3. QED
    BY <2>2 DEF BF!Next
<1>2. CASE DoneFifo
  <2>1. Queue' = << >>
    BY <1>2 DEF DoneFifo, Queue
  <2>2. BF!Close
    BY <1>2, <2>1 DEF DoneFifo, BF!Close
  <2>3. QED
    BY <2>2 DEF BF!Next
<1>3. ASSUME NEW p \in Pointers \cup {NULL}, CallWrite(p)
      PROVE  BF!Next
  <2>1. Queue' = Queue
    BY <1>3, QueueUnchanged DEF CallWrite, Oldest
  <2>2. BF!CallWrite(p)
    BY <1>3, <2>1 DEF CallWrite, BF!CallWrite
  <2>3. QED
    BY <2>2 DEF BF!Next
<1>4. CASE WriteNull
  <2>1. Queue' = Queue
    BY <1>4, QueueUnchanged DEF WriteNull, Oldest
  <2>2. BF!RejectNull
    BY <1>4, <2>1 DEF WriteNull, BF!RejectNull
  <2>3. QED
    BY <2>2 DEF BF!Next
<1>5. CASE WriteFull
  <2>1. Queue' = Queue
    BY <1>5, QueueUnchanged DEF WriteFull, Oldest
  <2>2. Len(Queue) = Size
    BY <1>5, QueueIsSeq, CounterIsExact
       DEF WriteFull, Count, RingInv, TypeOK, ClosedIsQuiet
  <2>3. open /\ open'
    BY <1>5 DEF WriteFull, RingInv, ClosedIsQuiet
  <2>4. BF!ReportFull
    BY <1>5, <2>1, <2>2, <2>3 DEF WriteFull, BF!ReportFull
  <2>5. QED
    BY <2>4 DEF BF!Next
<1>6. CASE WriteHasRoom \/ WriteStore \/ WriteAdvance
  <2>1. UNCHANGED << open, capacity, Queue, Phase(wpc), warg, wres, Phase(rpc), rres,
                     observed >>
    <3>1. CASE WriteHasRoom
      BY <3>1, QueueUnchanged DEF WriteHasRoom, Oldest
    <3>2. CASE WriteStore
      BY <3>2, StoreKeepsQueue DEF WriteStore
    <3>3. CASE WriteAdvance
      BY <3>3, QueueUnchanged DEF WriteAdvance, Oldest
    <3>4. QED
      BY <1>6, <3>1, <3>2, <3>3
  <2>2. QED
    BY <2>1 DEF BF!vars
<1>7. CASE WriteIncrement
  <2>1. /\ open /\ warg \in Pointers /\ n \in 0 .. Size - 1
        /\ Queue' = Append(Queue, warg)
    BY <1>7, IncrementAppends
  <2>2. Len(Queue) < Size /\ warg # NULL
    BY <2>1, QueueIsSeq, SizeAssumption, PointerAssumption
  <2>3. BF!Enqueue
    BY <1>7, <2>1, <2>2 DEF WriteIncrement, BF!Enqueue
  <2>4. QED
    BY <2>3 DEF BF!Next
<1>8. CASE WriteReturn
  <2>1. Queue' = Queue
    BY <1>8, QueueUnchanged DEF WriteReturn, Oldest
  <2>2. BF!ReturnWrite
    BY <1>8, <2>1 DEF WriteReturn, BF!ReturnWrite
  <2>3. QED
    BY <2>2 DEF BF!Next
<1>9. CASE CallRead
  <2>1. Queue' = Queue
    BY <1>9, QueueUnchanged DEF CallRead, Oldest
  <2>2. BF!CallRead
    BY <1>9, <2>1 DEF CallRead, BF!CallRead
  <2>3. QED
    BY <2>2 DEF BF!Next
<1>10. CASE ReadEmpty
  <2>1. Queue' = Queue
    BY <1>10, QueueUnchanged DEF ReadEmpty, Oldest
  <2>2. Queue = << >>
    BY <1>10, CounterIsExact DEF ReadEmpty, Count, Queue, RingInv, TypeOK, ClosedIsQuiet
  <2>3. BF!ReportEmpty
    BY <1>10, <2>1, <2>2 DEF ReadEmpty, BF!ReportEmpty
  <2>4. QED
    BY <2>3 DEF BF!Next
<1>11. CASE ReadHasPointer \/ ReadLoad \/ ReadAdvance
  <2>1. UNCHANGED << open, capacity, Queue, Phase(wpc), warg, wres, Phase(rpc), rres,
                     observed >>
    <3>1. CASE ReadHasPointer
      BY <3>1, QueueUnchanged DEF ReadHasPointer, Oldest
    <3>2. CASE ReadLoad
      BY <3>2, QueueUnchanged DEF ReadLoad, Oldest
    <3>3. CASE ReadAdvance
      <4>1. Oldest' = Oldest
        BY <3>3, WrapIsNext DEF ReadAdvance, Oldest, RingInv, TypeOK, ClosedIsQuiet
      <4>2. QED
        BY <3>3, <4>1, QueueUnchanged DEF ReadAdvance
    <3>4. QED
      BY <1>11, <3>1, <3>2, <3>3
  <2>2. QED
    BY <2>1 DEF BF!vars
<1>12. CASE ReadDecrement
  <2>1. /\ open /\ Queue # << >> /\ Head(Queue) = pointer
        /\ Queue' = Tail(Queue)
    BY <1>12, DecrementRemoves
  <2>2. BF!Dequeue
    BY <1>12, <2>1 DEF ReadDecrement, BF!Dequeue
  <2>3. QED
    BY <2>2 DEF BF!Next
<1>13. CASE ReadReturn
  <2>1. Queue' = Queue
    BY <1>13, QueueUnchanged DEF ReadReturn, Oldest
  <2>2. BF!ReturnRead
    BY <1>13, <2>1 DEF ReadReturn, BF!ReturnRead
  <2>3. QED
    BY <2>2 DEF BF!Next
<1>14. ASSUME NEW o \in Observers, GetCount(o)
       PROVE  BF!Next
  <2>1. Queue' = Queue
    BY <1>14, QueueUnchanged DEF GetCount, Oldest
  <2>2. Count = Len(Queue)
    BY <1>14, QueueIsSeq, CounterIsExact DEF GetCount, Count, RingInv, TypeOK
  <2>3. told' = [told EXCEPT ![o] = [named |-> TRUE, count |-> Len(Queue)]]
    BY <1>14, <2>2 DEF GetCount, RingInv, TypeOK
  <2>4. BF!Count(o)
    BY <1>14, <2>1, <2>3 DEF GetCount, BF!Count
  <2>5. QED
    BY <2>4 DEF BF!Next
<1>15. CASE UNCHANGED vars
  <2>1. UNCHANGED << open, capacity, Queue, Phase(wpc), warg, wres, Phase(rpc), rres,
                     observed >>
    BY <1>15, QueueUnchanged DEF vars, Oldest
  <2>2. QED
    BY <2>1 DEF BF!vars
<1>16. QED
  BY <1>1, <1>2, <1>3, <1>4, <1>5, <1>6, <1>7, <1>8, <1>9, <1>10, <1>11,
     <1>12, <1>13, <1>14, <1>15 DEF Next, WriteStep, ReadStep

(* Linearizability: under one producer and one consumer every operation of *)
(* the ring appears to happen at one instant on a bounded queue.           *)
THEOREM Refinement == Spec => Implements
<1>1. Init => BF!Init
  BY PhaseIs DEF Init, BF!Init, Queue, Stored, BF!Stored
<1>2. RingInv /\ RingInv' /\ [Next]_vars => [BF!Next]_(BF!vars)
  BY RefinementStep
<1>3. QED
  BY <1>1, <1>2, RingCorrect, PTL DEF Spec, BF!Spec, Implements

=============================================================================
