-------------------------- MODULE PointerFifoProofs --------------------------
(***************************************************************************)
(* Proofs about PointerFifo, for all sizes, integer widths and allocators, *)
(* with and without assertions: the inductive invariant, the ownership of  *)
(* the block, that no access leaves it, and the refinement of the bounded  *)
(* fifo.                                                                   *)
(***************************************************************************)
EXTENDS PointerFifo, SequenceTheorems, TLAPS

-----------------------------------------------------------------------------
(* Arithmetic.                                                             *)

(* A number below the modulus is its own remainder.                        *)
LEMMA ModSmall ==
  ASSUME NEW m \in Nat \ {0}, NEW i \in 0 .. m - 1
  PROVE  i % m = i
OBVIOUS

(* The modulus itself has remainder 0.                                     *)
LEMMA ModSelf ==
  ASSUME NEW m \in Nat \ {0}
  PROVE  m % m = 0
OBVIOUS

(* A quotient times the divisor does not exceed the dividend.              *)
LEMMA DivTimes ==
  ASSUME NEW m \in Nat, NEW b \in Nat \ {0}
  PROVE  (m \div b) \in Nat /\ (m \div b) * b <= m
OBVIOUS

(* Multiplication is monotone.                                             *)
LEMMA TimesMonotone ==
  ASSUME NEW b \in Nat, NEW i \in Nat, NEW j \in Nat, i <= j
  PROVE  i * b \in Nat /\ j * b \in Nat /\ i * b <= j * b
OBVIOUS

(* Division undoes multiplication.                                         *)
LEMMA TimesDiv ==
  ASSUME NEW i \in Nat, NEW b \in Nat \ {0}
  PROVE  (i * b) \div b = i
OBVIOUS

(* The block that init asks for has a cell for each slot: the product does *)
(* not overflow if the assertions hold, or the caller is careful.          *)
LEMMA BlockFits ==
  ASSUME NEW s \in Sizes, Asserted(s)
  PROVE  CellsOf(s) = [i \in 0 .. s - 1 |-> Garbage]
<1> DEFINE limit == (SizeTMod - 1) \div PointerBytes
<1>1. s \in Nat /\ SizeTMod \in Nat \ {0} /\ SizeTMod - 1 \in Nat
  BY WidthAssumption, SizesAssumption
<1>2. limit \in Nat /\ limit * PointerBytes <= SizeTMod - 1
  BY <1>1, WidthAssumption, DivTimes
<1>3. s <= limit
  BY SizesAssumption DEF Asserted
<1>4. s * PointerBytes \in Nat /\ s * PointerBytes <= limit * PointerBytes
      /\ limit * PointerBytes \in Nat
  BY <1>1, <1>2, <1>3, WidthAssumption, TimesMonotone
<1>5. s * PointerBytes \in 0 .. SizeTMod - 1
  BY <1>1, <1>2, <1>4
<1>6. (s * PointerBytes) % SizeTMod = s * PointerBytes
  BY <1>1, <1>5, ModSmall
<1>7. (s * PointerBytes) \div PointerBytes = s
  BY <1>1, WidthAssumption, TimesDiv
<1>8. QED
  BY <1>6, <1>7 DEF CellsOf

-----------------------------------------------------------------------------
(* The ring.                                                               *)

(* (i + 1) % size in unsigned arithmetic is the next slot around the ring, *)
(* for no index and no size does the addition overflow; Back undoes it.    *)
LEMMA WrapIsNext ==
  ASSUME size \in 1 .. UIntMod - 1, NEW i \in 0 .. size - 1
  PROVE  /\ Wrap(i) = IF i + 1 = size THEN 0 ELSE i + 1
         /\ Wrap(i) \in 0 .. size - 1
         /\ Back(i) \in 0 .. size - 1
         /\ Back(Wrap(i)) = i
         /\ Wrap(Back(i)) = i
<1>1. \A j \in 0 .. size - 1 : Wrap(j) = IF j + 1 = size THEN 0 ELSE j + 1
  <2>1. SUFFICES ASSUME NEW j \in 0 .. size - 1
                 PROVE  Wrap(j) = IF j + 1 = size THEN 0 ELSE j + 1
    OBVIOUS
  <2>2. (j + 1) % UIntMod = j + 1
    BY WidthAssumption, ModSmall
  <2>3. CASE j + 1 = size
    BY <2>2, <2>3, ModSelf DEF Wrap
  <2>4. CASE j + 1 # size
    BY <2>2, <2>4, ModSmall, WidthAssumption DEF Wrap
  <2>5. QED
    BY <2>3, <2>4
<1>2. Back(i) \in 0 .. size - 1
  BY WidthAssumption DEF Back
<1>3. QED
  BY <1>1, <1>2, WidthAssumption DEF Back

(* At walks around the ring: by single steps, and onto distinct slots.     *)
LEMMA AtWalks ==
  ASSUME size \in 1 .. UIntMod - 1, NEW i \in 0 .. size - 1
  PROVE  /\ At(i, 0) = i
         /\ \A k \in 0 .. size : At(i, k) \in 0 .. size - 1
         /\ \A k \in 0 .. size - 1 : At(i, k + 1) = Wrap(At(i, k))
         /\ \A k \in 0 .. size - 1 : At(Wrap(i), k) = At(i, k + 1)
         /\ \A j, k \in 0 .. size - 1 : At(i, j) = At(i, k) => j = k
<1>1. \A j \in 0 .. size - 1 : Wrap(j) = IF j + 1 = size THEN 0 ELSE j + 1
  BY WrapIsNext
<1>2. \A k \in 0 .. size : At(i, k) \in 0 .. size - 1
  BY WidthAssumption DEF At
<1>3. QED
  BY <1>1, <1>2, WidthAssumption DEF At

(* The slot c places ahead is none of the c slots before it.               *)
LEMMA NextSlotIsFree ==
  ASSUME size \in 1 .. UIntMod - 1, NEW i \in 0 .. size - 1, NEW c \in 0 .. size - 1
  PROVE  \A k \in 0 .. c - 1 : At(i, k) \in (0 .. size - 1) \ {At(i, c)}
<1>1. \A k \in 0 .. c - 1 : k \in 0 .. size - 1 /\ k \in 0 .. size /\ k # c
  BY WidthAssumption
<1>2. QED
  BY <1>1, AtWalks

(* Within the ring the counter neither overflows nor underflows, and the   *)
(* truncation in get_count loses nothing.                                  *)
LEMMA CounterIsExact ==
  ASSUME NEW s \in 0 .. UIntMod - 1, NEW c \in 0 .. s
  PROVE  /\ c % UIntMod = c
         /\ c < s => (c + 1) % UIntPtrMod = c + 1
         /\ c > 0 => (c - 1) % UIntPtrMod = c - 1
BY WidthAssumption, ModSmall

-----------------------------------------------------------------------------
(* The invariant is inductive.                                             *)

(* A fifo that was never initialized satisfies the invariant.              *)
LEMMA InitRing == Init => RingInv
<1> SUFFICES ASSUME Init
             PROVE  RingInv
  OBVIOUS
<1> USE WidthAssumption, PointerAssumption
<1>1. /\ n \in 0 .. UIntPtrMod - 1 /\ write \in 0 .. UIntMod - 1
      /\ read \in 0 .. UIntMod - 1 /\ size \in 0 .. UIntMod - 1
      /\ storage \in {NULL, Garbage} /\ phase = "raw"
  BY DEF Init
<1>2. TypeOK
  <2>1. observed \in [Observers -> [named : BOOLEAN, count : 0 .. UIntMod - 1]]
    BY DEF Init
  <2>2. /\ DOMAIN memory = Blocks
        /\ \A b \in Blocks : \A i \in DOMAIN memory[b] :
              memory[b][i] \in Pointers \cup {NULL, Garbage}
    BY DEF Init, NoCells
  <2>3. QED
    BY <1>1, <2>1, <2>2, Zenon DEF Init, TypeOK, Stored, FifoFull, NullPointer
<1>3. OwnsOneBlock
  BY <1>1 DEF Init, OwnsOneBlock
<1>4. QED
  BY <1>1, <1>2, <1>3 DEF Init, RingInv, BlockFitsSize, ClosedIsQuiet, NullStopped,
     ChecksStayTrue, IndicesMatchCount, SlotsHoldPointers, TakenPointerIntact

(* A step that leaves the fifo alone, and that neither begins nor ends the *)
(* part of a write between store and increment, leaves alone what relates  *)
(* counter, indices and slots.                                             *)
LEMMA SameRing ==
  ASSUME RingInv, UNCHANGED << fifoVars, heapVars >>, Oldest' = Oldest,
         \/ UNCHANGED << wpc, warg >>
         \/ wpc # "increment" /\ wpc' \notin { "advance", "increment" }
  PROVE  OwnsOneBlock' /\ BlockFitsSize' /\ IndicesMatchCount' /\ SlotsHoldPointers'
<1>1. UNCHANGED << n, write, read, size, storage, phase, memory, live >>
  BY DEF fifoVars, heapVars
<1>2. OwnsOneBlock' /\ BlockFitsSize'
  BY <1>1 DEF RingInv, OwnsOneBlock, BlockFitsSize
<1>3. \A k : At(Oldest, k)' = At(Oldest, k)
  BY <1>1 DEF At
<1>4. IndicesMatchCount'
  BY <1>1, <1>3 DEF RingInv, IndicesMatchCount
<1>5. SlotsHoldPointers'
  BY <1>1, <1>3 DEF RingInv, SlotsHoldPointers
<1>6. QED
  BY <1>2, <1>4, <1>5

(* A step of the producer between two calls, or up to its store, touches   *)
(* nothing but its own state: it is harmless if what it has checked is so. *)
LEMMA ProducerMoves ==
  ASSUME RingInv, UNCHANGED << fifoVars, heapVars, consumerVars, observed >>,
         wpc # "increment", wpc' \in { "idle", "enter", "store", "return" },
         warg' \in Pointers \cup {NULL},
         wres' \in { Stored, FifoFull, NullPointer },
         wpc' \in { "enter", "store" } => phase = "open",
         wpc' = "store" => warg' \in Pointers /\ n < size
  PROVE  RingInv'
<1>1. /\ UNCHANGED << n, write, read, size, storage, phase, memory, live >>
      /\ UNCHANGED << rpc, pointer, observed >>
  BY DEF fifoVars, heapVars, consumerVars
<1>2. Oldest' = Oldest
  BY <1>1 DEF Oldest, Back
<1>3. OwnsOneBlock' /\ BlockFitsSize' /\ IndicesMatchCount' /\ SlotsHoldPointers'
  BY <1>2, SameRing
<1>4. TypeOK'
  BY <1>1 DEF RingInv, TypeOK
<1>5. TakenPointerIntact'
  BY <1>1, <1>2 DEF RingInv, TakenPointerIntact
<1>6. ClosedIsQuiet' /\ NullStopped' /\ ChecksStayTrue'
  BY <1>1 DEF RingInv, ClosedIsQuiet, NullStopped, ChecksStayTrue
<1>7. QED
  BY <1>3, <1>4, <1>5, <1>6 DEF RingInv

(* done leaves a fifo without storage; the threads need not be idle, as    *)
(* long as they are through with what _write and _read do to the fifo.     *)
LEMMA DoneKeepsRing ==
  ASSUME RingInv, Done, storage # Garbage,
         wpc \in { "idle", "return" }, rpc \in { "idle", "return" }
  PROVE  RingInv'
<1> USE PointerAssumption DEF RingInv, TypeOK, producerVars, consumerVars
<1>1. /\ phase' = "done"
      /\ UNCHANGED << n, write, read, size, producerVars, consumerVars, observed >>
  BY DEF Done
<1>2. OwnsOneBlock' /\ TypeOK'
  <2>1. CASE storage = NULL
    BY <1>1, <2>1 DEF Done, heapVars, OwnsOneBlock
  <2>2. CASE storage # NULL
    <3>1. storage \in Blocks /\ live = {storage}
      BY <2>2 DEF OwnsOneBlock
    <3>2. /\ live' = {} /\ storage' = NULL
          /\ memory' = [memory EXCEPT ![storage] = NoCells]
      BY <2>2, <3>1 DEF Done, Release
    <3>3. /\ DOMAIN memory' = Blocks
          /\ \A c \in Blocks : \A i \in DOMAIN memory'[c] :
                memory'[c][i] \in Pointers \cup {NULL, Garbage}
      BY <3>1, <3>2 DEF NoCells
    <3>4. QED
      BY <1>1, <3>2, <3>3 DEF OwnsOneBlock
  <2>3. QED
    BY <2>1, <2>2
<1>3. QED
  BY <1>1, <1>2 DEF ClosedIsQuiet, NullStopped, ChecksStayTrue, TakenPointerIntact,
     BlockFitsSize, IndicesMatchCount, SlotsHoldPointers

(* Every access of the two threads, and every init and done, preserves it. *)
LEMMA RingStep == RingInv /\ [Next]_vars => RingInv'
<1> SUFFICES ASSUME RingInv, [Next]_vars
             PROVE  RingInv'
  OBVIOUS
<1> USE WidthAssumption, PointerAssumption
        DEF RingInv, TypeOK, ClosedIsQuiet, NullStopped, ChecksStayTrue,
            TakenPointerIntact, fifoVars, heapVars, producerVars, consumerVars,
            Stored, FifoFull, NullPointer
<1>1. ASSUME NEW s \in Sizes, InitFifo(s)
      PROVE  RingInv'
  <2>1. PICK b \in Blocks \ live : /\ storage' = b /\ live' = live \cup {b}
                                  /\ memory' = [memory EXCEPT ![b] = CellsOf(s)]
    BY <1>1 DEF InitFifo
  <2>2. CellsOf(s) = [i \in 0 .. s - 1 |-> Garbage] /\ s \in 0 .. UIntMod - 1
    BY <1>1, BlockFits, SizesAssumption DEF InitFifo
  <2>3. live = {}
    BY <1>1 DEF InitFifo, CanInit, OwnsOneBlock
  <2>4. live' = {storage'} /\ storage' \in Blocks
    BY <2>1, <2>3
  <2>5. memory'[storage'] = [i \in 0 .. s - 1 |-> Garbage] /\ DOMAIN memory' = Blocks
    BY <2>1, <2>2
  <2>6. \A c \in Blocks : \A i \in DOMAIN memory'[c] :
           memory'[c][i] \in Pointers \cup {NULL, Garbage}
    BY <2>1, <2>2
  <2>7. /\ n' = 0 /\ write' = 0 /\ read' = 0 /\ size' = s /\ phase' = "open"
        /\ wpc' = "idle" /\ rpc' = "idle"
        /\ UNCHANGED << producerVars, consumerVars, observed >>
    BY <1>1 DEF InitFifo, CanInit, Idle
  <2>8. TypeOK'
    BY <2>2, <2>4, <2>5, <2>6, <2>7
  <2>9. OwnsOneBlock' /\ BlockFitsSize'
    BY <2>4, <2>5, <2>7 DEF OwnsOneBlock, BlockFitsSize
  <2>10. IndicesMatchCount' /\ SlotsHoldPointers'
    BY <2>2, <2>7 DEF At, Oldest, IndicesMatchCount, SlotsHoldPointers
  <2>11. QED
    BY <2>7, <2>8, <2>9, <2>10
<1>2. ASSUME NEW s \in Sizes, AllocationFails(s)
      PROVE  RingInv'
  <2>1. OwnsOneBlock' /\ BlockFitsSize' /\ IndicesMatchCount' /\ SlotsHoldPointers'
    BY <1>2 DEF AllocationFails, CanInit, Idle, OwnsOneBlock, BlockFitsSize,
       IndicesMatchCount, SlotsHoldPointers
  <2>2. QED
    BY <1>2, <2>1, SizesAssumption DEF AllocationFails, CanInit, Idle
<1>3. ASSUME NEW s \in Sizes, AssertionFails(s)
      PROVE  RingInv'
  <2>1. OwnsOneBlock' /\ BlockFitsSize' /\ IndicesMatchCount' /\ SlotsHoldPointers'
    BY <1>3 DEF AssertionFails, CanInit, Idle, OwnsOneBlock, BlockFitsSize,
       IndicesMatchCount, SlotsHoldPointers
  <2>2. QED
    BY <1>3, <2>1 DEF AssertionFails, CanInit, Idle
<1>4. CASE DoneFifo
  BY <1>4, DoneKeepsRing DEF DoneFifo, Idle
<1>5. CASE Aborted
  BY <1>5 DEF Aborted, vars, OwnsOneBlock, BlockFitsSize, IndicesMatchCount,
     SlotsHoldPointers, Oldest, At, Back
<1>6. ASSUME NEW p \in Pointers \cup {NULL}, CallWrite(p)
      PROVE  RingInv'
  BY <1>6, ProducerMoves DEF CallWrite
<1>7. ASSUME NEW p \in Pointers \cup {NULL}, WriteNoFifo(p)
      PROVE  RingInv'
  BY <1>7, ProducerMoves DEF WriteNoFifo
<1>8. CASE WriteNull
  BY <1>8, ProducerMoves DEF WriteNull
<1>9. CASE WriteFull
  BY <1>9, ProducerMoves DEF WriteFull
<1>10. CASE WriteHasRoom
  <2>1. phase = "open" /\ n \in 0 .. size /\ size \in 0 .. UIntMod - 1
    BY <1>10 DEF WriteHasRoom
  <2>2. n < size
    BY <1>10, <2>1, CounterIsExact DEF WriteHasRoom, Count
  <2>3. QED
    BY <1>10, <2>1, <2>2, ProducerMoves DEF WriteHasRoom
<1>11. CASE WriteStore
  <2>1. /\ phase = "open" /\ storage \in Blocks /\ n \in 0 .. size - 1
        /\ size \in 1 .. UIntMod - 1 /\ write \in 0 .. size - 1
        /\ Oldest \in 0 .. size - 1 /\ write = At(Oldest, n)
        /\ DOMAIN memory[storage] = 0 .. size - 1
    <3>1. phase = "open" /\ n \in 0 .. size - 1 /\ size \in 1 .. UIntMod - 1
      BY <1>11 DEF WriteStore
    <3>2. Oldest \in 0 .. size - 1
      BY <3>1, WrapIsNext DEF Oldest
    <3>3. QED
      BY <1>11, <3>1, <3>2
         DEF WriteStore, OwnsOneBlock, BlockFitsSize, IndicesMatchCount
  <2>2. /\ memory' = [memory EXCEPT ![storage] = [memory[storage] EXCEPT ![write] = warg]]
        /\ UNCHANGED << n, write, read, size, storage, phase, live, warg, wres, rpc,
                        pointer, observed >>
        /\ wpc' = "advance" /\ warg \in Pointers
    BY <1>11 DEF WriteStore
  <2>3. /\ DOMAIN memory' = Blocks /\ DOMAIN memory'[storage] = 0 .. size - 1
        /\ memory'[storage][write] = warg
        /\ \A i \in (0 .. size - 1) \ {write} :
              memory'[storage][i] = memory[storage][i]
        /\ \A b \in Blocks \ {storage} : memory'[b] = memory[b]
    BY <2>1, <2>2
  <2>4. TypeOK'
    <3>1. \A b \in Blocks : \A i \in DOMAIN memory'[b] :
             memory'[b][i] \in Pointers \cup {NULL, Garbage}
      BY <2>1, <2>2, <2>3
    <3>2. QED
      BY <2>2, <2>3, <3>1
  <2>5. \A k \in 0 .. n - 1 : At(Oldest, k) \in (0 .. size - 1) \ {write}
    <3>1. \A k \in 0 .. n - 1 : At(Oldest, k) \in (0 .. size - 1) \ {At(Oldest, n)}
      BY <2>1, NextSlotIsFree
    <3>2. QED
      BY <2>1, <3>1, Zenon
  <2>6. Oldest' = Oldest /\ \A k : At(Oldest, k)' = At(Oldest, k)
    BY <2>2 DEF At, Oldest, Back
  <2>7. SlotsHoldPointers' /\ IndicesMatchCount'
    BY <1>11, <2>1, <2>2, <2>3, <2>5, <2>6
       DEF WriteStore, SlotsHoldPointers, IndicesMatchCount
  <2>8. TakenPointerIntact'
    <3>1. rpc \in { "advance", "decrement" } => Oldest = At(Oldest, 0) /\ n > 0
      BY <2>1, AtWalks
    <3>2. QED
      BY <2>1, <2>2, <2>3, <2>5, <2>6, <3>1
  <2>9. OwnsOneBlock' /\ BlockFitsSize'
    BY <2>2, <2>3 DEF OwnsOneBlock, BlockFitsSize
  <2>10. QED
    BY <1>11, <2>1, <2>2, <2>4, <2>7, <2>8, <2>9 DEF WriteStore
<1>12. CASE WriteAdvance
  <2>1. /\ phase = "open" /\ n \in 0 .. size - 1 /\ size \in 1 .. UIntMod - 1
        /\ write \in 0 .. size - 1 /\ Oldest \in 0 .. size - 1
        /\ write = At(Oldest, n)
    <3>1. phase = "open" /\ n \in 0 .. size - 1 /\ size \in 1 .. UIntMod - 1
      BY <1>12 DEF WriteAdvance
    <3>2. Oldest \in 0 .. size - 1
      BY <3>1, WrapIsNext DEF Oldest
    <3>3. QED
      BY <1>12, <3>1, <3>2 DEF WriteAdvance, IndicesMatchCount
  <2>2. Wrap(write) \in 0 .. size - 1 /\ Wrap(write) = At(Oldest, n + 1)
    <3>1. Wrap(write) \in 0 .. size - 1
      BY <2>1, WrapIsNext
    <3>2. At(Oldest, n + 1) = Wrap(At(Oldest, n))
      BY <2>1, AtWalks
    <3>3. QED
      BY <2>1, <3>1, <3>2
  <2>3. /\ write' = Wrap(write) /\ wpc' = "increment"
        /\ UNCHANGED << n, read, size, storage, phase, memory, live, warg, wres, rpc,
                        pointer, observed >>
    BY <1>12 DEF WriteAdvance
  <2>4. Oldest' = Oldest /\ \A k : At(Oldest, k)' = At(Oldest, k)
    BY <2>3 DEF At, Oldest, Back
  <2>5. TypeOK'
    BY <2>1, <2>2, <2>3
  <2>6. IndicesMatchCount'
    BY <2>1, <2>2, <2>3, <2>4 DEF IndicesMatchCount
  <2>7. SlotsHoldPointers'
    BY <1>12, <2>1, <2>3, <2>4 DEF WriteAdvance, SlotsHoldPointers
  <2>8. OwnsOneBlock' /\ BlockFitsSize'
    BY <2>3 DEF OwnsOneBlock, BlockFitsSize
  <2>9. QED
    BY <1>12, <2>1, <2>3, <2>4, <2>5, <2>6, <2>7, <2>8 DEF WriteAdvance
<1>13. CASE WriteIncrement
  <2>1. /\ phase = "open" /\ Oldest \in 0 .. size - 1 /\ n \in 0 .. size - 1
        /\ size \in 1 .. UIntMod - 1 /\ write = At(Oldest, n + 1)
        /\ memory[storage][At(Oldest, n)] \in Pointers
    <3>1. phase = "open" /\ n \in 0 .. size - 1 /\ size \in 1 .. UIntMod - 1
      BY <1>13 DEF WriteIncrement
    <3>2. Oldest \in 0 .. size - 1
      BY <3>1, WrapIsNext DEF Oldest
    <3>3. QED
      BY <1>13, <3>1, <3>2 DEF WriteIncrement, IndicesMatchCount, SlotsHoldPointers
  <2>2. n' = n + 1
    <3>1. n \in 0 .. size /\ size \in 0 .. UIntMod - 1 /\ n < size
      BY <2>1
    <3>2. QED
      BY <1>13, <3>1, CounterIsExact DEF WriteIncrement
  <2>3. /\ wpc' = "return" /\ wres' = Stored
        /\ UNCHANGED << write, read, size, storage, phase, memory, live, warg, rpc,
                        pointer, observed >>
    BY <1>13 DEF WriteIncrement
  <2>4. Oldest' = Oldest /\ \A k : At(Oldest, k)' = At(Oldest, k)
    BY <2>3 DEF At, Oldest, Back
  <2>5. TypeOK'
    <3>1. n' \in 0 .. size /\ n' \in 0 .. UIntPtrMod - 1
      BY <2>1, <2>2
    <3>2. QED
      BY <2>3, <3>1
  <2>6. SlotsHoldPointers'
    <3>1. \A k \in 0 .. n' - 1 : k = n \/ k \in 0 .. n - 1
      BY <2>1, <2>2
    <3>2. \A k \in 0 .. n - 1 : memory[storage][At(Oldest, k)] \in Pointers
      BY <2>1 DEF SlotsHoldPointers
    <3>3. QED
      BY <2>1, <2>3, <2>4, <3>1, <3>2 DEF SlotsHoldPointers
  <2>7. IndicesMatchCount'
    BY <2>1, <2>2, <2>3, <2>4 DEF IndicesMatchCount
  <2>8. OwnsOneBlock' /\ BlockFitsSize'
    BY <2>3 DEF OwnsOneBlock, BlockFitsSize
  <2>9. QED
    BY <2>1, <2>2, <2>3, <2>4, <2>5, <2>6, <2>7, <2>8
<1>14. CASE WriteReturn
  BY <1>14, ProducerMoves DEF WriteReturn
<1>15. CASE CallRead
  <2>1. OwnsOneBlock' /\ BlockFitsSize' /\ IndicesMatchCount' /\ SlotsHoldPointers'
    BY <1>15, SameRing DEF CallRead, Oldest, Back
  <2>2. QED
    BY <1>15, <2>1 DEF CallRead
<1>16. CASE ReadNoFifo
  <2>1. OwnsOneBlock' /\ BlockFitsSize' /\ IndicesMatchCount' /\ SlotsHoldPointers'
    BY <1>16, SameRing DEF ReadNoFifo, Oldest, Back
  <2>2. QED
    BY <1>16, <2>1 DEF ReadNoFifo
<1>17. CASE ReadEmpty
  <2>1. OwnsOneBlock' /\ BlockFitsSize' /\ IndicesMatchCount' /\ SlotsHoldPointers'
    BY <1>17, SameRing DEF ReadEmpty, Oldest, Back
  <2>2. QED
    BY <1>17, <2>1 DEF ReadEmpty
<1>18. CASE ReadHasPointer
  <2>1. OwnsOneBlock' /\ BlockFitsSize' /\ IndicesMatchCount' /\ SlotsHoldPointers'
    BY <1>18, SameRing DEF ReadHasPointer, Oldest
  <2>2. phase = "open" /\ n \in 0 .. size /\ size \in 0 .. UIntMod - 1
    BY <1>18 DEF ReadHasPointer
  <2>3. n > 0
    BY <1>18, <2>2, CounterIsExact DEF ReadHasPointer, Count
  <2>4. QED
    BY <1>18, <2>1, <2>3 DEF ReadHasPointer
<1>19. CASE ReadLoad
  <2>1. OwnsOneBlock' /\ BlockFitsSize' /\ IndicesMatchCount' /\ SlotsHoldPointers'
    BY <1>19, SameRing DEF ReadLoad, Oldest
  <2>2. /\ phase = "open" /\ n \in 1 .. size /\ size \in 1 .. UIntMod - 1
        /\ read \in 0 .. size - 1 /\ Oldest = read /\ Oldest' = read
    BY <1>19 DEF ReadLoad, Oldest
  <2>3. At(Oldest, 0) = read /\ 0 \in 0 .. n - 1
    BY <2>2, AtWalks
  <2>4. memory[storage][read] \in Pointers
    BY <2>2, <2>3 DEF SlotsHoldPointers
  <2>5. QED
    BY <1>19, <2>1, <2>2, <2>4 DEF ReadLoad
<1>20. CASE ReadAdvance
  <2>1. /\ phase = "open" /\ n \in 1 .. size /\ size \in 1 .. UIntMod - 1
        /\ read \in 0 .. size - 1 /\ Oldest = read
    BY <1>20 DEF ReadAdvance, Oldest
  <2>2. Wrap(read) \in 0 .. size - 1 /\ Back(Wrap(read)) = read
    BY <2>1, WrapIsNext
  <2>3. /\ read' = Wrap(read) /\ rpc' = "decrement"
        /\ UNCHANGED << n, write, size, storage, phase, memory, live, wpc, warg, wres,
                        pointer, observed >>
    BY <1>20 DEF ReadAdvance
  <2>4. Oldest' = Oldest
    BY <2>1, <2>2, <2>3 DEF Back, Oldest
  <2>5. \A k : At(Oldest, k)' = At(Oldest, k)
    BY <2>3, <2>4 DEF At
  <2>6. IndicesMatchCount' /\ SlotsHoldPointers'
    BY <2>3, <2>4, <2>5 DEF IndicesMatchCount, SlotsHoldPointers
  <2>7. OwnsOneBlock' /\ BlockFitsSize'
    BY <2>3 DEF OwnsOneBlock, BlockFitsSize
  <2>8. QED
    BY <1>20, <2>1, <2>2, <2>3, <2>4, <2>6, <2>7 DEF ReadAdvance
<1>21. CASE ReadDecrement
  <2>1. /\ phase = "open" /\ n \in 1 .. size /\ size \in 1 .. UIntMod - 1
        /\ read \in 0 .. size - 1 /\ Oldest = Back(read)
    BY <1>21 DEF ReadDecrement, Oldest
  <2>2. Oldest \in 0 .. size - 1 /\ Wrap(Oldest) = read
    BY <2>1, WrapIsNext
  <2>3. n' = n - 1
    <3>1. n \in 0 .. size /\ size \in 0 .. UIntMod - 1 /\ n > 0
      BY <2>1
    <3>2. QED
      BY <1>21, <3>1, CounterIsExact DEF ReadDecrement
  <2>4. /\ rpc' = "return" /\ Oldest' = read
        /\ UNCHANGED << write, read, size, storage, phase, memory, live, wpc, warg,
                        wres, pointer, observed >>
    BY <1>21 DEF ReadDecrement, Oldest
  <2>5. \A k \in 0 .. size - 1 : At(Oldest, k)' = At(Oldest, k + 1)
    <3>1. \A k \in 0 .. size - 1 : At(Wrap(Oldest), k) = At(Oldest, k + 1)
      BY <2>1, <2>2, AtWalks
    <3>2. \A k : At(Oldest, k)' = At(read, k)
      BY <2>4 DEF At
    <3>3. QED
      BY <2>2, <3>1, <3>2
  <2>6. TypeOK'
    <3>1. n' \in 0 .. size /\ n' \in 0 .. UIntPtrMod - 1
      BY <2>1, <2>3
    <3>2. QED
      BY <2>4, <3>1
  <2>7. ChecksStayTrue'
    BY <2>1, <2>3, <2>4
  <2>8. IndicesMatchCount'
    <3>1. n' \in 0 .. size - 1 /\ (wpc = "increment" => n' + 1 \in 0 .. size - 1)
      BY <2>1, <2>3
    <3>2. QED
      BY <2>1, <2>3, <2>4, <2>5, <3>1 DEF IndicesMatchCount
  <2>9. SlotsHoldPointers'
    <3>1. \A k \in 0 .. n' - 1 : k \in 0 .. size - 1 /\ k + 1 \in 0 .. n - 1
      BY <2>1, <2>3
    <3>2. n' \in 0 .. size - 1 /\ n' + 1 = n
      BY <2>1, <2>3
    <3>3. QED
      BY <2>1, <2>4, <2>5, <3>1, <3>2 DEF SlotsHoldPointers
  <2>10. OwnsOneBlock' /\ BlockFitsSize'
    BY <2>4 DEF OwnsOneBlock, BlockFitsSize
  <2>11. QED
    BY <2>1, <2>4, <2>6, <2>7, <2>8, <2>9, <2>10
<1>22. CASE ReadReturn
  <2>1. OwnsOneBlock' /\ BlockFitsSize' /\ IndicesMatchCount' /\ SlotsHoldPointers'
    BY <1>22, SameRing DEF ReadReturn, Oldest, Back
  <2>2. QED
    BY <1>22, <2>1 DEF ReadReturn
<1>23. ASSUME NEW o \in Observers, GetCount(o) \/ GetCountNoFifo(o)
       PROVE  RingInv'
  <2>1. OwnsOneBlock' /\ BlockFitsSize' /\ IndicesMatchCount' /\ SlotsHoldPointers'
    BY <1>23, SameRing DEF GetCount, GetCountNoFifo, Oldest, Back
  <2>2. PICK last \in [named : BOOLEAN, count : 0 .. UIntMod - 1] :
           observed' = [observed EXCEPT ![o] = last]
    <3>1. Count \in 0 .. UIntMod - 1 /\ 0 \in 0 .. UIntMod - 1
      BY WidthAssumption DEF Count, RingInv, TypeOK
    <3>2. CASE GetCount(o)
      BY <3>1, <3>2 DEF GetCount
    <3>3. CASE GetCountNoFifo(o)
      BY <3>1, <3>3 DEF GetCountNoFifo
    <3>4. QED
      BY <1>23, <3>2, <3>3
  <2>3. observed' \in [Observers -> [named : BOOLEAN, count : 0 .. UIntMod - 1]]
    BY <2>2 DEF RingInv, TypeOK
  <2>4. UNCHANGED << fifoVars, heapVars, producerVars, consumerVars, Oldest >>
    BY <1>23 DEF GetCount, GetCountNoFifo, Oldest, Back
  <2>5. QED
    BY <2>1, <2>3, <2>4
<1>24. CASE UNCHANGED vars
  <2>1. UNCHANGED << fifoVars, heapVars, producerVars, consumerVars, observed, Oldest >>
    BY <1>24 DEF vars, Oldest, Back
  <2>2. OwnsOneBlock' /\ BlockFitsSize' /\ IndicesMatchCount' /\ SlotsHoldPointers'
    BY <2>1, SameRing
  <2>3. QED
    BY <2>1, <2>2
<1>25. QED
  BY <1>1, <1>2, <1>3, <1>4, <1>5, <1>6, <1>7, <1>8, <1>9, <1>10, <1>11, <1>12,
     <1>13, <1>14, <1>15, <1>16, <1>17, <1>18, <1>19, <1>20, <1>21, <1>22, <1>23,
     <1>24 DEF Next, WriteStep, ReadStep

(* The invariant holds in every reachable state.                           *)
THEOREM RingCorrect == Spec => []RingInv
BY InitRing, RingStep, PTL DEF Spec

(* The fields of an initialized fifo stay within the ring of its size.     *)
THEOREM TypeCorrect == Spec => []TypeOK
<1>1. RingInv => TypeOK
  BY DEF RingInv
<1>2. QED
  BY <1>1, RingCorrect, PTL

(* Over any sequence of init and done calls no block leaks and none is     *)
(* freed twice.                                                            *)
THEOREM OwnershipCorrect == Spec => []OwnsOneBlock
<1>1. RingInv => OwnsOneBlock
  BY DEF RingInv
<1>2. QED
  BY <1>1, RingCorrect, PTL

(* No access through storage misses the block, for no size, no width of    *)
(* the integers and in no build.                                           *)
THEOREM AccessesCorrect == Spec => []AccessesInBounds
<1>1. RingInv => AccessesInBounds
  <2>1. SUFFICES ASSUME RingInv
                 PROVE  AccessesInBounds
    OBVIOUS
  <2>2. wpc \in { "store", "advance" } => phase = "open" /\ n < size
    BY <2>1 DEF RingInv, ClosedIsQuiet, ChecksStayTrue
  <2>3. rpc \in { "load", "advance" } => phase = "open" /\ n > 0
    BY <2>1 DEF RingInv, ClosedIsQuiet, ChecksStayTrue
  <2>4. QED
    BY <2>1, <2>2, <2>3 DEF RingInv, TypeOK, OwnsOneBlock, BlockFitsSize,
       AccessesInBounds
<1>2. QED
  BY <1>1, RingCorrect, PTL

(* A store never overwrites a pointer that is still to be read.            *)
THEOREM StoresCorrect == Spec => []StoresIntoFreeSlot
<1>1. RingInv => StoresIntoFreeSlot
  <2>1. SUFFICES ASSUME RingInv, wpc = "store"
                 PROVE  write \notin LiveSlots
    BY DEF StoresIntoFreeSlot
  <2>2. /\ phase = "open" /\ n \in 0 .. size - 1 /\ size \in 1 .. UIntMod - 1
        /\ read \in 0 .. size - 1 /\ write = At(Oldest, n)
    BY <2>1, WidthAssumption
       DEF RingInv, TypeOK, ClosedIsQuiet, ChecksStayTrue, IndicesMatchCount
  <2>3. Oldest \in 0 .. size - 1
    BY <2>2, WrapIsNext DEF Oldest
  <2>4. \A k \in 0 .. n - 1 : At(Oldest, k) # At(Oldest, n)
    BY <2>2, <2>3, NextSlotIsFree
  <2>5. QED
    BY <2>2, <2>4 DEF LiveSlots
<1>2. QED
  BY <1>1, RingCorrect, PTL

(* What _read returns stays in its slot until the slot is given back.      *)
THEOREM TakenCorrect == Spec => []TakenPointerIntact
<1>1. RingInv => TakenPointerIntact
  BY DEF RingInv
<1>2. QED
  BY <1>1, RingCorrect, PTL

-----------------------------------------------------------------------------
(* The queue, and the steps that change what it is made of.                *)

(* In an open fifo the counter and the oldest slot are within the ring,    *)
(* that has at least one slot if a pointer is stored or about to be.       *)
LEMMA OpenRing ==
  ASSUME RingInv, phase = "open"
  PROVE  /\ n \in 0 .. size /\ size \in 0 .. UIntMod - 1
         /\ size > 0 => /\ size \in 1 .. UIntMod - 1
                        /\ read \in 0 .. size - 1 /\ write \in 0 .. size - 1
                        /\ Oldest \in 0 .. size - 1
<1>1. /\ n \in 0 .. size /\ size \in 0 .. UIntMod - 1
      /\ write \in Nat /\ read \in Nat
      /\ write = 0 \/ write < size
      /\ read = 0 \/ read < size
  BY WidthAssumption DEF RingInv, TypeOK
<1>2. ASSUME size > 0
      PROVE  /\ size \in 1 .. UIntMod - 1
             /\ read \in 0 .. size - 1 /\ write \in 0 .. size - 1
  BY <1>1, <1>2, WidthAssumption
<1>3. ASSUME size > 0
      PROVE  Oldest \in 0 .. size - 1
  BY <1>2, <1>3, WrapIsNext DEF Oldest
<1>4. QED
  BY <1>1, <1>2, <1>3

(* The queue in terms of the ring: a sequence of n pointers.               *)
LEMMA QueueIsSeq ==
  ASSUME RingInv, phase = "open"
  PROVE  /\ Queue \in Seq(Pointers)
         /\ Len(Queue) = n
         /\ \A k \in 1 .. n : Queue[k] = memory[storage][At(Oldest, k - 1)]
<1>1. n \in Nat /\ Queue = [k \in 1 .. n |-> memory[storage][At(Oldest, k - 1)]]
  BY OpenRing DEF Queue
<1>2. \A k \in 1 .. n : memory[storage][At(Oldest, k - 1)] \in Pointers
  <2>1. \A k \in 1 .. n : k - 1 \in 0 .. n - 1
    BY <1>1
  <2>2. QED
    BY <2>1 DEF RingInv, SlotsHoldPointers
<1>3. Queue \in [1 .. n -> Pointers]
  BY <1>1, <1>2
<1>4. QED
  BY <1>1, <1>3

(* A step that leaves alone what the queue is made of leaves the queue     *)
(* alone.                                                                  *)
LEMMA QueueUnchanged ==
  ASSUME UNCHANGED << n, size, storage, memory, phase >>, Oldest' = Oldest
  PROVE  Queue' = Queue
BY DEF Queue, At

(* Phase distinguishes being idle, being in the call and being done.       *)
LEMMA PhaseIs ==
  /\ Phase("idle") = "idle"
  /\ Phase("return") = "returning"
  /\ \A pc \in { "enter", "store", "load", "advance", "increment", "decrement" } :
        Phase(pc) = "called"
BY DEF Phase

(* A store fills the slot behind the queue.                                *)
LEMMA StoreKeepsQueue ==
  ASSUME RingInv, WriteStore
  PROVE  Queue' = Queue
<1>1. /\ phase = "open" /\ storage \in Blocks /\ n \in 0 .. size - 1
      /\ size \in 1 .. UIntMod - 1 /\ Oldest \in 0 .. size - 1
      /\ write = At(Oldest, n) /\ DOMAIN memory = Blocks
  BY OpenRing DEF WriteStore, RingInv, TypeOK, ClosedIsQuiet, ChecksStayTrue,
     IndicesMatchCount, OwnsOneBlock
<1>2. \A k \in 1 .. n : At(Oldest, k - 1) # write
  <2>1. \A k \in 1 .. n : k - 1 \in 0 .. n - 1
    BY <1>1
  <2>2. \A k \in 0 .. n - 1 : At(Oldest, k) # At(Oldest, n)
    BY <1>1, NextSlotIsFree
  <2>3. QED
    BY <1>1, <2>1, <2>2, Zenon
<1>3. memory'[storage] = [memory[storage] EXCEPT ![write] = warg]
  BY <1>1 DEF WriteStore
<1>4. \A k \in 1 .. n :
         memory'[storage][At(Oldest, k - 1)] = memory[storage][At(Oldest, k - 1)]
  BY <1>2, <1>3
<1>5. Oldest' = Oldest /\ UNCHANGED << n, size, storage, phase >>
  BY DEF WriteStore, Oldest, Back, fifoVars, consumerVars
<1>6. \A k : At(Oldest, k)' = At(Oldest, k)
  BY <1>5 DEF At
<1>7. QED
  BY <1>4, <1>5, <1>6 DEF Queue

(* An increment appends the pointer that was stored.                       *)
LEMMA IncrementAppends ==
  ASSUME RingInv, WriteIncrement
  PROVE  /\ phase = "open" /\ warg \in Pointers
         /\ n \in 0 .. size - 1 /\ n' = n + 1
         /\ Len(Queue) < size
         /\ Queue' = Append(Queue, warg)
<1>1. /\ phase = "open" /\ n \in 0 .. size - 1 /\ size \in 0 .. UIntMod - 1
      /\ warg \in Pointers /\ memory[storage][At(Oldest, n)] = warg
  BY OpenRing DEF WriteIncrement, RingInv, ClosedIsQuiet, NullStopped,
     ChecksStayTrue, SlotsHoldPointers
<1>2. n' = n + 1
  <2>1. n \in 0 .. size /\ n < size
    BY <1>1
  <2>2. QED
    BY <1>1, <2>1, CounterIsExact DEF WriteIncrement
<1>3. Oldest' = Oldest /\ UNCHANGED << size, storage, memory, phase >>
  BY DEF WriteIncrement, Oldest, Back, heapVars, consumerVars
<1>4. \A k : At(Oldest, k)' = At(Oldest, k)
  BY <1>3 DEF At
<1>5. /\ Queue \in Seq(Pointers) /\ Len(Queue) = n
      /\ \A k \in 1 .. n : Queue[k] = memory[storage][At(Oldest, k - 1)]
  BY <1>1, QueueIsSeq
<1>6. Queue' = [k \in 1 .. n + 1 |-> memory[storage][At(Oldest, k - 1)]]
  BY <1>1, <1>2, <1>3, <1>4 DEF Queue
<1>7. Queue'[n + 1] = warg /\ \A k \in 1 .. n : Queue'[k] = Queue[k]
  BY <1>1, <1>5, <1>6
<1>8. Queue' \in Seq(Pointers) /\ Len(Queue') = n + 1
  <2>1. \A k \in 1 .. n + 1 : k = n + 1 \/ k \in 1 .. n
    BY <1>1
  <2>2. \A k \in 1 .. n : Queue[k] \in Pointers
    BY <1>5, ElementOfSeq
  <2>3. \A k \in 1 .. n + 1 : Queue'[k] \in Pointers
    BY <1>1, <1>7, <2>1, <2>2
  <2>4. Queue' \in [1 .. n + 1 -> Pointers] /\ n + 1 \in Nat
    BY <1>1, <1>6, <2>3
  <2>5. QED
    BY <2>4
<1>9. /\ Append(Queue, warg) \in Seq(Pointers)
      /\ Len(Append(Queue, warg)) = n + 1
      /\ Append(Queue, warg)[n + 1] = warg
      /\ \A k \in 1 .. n : Append(Queue, warg)[k] = Queue[k]
  BY <1>1, <1>5, AppendProperties
<1>10. \A k \in 1 .. n + 1 : Queue'[k] = Append(Queue, warg)[k]
  BY <1>1, <1>7, <1>9
<1>11. Queue' = Append(Queue, warg)
  BY <1>8, <1>9, <1>10, SeqEqual
<1>12. QED
  BY <1>1, <1>2, <1>5, <1>11

(* A decrement removes the pointer that was loaded.                        *)
LEMMA DecrementRemoves ==
  ASSUME RingInv, ReadDecrement
  PROVE  /\ phase = "open"
         /\ n \in 1 .. size /\ n' = n - 1
         /\ Queue # << >>
         /\ Head(Queue) = pointer
         /\ Queue' = Tail(Queue)
<1>1. /\ phase = "open" /\ n \in 1 .. size /\ size \in 1 .. UIntMod - 1
      /\ read \in 0 .. size - 1 /\ Oldest \in 0 .. size - 1 /\ Oldest = Back(read)
      /\ pointer = memory[storage][Oldest]
  BY OpenRing DEF ReadDecrement, RingInv, ClosedIsQuiet, ChecksStayTrue,
     TakenPointerIntact, Oldest
<1>2. n' = n - 1
  <2>1. n \in 0 .. size /\ size \in 0 .. UIntMod - 1 /\ n > 0
    BY <1>1
  <2>2. QED
    BY <2>1, CounterIsExact DEF ReadDecrement
<1>3. Oldest' = Wrap(Oldest) /\ UNCHANGED << size, storage, memory, phase >>
  <2>1. Wrap(Oldest) = read
    BY <1>1, WrapIsNext
  <2>2. QED
    BY <2>1 DEF ReadDecrement, Oldest, heapVars
<1>4. /\ Queue \in Seq(Pointers) /\ Len(Queue) = n
      /\ \A k \in 1 .. n : Queue[k] = memory[storage][At(Oldest, k - 1)]
  BY <1>1, QueueIsSeq
<1>5. Queue # << >> /\ Head(Queue) = pointer
  <2>1. At(Oldest, 0) = Oldest
    BY <1>1, AtWalks
  <2>2. Queue[1] = pointer
    BY <1>1, <1>4, <2>1
  <2>3. QED
    BY <1>1, <1>4, <2>2
<1>6. Queue' = [k \in 1 .. n - 1 |-> memory[storage][At(Oldest, k)]]
  <2>1. \A k \in 1 .. n - 1 : k - 1 \in 0 .. size - 1 /\ (k - 1) + 1 = k
    BY <1>1
  <2>2. \A k \in 1 .. n - 1 : At(Wrap(Oldest), k - 1) = At(Oldest, k)
    BY <1>1, <2>1, AtWalks
  <2>3. \A k : At(Oldest, k)' = At(Wrap(Oldest), k)
    BY <1>3 DEF At
  <2>4. Queue' = [k \in 1 .. n - 1 |-> memory[storage][At(Wrap(Oldest), k - 1)]]
    BY <1>1, <1>2, <1>3, <2>3 DEF Queue
  <2>5. QED
    BY <2>2, <2>4
<1>7. /\ Tail(Queue) \in Seq(Pointers) /\ Len(Tail(Queue)) = n - 1
      /\ \A k \in 1 .. n - 1 : Tail(Queue)[k] = Queue[k + 1]
  BY <1>4, <1>5, HeadTailProperties
<1>8. \A k \in 1 .. n - 1 : k + 1 \in 1 .. n /\ (k + 1) - 1 = k
  BY <1>1
<1>9. \A k \in 1 .. n - 1 : Queue'[k] = Tail(Queue)[k]
  BY <1>4, <1>6, <1>7, <1>8
<1>10. Queue' \in Seq(Pointers) /\ Len(Queue') = n - 1
  <2>1. \A k \in 1 .. n - 1 : memory[storage][At(Oldest, k)] \in Pointers
    BY <1>4, <1>8, ElementOfSeq
  <2>2. Queue' \in [1 .. n - 1 -> Pointers] /\ n - 1 \in Nat
    BY <1>1, <1>6, <2>1
  <2>3. QED
    BY <2>2
<1>11. Queue' = Tail(Queue)
  BY <1>7, <1>9, <1>10, SeqEqual
<1>12. QED
  BY <1>1, <1>2, <1>5, <1>11

-----------------------------------------------------------------------------
(* What the clients of the fifo rely on, other than its refinement.        *)

(* A step in _write that is not the return, and what it does to the queue. *)
LEMMA WriteOutcome ==
  ASSUME RingInv, WriteStep, wpc # "return"
  PROVE  /\ phase = "open" /\ UNCHANGED << phase, size, storage, live, warg, rpc, pointer >>
         /\ \/ /\ wpc' \in { "store", "advance", "increment" }
               /\ wpc' = "store" <=> wpc = "enter"
               /\ UNCHANGED << n, Queue >>
            \/ /\ wpc' = "return" /\ wres' = NullPointer /\ warg = NULL
               /\ UNCHANGED << n, Queue >>
            \/ /\ wpc' = "return" /\ wres' = FifoFull /\ warg # NULL /\ n = size
               /\ UNCHANGED << n, Queue >>
            \/ /\ wpc' = "return" /\ wres' = Stored /\ n \in 0 .. size - 1
               /\ n' = n + 1 /\ Queue' = Append(Queue, warg)
               /\ wpc \in { "store", "advance", "increment" }
<1> USE DEF fifoVars, heapVars, consumerVars
<1>1. phase = "open"
  BY DEF WriteStep, WriteNull, WriteFull, WriteHasRoom, WriteStore, WriteAdvance,
     WriteIncrement, WriteReturn, RingInv, ClosedIsQuiet
<1>2. CASE WriteNull \/ WriteFull \/ WriteHasRoom
  <2>1. Queue' = Queue
    BY <1>1, <1>2, QueueUnchanged DEF WriteNull, WriteFull, WriteHasRoom, Oldest, Back
  <2>2. Count = n
    BY <1>1, OpenRing, CounterIsExact DEF Count
  <2>3. QED
    BY <1>1, <1>2, <2>1, <2>2 DEF WriteNull, WriteFull, WriteHasRoom
<1>3. CASE WriteStore
  BY <1>1, <1>3, StoreKeepsQueue DEF WriteStore
<1>4. CASE WriteAdvance
  BY <1>1, <1>4, QueueUnchanged DEF WriteAdvance, Oldest, Back
<1>5. CASE WriteIncrement
  BY <1>1, <1>5, IncrementAppends DEF WriteIncrement
<1>6. QED
  BY <1>2, <1>3, <1>4, <1>5 DEF WriteStep, WriteReturn

(* The same for _read.                                                     *)
LEMMA ReadOutcome ==
  ASSUME RingInv, ReadStep, rpc # "return"
  PROVE  /\ phase = "open" /\ UNCHANGED << phase, size, storage, live, wpc, warg, wres >>
         /\ \/ /\ rpc' \in { "load", "advance", "decrement" }
               /\ rpc' = "load" <=> rpc = "enter"
               /\ UNCHANGED << n, Queue >>
            \/ /\ rpc' = "return" /\ pointer' = NULL /\ n = 0
               /\ UNCHANGED << n, Queue >>
            \/ /\ rpc' = "return" /\ pointer' = Head(Queue) /\ n \in 1 .. size
               /\ n' = n - 1 /\ Queue' = Tail(Queue)
               /\ rpc \in { "load", "advance", "decrement" }
<1> USE DEF fifoVars, heapVars, producerVars
<1>1. phase = "open"
  BY DEF ReadStep, ReadEmpty, ReadHasPointer, ReadLoad, ReadAdvance,
     ReadDecrement, ReadReturn, RingInv, ClosedIsQuiet
<1>2. CASE ReadEmpty \/ ReadHasPointer \/ ReadLoad
  <2>1. Queue' = Queue
    BY <1>1, <1>2, QueueUnchanged DEF ReadEmpty, ReadHasPointer, ReadLoad, Oldest, Back
  <2>2. Count = n
    BY <1>1, OpenRing, CounterIsExact DEF Count
  <2>3. QED
    BY <1>1, <1>2, <2>1, <2>2 DEF ReadEmpty, ReadHasPointer, ReadLoad
<1>3. CASE ReadAdvance
  <2>1. size > 0
    BY <1>1, <1>3, OpenRing DEF ReadAdvance, RingInv, ChecksStayTrue
  <2>2. Oldest' = Oldest
    BY <1>1, <1>3, <2>1, OpenRing, WrapIsNext DEF ReadAdvance, Oldest, Back
  <2>3. QED
    BY <1>1, <1>3, <2>2, QueueUnchanged DEF ReadAdvance
<1>4. CASE ReadDecrement
  BY <1>1, <1>4, DecrementRemoves DEF ReadDecrement
<1>5. QED
  BY <1>2, <1>3, <1>4 DEF ReadStep, ReadReturn

(* Beginning or ending a call leaves the queue alone.                      *)
LEMMA CallsKeepQueue ==
  ASSUME RingInv,
         (\E p : CallWrite(p)) \/ WriteReturn \/ CallRead \/ ReadReturn
  PROVE  UNCHANGED << n, size, phase, storage, live, observed, Queue >>
<1>1. UNCHANGED << n, size, storage, memory, live, phase, observed, Oldest >>
  BY DEF CallWrite, WriteReturn, CallRead, ReadReturn, Oldest, Back, fifoVars, heapVars,
     producerVars, consumerVars
<1>2. QED
  BY <1>1, QueueUnchanged

(* What get_count returns is exact when it is taken.                       *)
LEMMA CountOutcome ==
  ASSUME RingInv, NEW o \in Observers, GetCount(o)
  PROVE  /\ phase = "open" /\ observed'[o].count = n
         /\ UNCHANGED << n, size, phase, Queue, wpc, warg, wres, rpc, pointer >>
<1>1. /\ phase = "open"
      /\ UNCHANGED << n, size, storage, memory, phase, Oldest, wpc, warg, wres, rpc, pointer >>
  BY DEF GetCount, Oldest, Back, fifoVars, heapVars, producerVars, consumerVars
<1>2. Count = n
  BY <1>1, OpenRing, CounterIsExact DEF Count
<1>3. observed'[o].count = n
  BY <1>2 DEF GetCount, RingInv, TypeOK
<1>4. QED
  BY <1>1, <1>3, QueueUnchanged

-----------------------------------------------------------------------------
(* The dynamic fifo implements the bounded fifo.                           *)

(* Every step of the dynamic fifo is a step of the bounded fifo or leaves  *)
(* all that can be seen of it alone.                                       *)
LEMMA RefinementStep ==
  ASSUME RingInv, RingInv', [Next]_vars
  PROVE  [BF!Next]_(BF!vars)
<1> USE PhaseIs DEF fifoVars, heapVars, producerVars, consumerVars, Stored, FifoFull,
        NullPointer, BF!Stored, BF!FifoFull, BF!NullPointer
<1> DEFINE rres     == IF rpc = "return" THEN pointer ELSE NULL
           capacity == IF phase = "open" THEN size ELSE 0
           open     == phase = "open"
<1>1. ASSUME NEW s \in Sizes, InitFifo(s)
      PROVE  BF!Next
  <2>1. Queue' = << >>
    BY <1>1 DEF InitFifo, Queue
  <2>2. BF!Open(s)
    BY <1>1, <2>1 DEF InitFifo, CanInit, Idle, BF!Open
  <2>3. QED
    BY <2>2 DEF BF!Next
<1>2. ASSUME NEW s \in Sizes, AllocationFails(s) \/ AssertionFails(s)
      PROVE  UNCHANGED BF!vars
  <2>1. Queue = << >> /\ Queue' = << >>
    BY <1>2 DEF AllocationFails, AssertionFails, CanInit, Queue
  <2>2. QED
    BY <1>2, <2>1 DEF AllocationFails, AssertionFails, CanInit, BF!vars
<1>3. CASE DoneFifo
  <2>1. Queue' = << >>
    BY <1>3 DEF DoneFifo, Done, Queue
  <2>2. BF!Close
    BY <1>3, <2>1 DEF DoneFifo, Done, Idle, BF!Close
  <2>3. QED
    BY <2>2 DEF BF!Next
<1>4. CASE Aborted \/ UNCHANGED vars
  <2>1. UNCHANGED vars
    BY <1>4 DEF Aborted
  <2>2. Queue' = Queue
    BY <2>1, QueueUnchanged DEF vars, Oldest, Back
  <2>3. QED
    BY <2>1, <2>2 DEF vars, BF!vars
<1>5. ASSUME NEW p \in Pointers \cup {NULL}, CallWrite(p)
      PROVE  BF!Next
  <2>1. Queue' = Queue
    BY <1>5, QueueUnchanged DEF CallWrite, Oldest, Back
  <2>2. BF!CallWrite(p)
    BY <1>5, <2>1 DEF CallWrite, BF!CallWrite
  <2>3. QED
    BY <2>2 DEF BF!Next
<1>6. ASSUME NEW p \in Pointers \cup {NULL}, WriteNoFifo(p)
      PROVE  BF!Next
  <2>1. Queue' = Queue
    BY <1>6, QueueUnchanged DEF WriteNoFifo, Oldest, Back
  <2>2. BF!WriteNowhere(p)
    BY <1>6, <2>1 DEF WriteNoFifo, BF!WriteNowhere
  <2>3. QED
    BY <2>2 DEF BF!Next
<1>7. CASE WriteNull
  <2>1. Queue' = Queue
    BY <1>7, QueueUnchanged DEF WriteNull, Oldest, Back
  <2>2. BF!RejectNull
    BY <1>7, <2>1 DEF WriteNull, BF!RejectNull
  <2>3. QED
    BY <2>2 DEF BF!Next
<1>8. CASE WriteFull
  <2>1. Queue' = Queue
    BY <1>8, QueueUnchanged DEF WriteFull, Oldest, Back
  <2>2. phase = "open"
    BY <1>8 DEF WriteFull, RingInv, ClosedIsQuiet
  <2>3. Count = n
    BY <2>2, OpenRing, CounterIsExact DEF Count
  <2>4. Len(Queue) = size
    BY <1>8, <2>2, <2>3, QueueIsSeq DEF WriteFull
  <2>5. BF!ReportFull
    BY <1>8, <2>1, <2>2, <2>4 DEF WriteFull, BF!ReportFull
  <2>6. QED
    BY <2>5 DEF BF!Next
<1>9. CASE WriteHasRoom \/ WriteStore \/ WriteAdvance
  <2>1. Queue' = Queue
    <3>1. CASE WriteHasRoom
      BY <3>1, QueueUnchanged DEF WriteHasRoom, Oldest, Back
    <3>2. CASE WriteStore
      BY <3>2, StoreKeepsQueue
    <3>3. CASE WriteAdvance
      BY <3>3, QueueUnchanged DEF WriteAdvance, Oldest, Back
    <3>4. QED
      BY <1>9, <3>1, <3>2, <3>3
  <2>2. QED
    BY <1>9, <2>1 DEF WriteHasRoom, WriteStore, WriteAdvance, BF!vars
<1>10. CASE WriteIncrement
  <2>1. /\ phase = "open" /\ warg \in Pointers /\ Len(Queue) < size
        /\ Queue' = Append(Queue, warg)
    BY <1>10, IncrementAppends
  <2>2. BF!Enqueue
    BY <1>10, <2>1, PointerAssumption DEF WriteIncrement, BF!Enqueue
  <2>3. QED
    BY <2>2 DEF BF!Next
<1>11. CASE WriteReturn
  <2>1. Queue' = Queue
    BY <1>11, QueueUnchanged DEF WriteReturn, Oldest, Back
  <2>2. BF!ReturnWrite
    BY <1>11, <2>1 DEF WriteReturn, BF!ReturnWrite
  <2>3. QED
    BY <2>2 DEF BF!Next
<1>12. CASE CallRead
  <2>1. Queue' = Queue
    BY <1>12, QueueUnchanged DEF CallRead, Oldest, Back
  <2>2. BF!CallRead
    BY <1>12, <2>1 DEF CallRead, BF!CallRead
  <2>3. QED
    BY <2>2 DEF BF!Next
<1>13. CASE ReadNoFifo
  <2>1. Queue' = Queue
    BY <1>13, QueueUnchanged DEF ReadNoFifo, Oldest, Back
  <2>2. BF!ReadNowhere
    BY <1>13, <2>1 DEF ReadNoFifo, BF!ReadNowhere
  <2>3. QED
    BY <2>2 DEF BF!Next
<1>14. CASE ReadEmpty
  <2>1. Queue' = Queue
    BY <1>14, QueueUnchanged DEF ReadEmpty, Oldest, Back
  <2>2. phase = "open"
    BY <1>14 DEF ReadEmpty, RingInv, ClosedIsQuiet
  <2>3. Count = n
    BY <2>2, OpenRing, CounterIsExact DEF Count
  <2>4. Queue = << >>
    BY <1>14, <2>2, <2>3, QueueIsSeq DEF ReadEmpty
  <2>5. BF!ReportEmpty
    BY <1>14, <2>1, <2>4 DEF ReadEmpty, BF!ReportEmpty
  <2>6. QED
    BY <2>5 DEF BF!Next
<1>15. CASE ReadHasPointer \/ ReadLoad \/ ReadAdvance
  <2>1. Queue' = Queue
    <3>1. CASE ReadHasPointer
      BY <3>1, QueueUnchanged DEF ReadHasPointer, Oldest
    <3>2. CASE ReadLoad
      BY <3>2, QueueUnchanged DEF ReadLoad, Oldest
    <3>3. CASE ReadAdvance
      <4>1. phase = "open" /\ n > 0
        BY <3>3 DEF ReadAdvance, RingInv, ClosedIsQuiet, ChecksStayTrue
      <4>2. size \in 1 .. UIntMod - 1 /\ read \in 0 .. size - 1
        BY <4>1, OpenRing
      <4>3. Back(Wrap(read)) = read
        BY <4>2, WrapIsNext
      <4>4. Oldest' = Oldest
        BY <3>3, <4>3 DEF ReadAdvance, Oldest, Back
      <4>5. QED
        BY <3>3, <4>4, QueueUnchanged DEF ReadAdvance
    <3>4. QED
      BY <1>15, <3>1, <3>2, <3>3
  <2>2. QED
    BY <1>15, <2>1 DEF ReadHasPointer, ReadLoad, ReadAdvance, BF!vars
<1>16. CASE ReadDecrement
  <2>1. /\ phase = "open" /\ Queue # << >> /\ Head(Queue) = pointer
        /\ Queue' = Tail(Queue)
    BY <1>16, DecrementRemoves
  <2>2. BF!Dequeue
    BY <1>16, <2>1 DEF ReadDecrement, BF!Dequeue
  <2>3. QED
    BY <2>2 DEF BF!Next
<1>17. CASE ReadReturn
  <2>1. Queue' = Queue
    BY <1>17, QueueUnchanged DEF ReadReturn, Oldest, Back
  <2>2. BF!ReturnRead
    BY <1>17, <2>1 DEF ReadReturn, BF!ReturnRead
  <2>3. QED
    BY <2>2 DEF BF!Next
<1>18. ASSUME NEW o \in Observers, GetCount(o) \/ GetCountNoFifo(o)
       PROVE  BF!Next
  <2>1. Queue' = Queue
    BY <1>18, QueueUnchanged DEF GetCount, GetCountNoFifo, Oldest, Back
  <2>2. CASE GetCount(o)
    <3>1. phase = "open" /\ Count = Len(Queue)
      BY <2>2, OpenRing, CounterIsExact, QueueIsSeq DEF GetCount, Count
    <3>2. BF!Count(o)
      BY <2>1, <2>2, <3>1 DEF GetCount, BF!Count
    <3>3. QED
      BY <3>2 DEF BF!Next
  <2>3. CASE GetCountNoFifo(o)
    <3>1. BF!CountNowhere(o)
      BY <2>1, <2>3 DEF GetCountNoFifo, BF!CountNowhere
    <3>2. QED
      BY <3>1 DEF BF!Next
  <2>4. QED
    BY <1>18, <2>2, <2>3
<1>19. QED
  BY <1>1, <1>2, <1>3, <1>4, <1>5, <1>6, <1>7, <1>8, <1>9, <1>10, <1>11, <1>12,
     <1>13, <1>14, <1>15, <1>16, <1>17, <1>18 DEF Next, WriteStep, ReadStep

(* Linearizability of the dynamic fifo: whatever its sizes, over any       *)
(* sequence of init and done, every operation appears to happen at one     *)
(* instant on a bounded queue of the present size.                         *)
THEOREM Refinement == Spec => Implements
<1>1. Init => BF!Init
  BY PhaseIs DEF Init, BF!Init, Queue, Stored, BF!Stored
<1>2. RingInv /\ RingInv' /\ [Next]_vars => [BF!Next]_(BF!vars)
  BY RefinementStep
<1>3. QED
  BY <1>1, <1>2, RingCorrect, PTL DEF Spec, BF!Spec, Implements

==============================================================================
