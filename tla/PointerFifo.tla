----------------------------- MODULE PointerFifo -----------------------------
(***************************************************************************)
(* struct mulle_pointerfifo: the fifo whose size is given at init time and *)
(* whose ring lives in memory of the allocator.  Next to the data path it  *)
(* shares with the fixed fifos, it can be ended twice, it can be initial-  *)
(* ized again with another size, its init can end the program, and its     *)
(* functions without underscore may be called without a fifo.              *)
(*                                                                         *)
(* A step is one access to memory, as in FixedPointerFifo.  init and done  *)
(* run while no other thread uses the fifo and are one step each.          *)
(***************************************************************************)
EXTENDS Integers

CONSTANTS
  Sizes,         \* arguments of init
  UIntMod,       \* 2^w for the w bits of an unsigned int
  SizeTMod,      \* 2^w for the w bits of a size_t
  UIntPtrMod,    \* 2^w for the w bits of a uintptr_t
  PointerBytes,  \* sizeof( mulle_atomic_pointer_t)
  AssertsOn,     \* FALSE in a build with NDEBUG
  Blocks,        \* addresses the allocator may return
  Pointers,      \* the pointers that clients store
  NULL,          \* the null pointer
  Garbage,       \* what memory holds that was never written
  Observers      \* further threads, that only call get_count

ASSUME WidthAssumption ==
  /\ UIntMod \in Nat /\ SizeTMod \in Nat /\ UIntPtrMod \in Nat
  /\ 1 < UIntMod /\ UIntMod <= SizeTMod /\ UIntMod <= UIntPtrMod
  /\ PointerBytes \in Nat \ {0}

(* Without assertions nothing checks that a size can be expressed in       *)
(* bytes: it is up to the caller.                                          *)
ASSUME SizesAssumption ==
  /\ AssertsOn \in BOOLEAN
  /\ Sizes \subseteq 0 .. UIntMod - 1
  /\ AssertsOn \/ \A size \in Sizes : size <= (SizeTMod - 1) \div PointerBytes

ASSUME PointerAssumption ==
  /\ NULL \notin Pointers \cup Blocks
  /\ Garbage \notin Pointers \cup Blocks

VARIABLES
  n,         \* p->n
  write,     \* p->write, only accessed by the producer
  read,      \* p->read, only accessed by the consumer
  size,      \* p->size, read only after init
  storage,   \* p->storage: a block, NULL, or indeterminate before init
  memory,    \* the cells of each block, none at all when it is not allocated
  live,      \* the blocks that are allocated
  phase,     \* ghost: "raw", "open", "done" or "aborted"
  wpc,       \* where the producer is in _write
  warg,      \* the argument of its call
  wres,      \* the result of its call
  rpc,       \* where the consumer is in _read
  pointer,   \* the local variable of that name
  observed   \* the last get_count of each observer: was it given a fifo, its result

heapVars     == << memory, live >>
fifoVars     == << n, write, read, size, storage, phase >>
producerVars == << wpc, warg, wres >>
consumerVars == << rpc, pointer >>
vars         == << fifoVars, heapVars, producerVars, consumerVars, observed >>

\* Results of _write.
Stored      == 0
FifoFull    == -1
NullPointer == -2

NoCells == [i \in {} |-> Garbage]

Idle == wpc = "idle" /\ rpc = "idle"

(* _get_count: one atomic load, the uintptr_t truncated to unsigned int.   *)
Count == n % UIntMod

\* Faulty variant: the index never returns to slot 0.
Wrap_NeverWraps(i) == (i + 1) % UIntMod

(* (i + 1) % p->size in unsigned int arithmetic.                           *)
Wrap(i) == ((i + 1) % UIntMod) % size

(* The struct is static, and zero, or on the stack, and indeterminate.     *)
Init ==
  /\ \/ n = 0 /\ write = 0 /\ read = 0 /\ size = 0 /\ storage = NULL
     \/ /\ n \in 0 .. UIntPtrMod - 1 /\ write \in 0 .. UIntMod - 1
        /\ read \in 0 .. UIntMod - 1 /\ size \in 0 .. UIntMod - 1
        /\ storage = Garbage
  /\ memory = [b \in Blocks |-> NoCells]
  /\ live = {}
  /\ phase = "raw"
  /\ wpc = "idle" /\ warg = NULL /\ wres = Stored
  /\ rpc = "idle" /\ pointer = NULL
  /\ observed = [o \in Observers |-> [named |-> TRUE, count |-> 0]]

-----------------------------------------------------------------------------
(* Life cycle.  init before the threads start, done after they stopped,    *)
(* reuse only by a fresh init after done.                                  *)

\* Faulty variant: the second assertion is missing.
Asserted_OnlyMinimum(s) == AssertsOn => s >= 2

(* The assertions of _init hold, or are not compiled.                      *)
Asserted(s) ==
  AssertsOn => s >= 2 /\ s <= (SizeTMod - 1) \div PointerBytes

(* The cells that fit a block of size * sizeof( mulle_atomic_pointer_t)    *)
(* bytes, computed as a size_t.                                            *)
CellsOf(s) ==
  [i \in 0 .. (((s * PointerBytes) % SizeTMod) \div PointerBytes) - 1 |-> Garbage]

CanInit == phase \in { "raw", "done" } /\ Idle

\* Faulty variant: a fifo that is used again keeps its counter.
InitFifo_KeepsCount(s) ==
  /\ CanInit /\ Asserted(s)
  /\ write' = 0
  /\ read' = 0
  /\ size' = s
  /\ \E b \in Blocks \ live :
       /\ storage' = b
       /\ live' = live \cup {b}
       /\ memory' = [memory EXCEPT ![b] = CellsOf(s)]
  /\ phase' = "open"
  /\ UNCHANGED << n, producerVars, consumerVars, observed >>

(* mulle_allocator_malloc returns some block that is not in use.           *)
InitFifo(s) ==
  /\ CanInit /\ Asserted(s)
  /\ write' = 0
  /\ read' = 0
  /\ size' = s
  /\ n' = 0
  /\ \E b \in Blocks \ live :
       /\ storage' = b
       /\ live' = live \cup {b}
       /\ memory' = [memory EXCEPT ![b] = CellsOf(s)]
  /\ phase' = "open"
  /\ UNCHANGED << producerVars, consumerVars, observed >>

(* mulle_allocator_malloc finds no memory and calls the fail function of   *)
(* the allocator, that does not return.                                    *)
AllocationFails(s) ==
  /\ CanInit /\ Asserted(s)
  /\ write' = 0 /\ read' = 0 /\ size' = s /\ n' = 0
  /\ phase' = "aborted"
  /\ UNCHANGED << storage, heapVars, producerVars, consumerVars, observed >>

AssertionFails(s) ==
  /\ CanInit /\ ~ Asserted(s)
  /\ phase' = "aborted"
  /\ UNCHANGED << n, write, read, size, storage, heapVars,
                  producerVars, consumerVars, observed >>

\* Faulty variants: the block is not freed; p->storage keeps its address.
Release_Leaks ==
  /\ storage' = NULL
  /\ UNCHANGED heapVars

Release_KeepsStorage ==
  /\ live' = live \ {storage}
  /\ memory' = [memory EXCEPT ![storage] = NoCells]
  /\ UNCHANGED storage

(* What _done does if( p->storage), and what it does at all.               *)
Release ==
  /\ live' = live \ {storage}
  /\ memory' = [memory EXCEPT ![storage] = NoCells]
  /\ storage' = NULL

Done ==
  /\ IF storage = NULL THEN UNCHANGED << storage, heapVars >> ELSE Release
  /\ phase' = "done"
  /\ UNCHANGED << n, write, read, size, producerVars, consumerVars, observed >>

(* done may be called any number of times, on a static fifo even before    *)
(* the first init.                                                         *)
DoneFifo ==
  /\ phase \in { "raw", "open", "done" } /\ storage # Garbage
  /\ Idle
  /\ Done

(* The program has ended.                                                  *)
Aborted == phase = "aborted" /\ UNCHANGED vars

-----------------------------------------------------------------------------
(* The producer thread, in _write.                                         *)

CallWrite(p) ==
  /\ phase = "open" /\ wpc = "idle"
  /\ wpc' = "enter" /\ warg' = p
  /\ UNCHANGED << fifoVars, heapVars, wres, consumerVars, observed >>

(* mulle_pointerfifo_write without a fifo: the same -1 as from a full one. *)
WriteNoFifo(p) ==
  /\ phase # "aborted" /\ wpc = "idle"
  /\ wpc' = "return" /\ warg' = p /\ wres' = FifoFull
  /\ UNCHANGED << fifoVars, heapVars, consumerVars, observed >>

WriteNull ==
  /\ wpc = "enter" /\ warg = NULL
  /\ wpc' = "return" /\ wres' = NullPointer
  /\ UNCHANGED << fifoVars, heapVars, warg, consumerVars, observed >>

\* Faulty variants: full one pointer too early; wait for room.
WriteFull_TooEarly ==
  /\ wpc = "enter" /\ warg # NULL
  /\ Count + 1 >= size
  /\ wpc' = "return" /\ wres' = FifoFull
  /\ UNCHANGED << fifoVars, heapVars, warg, consumerVars, observed >>

WriteFull_Waits ==
  /\ wpc = "enter" /\ warg # NULL
  /\ Count = size
  /\ UNCHANGED vars

WriteFull ==
  /\ wpc = "enter" /\ warg # NULL
  /\ Count = size
  /\ wpc' = "return" /\ wres' = FifoFull
  /\ UNCHANGED << fifoVars, heapVars, warg, consumerVars, observed >>

\* Faulty variant: one pointer too many fits.
WriteHasRoom_OneTooMany ==
  /\ wpc = "enter" /\ warg # NULL
  /\ Count # size + 1
  /\ wpc' = "store"
  /\ UNCHANGED << fifoVars, heapVars, warg, wres, consumerVars, observed >>

WriteHasRoom ==
  /\ wpc = "enter" /\ warg # NULL
  /\ Count # size
  /\ wpc' = "store"
  /\ UNCHANGED << fifoVars, heapVars, warg, wres, consumerVars, observed >>

WriteStore ==
  /\ wpc = "store"
  /\ memory' = [memory EXCEPT ![storage][write] = warg]
  /\ wpc' = "advance"
  /\ UNCHANGED << fifoVars, live, warg, wres, consumerVars, observed >>

WriteAdvance ==
  /\ wpc = "advance"
  /\ write' = Wrap(write)
  /\ wpc' = "increment"
  /\ UNCHANGED << n, read, size, storage, phase, heapVars, warg, wres,
                  consumerVars, observed >>

WriteIncrement ==
  /\ wpc = "increment"
  /\ n' = (n + 1) % UIntPtrMod
  /\ wpc' = "return" /\ wres' = Stored
  /\ UNCHANGED << write, read, size, storage, phase, heapVars, warg,
                  consumerVars, observed >>

WriteReturn ==
  /\ wpc = "return"
  /\ wpc' = "idle" /\ warg' = NULL /\ wres' = Stored
  /\ UNCHANGED << fifoVars, heapVars, consumerVars, observed >>

-----------------------------------------------------------------------------
(* The consumer thread, in _read.                                          *)

CallRead ==
  /\ phase = "open" /\ rpc = "idle"
  /\ rpc' = "enter"
  /\ UNCHANGED << fifoVars, heapVars, producerVars, pointer, observed >>

(* mulle_pointerfifo_read without a fifo: the same NULL as from an empty   *)
(* one.                                                                    *)
ReadNoFifo ==
  /\ phase # "aborted" /\ rpc = "idle"
  /\ rpc' = "return" /\ pointer' = NULL
  /\ UNCHANGED << fifoVars, heapVars, producerVars, observed >>

\* Faulty variant: wait for a pointer.
ReadEmpty_Waits ==
  /\ rpc = "enter"
  /\ Count = 0
  /\ UNCHANGED vars

ReadEmpty ==
  /\ rpc = "enter"
  /\ Count = 0
  /\ rpc' = "return" /\ pointer' = NULL
  /\ UNCHANGED << fifoVars, heapVars, producerVars, observed >>

ReadHasPointer ==
  /\ rpc = "enter"
  /\ Count # 0
  /\ rpc' = "load"
  /\ UNCHANGED << fifoVars, heapVars, producerVars, pointer, observed >>

ReadLoad ==
  /\ rpc = "load"
  /\ pointer' = memory[storage][read]
  /\ rpc' = "advance"
  /\ UNCHANGED << fifoVars, heapVars, producerVars, observed >>

ReadAdvance ==
  /\ rpc = "advance"
  /\ read' = Wrap(read)
  /\ rpc' = "decrement"
  /\ UNCHANGED << n, write, size, storage, phase, heapVars, producerVars,
                  pointer, observed >>

ReadDecrement ==
  /\ rpc = "decrement"
  /\ n' = (n - 1) % UIntPtrMod
  /\ rpc' = "return"
  /\ UNCHANGED << write, read, size, storage, phase, heapVars, producerVars,
                  pointer, observed >>

ReadReturn ==
  /\ rpc = "return"
  /\ rpc' = "idle" /\ pointer' = NULL
  /\ UNCHANGED << fifoVars, heapVars, producerVars, observed >>

-----------------------------------------------------------------------------
(* get_count, from any thread; without a fifo it is 0.                     *)

\* Faulty variant: the count is reduced like an index.
GetCount_Reduced(o) ==
  /\ phase = "open"
  /\ observed' = [observed EXCEPT ![o] = [named |-> TRUE, count |-> Count % size]]
  /\ UNCHANGED << fifoVars, heapVars, producerVars, consumerVars >>

GetCount(o) ==
  /\ phase = "open"
  /\ observed' = [observed EXCEPT ![o] = [named |-> TRUE, count |-> Count]]
  /\ UNCHANGED << fifoVars, heapVars, producerVars, consumerVars >>

GetCountNoFifo(o) ==
  /\ phase # "aborted"
  /\ observed' = [observed EXCEPT ![o] = [named |-> FALSE, count |-> 0]]
  /\ UNCHANGED << fifoVars, heapVars, producerVars, consumerVars >>

-----------------------------------------------------------------------------
(* A call once made.                                                       *)
WriteStep ==
  \/ WriteNull \/ WriteFull \/ WriteHasRoom
  \/ WriteStore \/ WriteAdvance \/ WriteIncrement \/ WriteReturn

ReadStep ==
  \/ ReadEmpty \/ ReadHasPointer
  \/ ReadLoad \/ ReadAdvance \/ ReadDecrement \/ ReadReturn

Next ==
  \/ \E s \in Sizes : InitFifo(s) \/ AllocationFails(s) \/ AssertionFails(s)
  \/ DoneFifo
  \/ Aborted
  \/ \E p \in Pointers \cup {NULL} : CallWrite(p) \/ WriteNoFifo(p)
  \/ WriteStep
  \/ CallRead \/ ReadNoFifo
  \/ ReadStep
  \/ \E o \in Observers : GetCount(o) \/ GetCountNoFifo(o)

Spec == Init /\ [][Next]_vars

-----------------------------------------------------------------------------
(* The stored pointers, in terms of the ring.  Until the consumer has      *)
(* decremented n, the slot it is reading from still counts as occupied     *)
(* although read may have moved on.                                        *)

\* The slot before i, and the slot k places after i, around the ring.
Back(i)  == IF i = 0 THEN size - 1 ELSE i - 1
At(i, k) == IF i + k < size THEN i + k ELSE i + k - size

Oldest    == IF rpc = "decrement" THEN Back(read) ELSE read
LiveSlots == { At(Oldest, k) : k \in 0 .. n - 1 }
Queue     ==
  IF phase = "open"
  THEN [k \in 1 .. n |-> memory[storage][At(Oldest, k - 1)]]
  ELSE << >>

-----------------------------------------------------------------------------
(* Properties.                                                             *)

(* Types; in an initialized fifo the counter and the indices are within    *)
(* the ring, that may have no slot at all in a build with NDEBUG.          *)
TypeOK ==
  /\ n \in 0 .. UIntPtrMod - 1
  /\ write \in 0 .. UIntMod - 1
  /\ read \in 0 .. UIntMod - 1
  /\ size \in 0 .. UIntMod - 1
  /\ storage \in Blocks \cup {NULL, Garbage}
  /\ live \in SUBSET Blocks
  /\ DOMAIN memory = Blocks
  /\ \A b \in Blocks : \A i \in DOMAIN memory[b] :
        memory[b][i] \in Pointers \cup {NULL, Garbage}
  /\ phase \in { "raw", "open", "done", "aborted" }
  /\ wpc \in { "idle", "enter", "store", "advance", "increment", "return" }
  /\ warg \in Pointers \cup {NULL}
  /\ wres \in { Stored, FifoFull, NullPointer }
  /\ rpc \in { "idle", "enter", "load", "advance", "decrement", "return" }
  /\ pointer \in Pointers \cup {NULL, Garbage}
  /\ observed \in [Observers -> [named : BOOLEAN, count : 0 .. UIntMod - 1]]
  /\ phase = "open" =>
       /\ n \in 0 .. size
       /\ write = 0 \/ write < size
       /\ read = 0 \/ read < size

(* Over any number of init and done calls, done twice in a row included,   *)
(* the fifo owns the one block its storage points to, exactly while it is  *)
(* open: no block leaks, none is freed twice or used after it was freed.   *)
OwnsOneBlock ==
  /\ live = {storage} \cap Blocks
  /\ (phase = "open") = (storage \in Blocks)

(* Every store and every load through p->storage hits a cell of the block  *)
(* that init allocated, whatever the size was before and even if the size  *)
(* is degenerate, and % p->size never divides by 0.                        *)
AccessesInBounds ==
  /\ wpc = "store"   => storage \in live /\ write \in DOMAIN memory[storage]
  /\ rpc = "load"    => storage \in live /\ read \in DOMAIN memory[storage]
  /\ wpc = "advance" \/ rpc = "advance" => size # 0

(* The slot _write is about to fill holds no pointer that is still to be   *)
(* read, not even the one the consumer is loading right now.               *)
StoresIntoFreeSlot == wpc = "store" => write \notin LiveSlots

(* From the load in _read until the slot is given back by the decrement,   *)
(* the slot keeps the pointer that _read returns, and that is a pointer    *)
(* written since the last init.                                            *)
TakenPointerIntact ==
  rpc \in { "advance", "decrement" } =>
     pointer \in Pointers /\ memory[storage][Oldest] = pointer

(* The inductive invariant.  Its part of the ring is that of the fixed     *)
(* fifos; the block has one cell for each slot of the present size.        *)
BlockFitsSize == phase = "open" => DOMAIN memory[storage] = 0 .. size - 1

ClosedIsQuiet ==
  phase # "open" => wpc \in { "idle", "return" } /\ rpc \in { "idle", "return" }

NullStopped == wpc \in { "store", "advance", "increment" } => warg \in Pointers

ChecksStayTrue ==
  /\ wpc \in { "store", "advance", "increment" } => n < size
  /\ rpc \in { "load", "advance", "decrement" } => n > 0

IndicesMatchCount ==
  phase = "open" => write = At(Oldest, IF wpc = "increment" THEN n + 1 ELSE n)

SlotsHoldPointers ==
  /\ phase = "open" => \A k \in 0 .. n - 1 : memory[storage][At(Oldest, k)] \in Pointers
  /\ wpc \in { "advance", "increment" } => memory[storage][At(Oldest, n)] = warg

RingInv ==
  /\ TypeOK
  /\ OwnsOneBlock
  /\ BlockFitsSize
  /\ ClosedIsQuiet
  /\ NullStopped
  /\ ChecksStayTrue
  /\ IndicesMatchCount
  /\ SlotsHoldPointers
  /\ TakenPointerIntact

(* The dynamic fifo implements the same bounded fifo as the fixed ones,    *)
(* with the capacity of its last init.  A program that ends in init is a   *)
(* fifo that is never opened.                                              *)
Phase(pc) ==
  CASE pc = "idle"   -> "idle"
    [] pc = "return" -> "returning"
    [] OTHER         -> "called"

BF == INSTANCE BoundedFifo WITH
        Capacities <- Sizes,
        open       <- phase = "open",
        capacity   <- IF phase = "open" THEN size ELSE 0,
        queue      <- Queue,
        wphase     <- Phase(wpc),
        rphase     <- Phase(rpc),
        rres       <- IF rpc = "return" THEN pointer ELSE NULL

Implements == BF!Spec

(* _write and _read never block, in whatever fifo init has left: a call    *)
(* returns if its own thread is scheduled, although the other one may have *)
(* stopped for good, be it in the middle of its own call.                  *)
WriteReturns == WF_vars(WriteStep) => ((wpc # "idle") ~> (wpc = "idle"))
ReadReturns  == WF_vars(ReadStep) => ((rpc # "idle") ~> (rpc = "idle"))

=============================================================================
