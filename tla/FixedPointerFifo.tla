-------------------------- MODULE FixedPointerFifo --------------------------
(***************************************************************************)
(* struct mulle__pointerfifo64 and its generated siblings of 4 .. 8192     *)
(* slots: a ring of atomic pointers, a write index private to the one      *)
(* producer thread, a read index private to the one consumer thread, and   *)
(* an atomic counter n that both of them update.  The literal 64, that     *)
(* bin/create-fifo-sources replaces in the siblings, is the constant Size. *)
(*                                                                         *)
(* A thread is interrupted between any two accesses to memory: every load, *)
(* store and read-modify-write of the C functions is an action of its own. *)
(* They are interleaved as the sequentially consistent atomics of          *)
(* mulle-thread allow.                                                     *)
(***************************************************************************)
EXTENDS Integers

CONSTANTS
  Size,        \* slots of the ring
  UIntMod,     \* 2^w for the w bits of an unsigned int
  UIntPtrMod,  \* 2^w for the w bits of a uintptr_t
  Pointers,    \* the pointers that clients store
  NULL,        \* the null pointer
  Garbage,     \* what a slot holds that was never written
  Observers    \* further threads, that only call get_count

ASSUME SizeAssumption == Size \in Nat \ {0}

ASSUME WidthAssumption ==
  /\ UIntMod \in Nat /\ UIntPtrMod \in Nat
  /\ Size < UIntMod /\ UIntMod <= UIntPtrMod

ASSUME PointerAssumption == NULL \notin Pointers /\ Garbage \notin Pointers

VARIABLES
  n,         \* p->n
  write,     \* p->write, only accessed by the producer
  read,      \* p->read, only accessed by the consumer
  storage,   \* p->storage
  wpc,       \* where the producer is in _write
  warg,      \* the argument of its call
  wres,      \* the result of its call
  rpc,       \* where the consumer is in _read
  pointer,   \* the local variable of that name
  observed,  \* the last result of get_count in each observer
  open       \* ghost: the clients may use the fifo (see InitFifo)

fifoVars     == << n, write, read, storage, open >>
producerVars == << wpc, warg, wres >>
consumerVars == << rpc, pointer >>
vars         == << fifoVars, producerVars, consumerVars, observed >>

Slots == 0 .. Size - 1

\* Results of _write.
Stored      == 0
FifoFull    == -1
NullPointer == -2

(* _get_count: one atomic load, the uintptr_t truncated to unsigned int.   *)
Count == n % UIntMod

(* Faulty variant: the index never returns to slot 0.                      *)
Wrap_NeverWraps(i) == (i + 1) % UIntMod

(* (i + 1) % Size in unsigned int arithmetic.                              *)
Wrap(i) == ((i + 1) % UIntMod) % Size

(* The memory of the struct before the first init is indeterminate.        *)
Init ==
  /\ n \in 0 .. UIntPtrMod - 1
  /\ write \in 0 .. UIntMod - 1
  /\ read \in 0 .. UIntMod - 1
  /\ storage = [i \in Slots |-> Garbage]
  /\ wpc = "idle" /\ warg = NULL /\ wres = Stored
  /\ rpc = "idle" /\ pointer = NULL
  /\ observed = [o \in Observers |-> 0]
  /\ open = FALSE

-----------------------------------------------------------------------------
(* Life cycle.  init has to complete before the threads start, and a fifo  *)
(* is used again only after they stopped and init ran again.               *)

(* Faulty variant: a fifo that is used again keeps its write index.        *)
InitFifo_KeepsWrite ==
  /\ wpc = "idle" /\ rpc = "idle"
  /\ read' = 0
  /\ n' = 0
  /\ open' = TRUE
  /\ UNCHANGED << write, storage, producerVars, consumerVars, observed >>

(* init clears the counter and both indices; the slots keep what they held.*)
InitFifo ==
  /\ wpc = "idle" /\ rpc = "idle"
  /\ write' = 0
  /\ read' = 0
  /\ n' = 0
  /\ open' = TRUE
  /\ UNCHANGED << storage, producerVars, consumerVars, observed >>

(* done leaves the struct alone: it only ends its use.                     *)
DoneFifo ==
  /\ open
  /\ wpc = "idle" /\ rpc = "idle"
  /\ open' = FALSE
  /\ UNCHANGED << n, write, read, storage, producerVars, consumerVars, observed >>

-----------------------------------------------------------------------------
(* The producer thread, in _write.                                         *)

CallWrite(p) ==
  /\ open /\ wpc = "idle"
  /\ wpc' = "enter" /\ warg' = p
  /\ UNCHANGED << fifoVars, wres, consumerVars, observed >>

WriteNull ==
  /\ wpc = "enter" /\ warg = NULL
  /\ wpc' = "return" /\ wres' = NullPointer
  /\ UNCHANGED << fifoVars, warg, consumerVars, observed >>

(* Faulty variants: full one pointer too early; wait for room.             *)
WriteFull_TooEarly ==
  /\ wpc = "enter" /\ warg # NULL
  /\ Count >= Size - 1
  /\ wpc' = "return" /\ wres' = FifoFull
  /\ UNCHANGED << fifoVars, warg, consumerVars, observed >>

WriteFull_Waits ==
  /\ wpc = "enter" /\ warg # NULL
  /\ Count = Size
  /\ UNCHANGED vars

WriteFull ==
  /\ wpc = "enter" /\ warg # NULL
  /\ Count = Size
  /\ wpc' = "return" /\ wres' = FifoFull
  /\ UNCHANGED << fifoVars, warg, consumerVars, observed >>

(* Faulty variants: the room is not checked; one pointer too many fits.    *)
WriteHasRoom_Unchecked ==
  /\ wpc = "enter" /\ warg # NULL
  /\ wpc' = "store"
  /\ UNCHANGED << fifoVars, warg, wres, consumerVars, observed >>

WriteHasRoom_OneTooMany ==
  /\ wpc = "enter" /\ warg # NULL
  /\ Count # Size + 1
  /\ wpc' = "store"
  /\ UNCHANGED << fifoVars, warg, wres, consumerVars, observed >>

WriteHasRoom ==
  /\ wpc = "enter" /\ warg # NULL
  /\ Count # Size
  /\ wpc' = "store"
  /\ UNCHANGED << fifoVars, warg, wres, consumerVars, observed >>

WriteStore ==
  /\ wpc = "store"
  /\ storage' = [storage EXCEPT ![write] = warg]
  /\ wpc' = "advance"
  /\ UNCHANGED << n, write, read, open, warg, wres, consumerVars, observed >>

WriteAdvance ==
  /\ wpc = "advance"
  /\ write' = Wrap(write)
  /\ wpc' = "increment"
  /\ UNCHANGED << n, read, storage, open, warg, wres, consumerVars, observed >>

WriteIncrement ==
  /\ wpc = "increment"
  /\ n' = (n + 1) % UIntPtrMod
  /\ wpc' = "return" /\ wres' = Stored
  /\ UNCHANGED << write, read, storage, open, warg, consumerVars, observed >>

WriteReturn ==
  /\ wpc = "return"
  /\ wpc' = "idle" /\ warg' = NULL /\ wres' = Stored
  /\ UNCHANGED << fifoVars, consumerVars, observed >>

-----------------------------------------------------------------------------
(* The consumer thread, in _read.                                          *)

CallRead ==
  /\ open /\ rpc = "idle"
  /\ rpc' = "enter"
  /\ UNCHANGED << fifoVars, producerVars, pointer, observed >>

(* Faulty variant: wait for a pointer.                                     *)
ReadEmpty_Waits ==
  /\ rpc = "enter"
  /\ Count = 0
  /\ UNCHANGED vars

ReadEmpty ==
  /\ rpc = "enter"
  /\ Count = 0
  /\ rpc' = "return" /\ pointer' = NULL
  /\ UNCHANGED << fifoVars, producerVars, observed >>

(* Faulty variant: a pointer is taken without asking whether there is one. *)
ReadHasPointer_Unchecked ==
  /\ rpc = "enter"
  /\ rpc' = "load"
  /\ UNCHANGED << fifoVars, producerVars, pointer, observed >>

ReadHasPointer ==
  /\ rpc = "enter"
  /\ Count # 0
  /\ rpc' = "load"
  /\ UNCHANGED << fifoVars, producerVars, pointer, observed >>

ReadLoad ==
  /\ rpc = "load"
  /\ pointer' = storage[read]
  /\ rpc' = "advance"
  /\ UNCHANGED << fifoVars, producerVars, observed >>

ReadAdvance ==
  /\ rpc = "advance"
  /\ read' = Wrap(read)
  /\ rpc' = "decrement"
  /\ UNCHANGED << n, write, storage, open, producerVars, pointer, observed >>

ReadDecrement ==
  /\ rpc = "decrement"
  /\ n' = (n - 1) % UIntPtrMod
  /\ rpc' = "return"
  /\ UNCHANGED << write, read, storage, open, producerVars, pointer, observed >>

ReadReturn ==
  /\ rpc = "return"
  /\ rpc' = "idle" /\ pointer' = NULL
  /\ UNCHANGED << fifoVars, producerVars, observed >>

-----------------------------------------------------------------------------
(* get_count, from any thread.                                             *)

(* Faulty variant: the count is the distance of the indices.               *)
GetCount_FromIndices(o) ==
  /\ open
  /\ observed' = [observed EXCEPT ![o] = (write + Size - read) % Size]
  /\ UNCHANGED << fifoVars, producerVars, consumerVars >>

GetCount(o) ==
  /\ open
  /\ observed' = [observed EXCEPT ![o] = Count]
  /\ UNCHANGED << fifoVars, producerVars, consumerVars >>

-----------------------------------------------------------------------------
(* A call once made.                                                       *)
WriteStep ==
  \/ WriteNull \/ WriteFull \/ WriteHasRoom
  \/ WriteStore \/ WriteAdvance \/ WriteIncrement \/ WriteReturn

ReadStep ==
  \/ ReadEmpty \/ ReadHasPointer
  \/ ReadLoad \/ ReadAdvance \/ ReadDecrement \/ ReadReturn

Next ==
  \/ InitFifo \/ DoneFifo
  \/ \E p \in Pointers \cup {NULL} : CallWrite(p)
  \/ WriteStep
  \/ CallRead
  \/ ReadStep
  \/ \E o \in Observers : GetCount(o)

Spec == Init /\ [][Next]_vars

-----------------------------------------------------------------------------
(* The stored pointers, in terms of the ring.  Until the consumer has      *)
(* decremented n, the slot it is reading from still counts as occupied     *)
(* although read may have moved on.                                        *)

\* The slot before i, and the slot k places after i, around the ring.
Back(i)  == IF i = 0 THEN Size - 1 ELSE i - 1
At(i, k) == IF i + k < Size THEN i + k ELSE i + k - Size

Oldest    == IF rpc = "decrement" THEN Back(read) ELSE read
LiveSlots == { At(Oldest, k) : k \in 0 .. n - 1 }
Queue     == IF open THEN [k \in 1 .. n |-> storage[At(Oldest, k - 1)]] ELSE << >>

-----------------------------------------------------------------------------
(* Properties.                                                             *)

(* Types; the counter and the indices, once init ran, within the ring.     *)
TypeOK ==
  /\ n \in 0 .. UIntPtrMod - 1
  /\ write \in 0 .. UIntMod - 1
  /\ read \in 0 .. UIntMod - 1
  /\ storage \in [Slots -> Pointers \cup {NULL, Garbage}]
  /\ wpc \in { "idle", "enter", "store", "advance", "increment", "return" }
  /\ warg \in Pointers \cup {NULL}
  /\ wres \in { Stored, FifoFull, NullPointer }
  /\ rpc \in { "idle", "enter", "load", "advance", "decrement", "return" }
  /\ pointer \in Pointers \cup {NULL, Garbage}
  /\ observed \in [Observers -> 0 .. UIntMod - 1]
  /\ open \in BOOLEAN
  /\ open => n \in 0 .. Size /\ write \in Slots /\ read \in Slots

(* _write compares n with the capacity once and stores two steps later;    *)
(* _read compares n with 0 once and loads later.  Whatever the other       *)
(* thread does in between, the answer it acted on is still right when the  *)
(* counter is updated, so n neither passes Size nor drops below 0.         *)
ChecksStayTrue ==
  /\ wpc \in { "store", "advance", "increment" } => n < Size
  /\ rpc \in { "load", "advance", "decrement" } => n > 0

(* Three fields that three different steps of two threads update agree:    *)
(* at any moment the write index is n slots ahead of the oldest pointer,   *)
(* counting the one whose write is between its index and its counter.      *)
IndicesMatchCount ==
  open => write = At(Oldest, IF wpc = "increment" THEN n + 1 ELSE n)

(* The slot _write is about to fill holds no pointer that is still to be   *)
(* read, not even the one the consumer is loading right now.               *)
StoresIntoFreeSlot == wpc = "store" => write \notin LiveSlots

(* From the load in _read until the slot is given back by the decrement,   *)
(* the slot keeps the pointer that _read returns, and that is a pointer    *)
(* somebody wrote: never NULL, which means "empty", and never the          *)
(* indeterminate content of a slot.                                        *)
TakenPointerIntact ==
  rpc \in { "advance", "decrement" } =>
     pointer \in Pointers /\ storage[Oldest] = pointer

(* The n slots from the oldest one on hold pointers that were written, and *)
(* the slot after them already holds the pointer of a write whose counter  *)
(* update is still to come.                                                *)
SlotsHoldPointers ==
  /\ open => \A k \in 0 .. n - 1 : storage[At(Oldest, k)] \in Pointers
  /\ wpc \in { "advance", "increment" } => storage[At(Oldest, n)] = warg

(* The inductive invariant of the ring: the facts above, what the threads  *)
(* may be doing while the fifo is closed, and that a NULL never gets past  *)
(* the first test of _write.                                               *)
ClosedIsQuiet == ~ open => wpc = "idle" /\ rpc = "idle"
NullStopped   == wpc \in { "store", "advance", "increment" } => warg \in Pointers

RingInv ==
  /\ TypeOK
  /\ ClosedIsQuiet
  /\ NullStopped
  /\ ChecksStayTrue
  /\ IndicesMatchCount
  /\ SlotsHoldPointers
  /\ TakenPointerIntact

(* The ring implements the bounded fifo: a write takes effect when it      *)
(* increments n, a read when it decrements n, a refusal when it loads n,   *)
(* and get_count, that always names this fifo, is exact at its load.       *)
Phase(pc) ==
  CASE pc = "idle"   -> "idle"
    [] pc = "return" -> "returning"
    [] OTHER         -> "called"

BF == INSTANCE BoundedFifo WITH
        Capacities <- {Size},
        capacity   <- IF open THEN Size ELSE 0,
        queue      <- Queue,
        wphase     <- Phase(wpc),
        rphase     <- Phase(rpc),
        rres       <- IF rpc = "return" THEN pointer ELSE NULL,
        observed   <- [o \in Observers |-> [named |-> TRUE, count |-> observed[o]]]

Implements == BF!Spec

(* _write and _read never block: a call returns if its own thread is       *)
(* scheduled, although the other one may have stopped for good, be it in   *)
(* the middle of its own call.                                             *)
WriteReturns == WF_vars(WriteStep) => ((wpc # "idle") ~> (wpc = "idle"))
ReadReturns  == WF_vars(ReadStep) => ((rpc # "idle") ~> (rpc = "idle"))

=============================================================================
