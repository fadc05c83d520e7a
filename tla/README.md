# A TLA+ verification of mulle-fifo

mulle-fifo is a small C library of bounded, lock-free queues of `void *` for
exactly one producer thread and one consumer thread. This directory holds TLA+
models of it, TLC configurations that check them on small instances, and TLAPS
proofs of their safety properties and refinements for every size of a fifo. Paths
below are relative to the root of the repository.

## 1. The system

### Components

| Component | Source | State | Operations |
|---|---|---|---|
| fixed fifo, the template | `src/mulle--pointerfifo64.h` | `n` (atomic counter, shared), `write` (producer only), `read` (consumer only), `storage[64]` (atomic slots) | `_init`, `_done` (a no-op), `_get_count`, `_read`, `_write` |
| the other fixed fifos, 4 .. 8192 slots | `src/mulle--pointerfifo*.h` | the same | the same; `bin/create-fifo-sources` generates them by replacing the number 64 |
| dynamic fifo | `src/mulle-pointerfifo.h` | as above, and `size`, `allocator`, `storage` (memory of the allocator) | `_init` (two assertions, one allocation), `_done` (frees, may be repeated), `_get_count`, `_read`, `_write`, and wrappers without the underscore that tolerate a NULL fifo |
| client programs | `test/20-multithreaded/{stress,publication,threads,threads-64}.c`, `test/10-singlethread/*.c` | items, loop counters | producer and consumer loops around the fifo |
| version | `src/mulle-fifo.{h,c}`, `src/reflect/_mulle-fifo-versioncheck.h` | none | encode, decode and compare version numbers |
| headers, build, generator | `src/generic`, `src/reflect`, `bin`, `cmake` | none | none at run time |
| *external:* mulle-thread | | | sequentially consistent atomic load, store, increment and decrement; threads |
| *external:* mulle-allocator | | | malloc, that calls `fail` instead of returning NULL, and free |

### How they interact

The two threads share a fifo and nothing else. The producer owns `write`, the
consumer owns `read`; `n` is updated by both and is all that either learns of
the other. `_write` loads `n`, compares it with the capacity, stores the
pointer, advances `write`, increments `n`. `_read` loads `n`, compares it with 0,
loads the pointer, advances `read`, decrements `n`. Any thread may call
`_get_count`, which is one load of `n`. The fifo calls the allocator in `_init`
and `_done` of the dynamic fifo only, and calls nobody back. Clients retry on
`-1` (full) and on NULL (empty).

### What is hard

* A thread is interrupted between any two accesses. Each call decides on **one**
  load of `n` and acts on the decision in later steps.
* The slot, the private index and the shared counter of one operation change in
  three different steps: between them, the three disagree.
* The order store, advance, increment of `_write` and load, advance, decrement of
  `_read` is what keeps the threads apart; nothing else does.
* Indices wrap around the ring; unsigned arithmetic wraps around the integer;
  `n` is a pointer-sized atomic that is truncated to `unsigned int`.
* A fifo may be ended with pointers in it and initialized again; the dynamic one
  with another size, in a build with or without assertions, with an allocation
  that fails.
* Payload that pointers point to is not protected by any lock. Neither is memory
  that is filled again, nor the storage of the dynamic fifo when it is freed.
* `get_count` may be stale when its result is acted on.
* Versions of the libraries it depends on are compared as packed words, and the
  memory order of the whole library rests on that check.

### What makes each component correct

* The ring: the decision of a call stays right until it is acted on; a store hits
  a free slot; a taken pointer is one that was written and its slot is not reused
  too early; index, counter and slots agree; every operation is atomic to an
  observer (linearizability) in first-in-first-out order; no call blocks.
* The life cycle of the dynamic fifo: it owns one block exactly while it is open,
  every access is inside of it, and the degenerate sizes are harmless.
* The clients: payload is visible when its pointer is read and unused when it is
  filled again, nothing is lost, doubled or reordered, the retry loops end, what
  `get_count` promised is found, and no thread accesses the fifo once `done` has
  freed it.
* The version check: packed words are ordered as the versions are.

## 2. Modules

    BoundedFifo                  what a fifo promises: an atomic bounded queue
      ^ implemented by             ^ implemented by
    FixedPointerFifo             PointerFifo  <- used by Contract
      ^ extended by                ^ extended by
    FixedFifoOrder               PointerFifoOrder
      ^ used by                    ^ used by
    Stress, Recycling            Threads, Publication

`FixedPointerFifo` is also used by `GeneratedFifos` and `Batches`; the two `Order`
modules use `HappensBefore`. `VersionCheck`, with `MCVersionCheck`, stands alone.

Each proof is in a module that extends what it is about: `FixedPointerFifoProofs`,
`PointerFifoProofs`, `StressProofs`, `PublicationProofs`, `ThreadsProofs`,
`RecyclingProofs`, `BatchesProofs`, and `LibraryProofs`, that extends `VersionCheck` and
`Contract` and instantiates `GeneratedFifos`. The proofs about a client instantiate
those of its fifo:

    FixedPointerFifoProofs       PointerFifoProofs
      ^ used by                    ^ used by
    StressProofs,                ThreadsProofs,
    RecyclingProofs,             PublicationProofs,
    BatchesProofs,               LibraryProofs
    LibraryProofs

The inductive invariants of the clients (`StressInv`, `PublicationInv`, `ThreadsInv`,
`RecyclingInv`, `BatchInv`, `ContractInv`) are part of the proofs and stand in these
modules. TLC checks them, too, when it is given the module of the proofs with the
configuration of the client's run and the invariant added; for `ContractInv`, whose module
has the variables of other models as well, the definitions have to be copied into a module
that extends `Contract` alone.

**`BoundedFifo`** is the abstract specification. Its state is a sequence, its
capacity, and for each side the phase of the call in progress: `"idle"`,
`"called"`, `"returning"`. An operation takes effect in one step between its call
and its return: `Enqueue`, `Dequeue`, `ReportFull`, `ReportEmpty`, `RejectNull`,
`Count`. Implementing it is linearizability for this object.

**`FixedPointerFifo`** models `mulle--pointerfifo64.h`. `n`, `write`, `read` and
`storage` are the fields. `wpc`, `warg`, `wres` are the program counter, argument
and result of the call of the producer, `rpc` and `pointer` the same for the
consumer. Each access to memory is an action:

| line | code | action |
|---|---|---|
| 62-64 | `write = read = 0; n = 0` | `InitFifo` |
| 70 | nothing | `DoneFifo` (only the ghost `open` changes) |
| 76 | load of `n` | `GetCount`, and the operator `Count` in the checks |
| 125-126 | `return( -2)` | `WriteNull` |
| 128-129 | `n == 64`, `return( -1)` | `WriteFull`; otherwise `WriteHasRoom` |
| 131, 132, 133 | store, advance, increment | `WriteStore`, `WriteAdvance`, `WriteIncrement` |
| 85-86 | `! n`, `return( NULL)` | `ReadEmpty`; otherwise `ReadHasPointer` |
| 88, 89, 90 | load, advance, decrement | `ReadLoad`, `ReadAdvance`, `ReadDecrement` |

Integers have a width: `UIntMod` and `UIntPtrMod` are the moduli of `unsigned
int` and `uintptr_t`. Before the first `init` all fields are arbitrary; slots
are indeterminate (`Garbage`) until written and keep their contents over a reuse.
The guards of `CallWrite`, `CallRead`, `InitFifo` and `DoneFifo` are the contract
of README.md: one producer, one consumer, `init` before and `done` after both.

**`GeneratedFifos`** has one instance of it for each header that is delivered,
`Fifo4` .. `Fifo8192`. The eleven generated headers are the output of
`bin/create-fifo-sources`, the template with the number replaced.

**`PointerFifo`** models `mulle-pointerfifo.h`. To the above it adds `size`, a
heap (`live`, the allocated blocks, and `memory`, their cells), and the ghost
`phase`. `InitFifo(s)` evaluates the assertions (`Asserted`), computes the block
in `size_t` arithmetic (`CellsOf`) and takes any free block; `AllocationFails`
and `AssertionFails` end the program; `Done` is the C function, `DoneFifo` the
function called within its contract, on a fifo in any phase, twice in a row, or
on a zeroed static fifo that was never initialized. `WriteNoFifo`, `ReadNoFifo`
and `GetCountNoFifo` are the wrappers called with NULL. A wrapper of `init` or
`done` called with NULL does nothing and is no step.

**`HappensBefore`** is the order of C11 over the steps of threads, as far as data
races go. `unseen[t]` are the accesses to plain memory that do not happen before what
thread `t` does next, `untold[l]` those that a load of the atomic variable `l` makes
nobody see, `races` the locations that were accessed in a race: by two threads, one
of them for writing, with neither access happening before the other. A step of a
thread loads some atomics, accesses some memory, stores to some atomics. The
atomics are the sequentially consistent ones of mulle-thread, on which the comment
in `mulle--pointerfifo64.h:96` builds and which the version check requires (4.11.0
or later). A store to `l` replaces `untold[l]` by what its thread has not seen, as a
load learns from the store that it reads. A read-modify-write loads `l` first, so that
it hands on what earlier stores did, too. The plain atomic stores are those to slots,
which only the producer makes: replacing forgets nothing there. `Follow` is thread
creation and join.

**`FixedFifoOrder`** and **`PointerFifoOrder`** pair each step of a fifo with its
accesses: `n` and the slots are atomic, `write`, `read`, `size` and the pointer
`storage` are not; `init` accesses `n` without atomic operations, too; `malloc` and
`free` need the whole block for themselves and a use of a slot shares it.

**`Stress`** composes the ring with the two threads of `test/20-multithreaded/
stress.c` (the fixed half): the producer fills in an item, writes its address and
retries on -1; the main thread retries on NULL, then checks the item. The contents
of an item whose filling does not happen before the check may be stale.

**`Publication`** is `test/20-multithreaded/publication.c` and the dynamic half of
`stress.c`, the same protocol over the dynamic fifo, from the allocation of its
storage to its release after the join. They differ when an item is not the expected
one: `CheckPublication` waits on, `CheckStress` skips it.

**`Threads`** composes the dynamic fifo with `test/20-multithreaded/threads.c`,
where `done` is called before the producer is joined. Sleeping is not a step.

**`Recycling`** is the client of the comment in `mulle--pointerfifo64.h:45-48`,
that sets "values into reused memory": the producer uses `Pool` buffers in turn and
has nothing but the success of its writes to tell it that one is free again.

**`Batches`** is a client that acts on `get_count`: the producer writes as many
pointers as there was room for, the consumer reads as many as there were, and
neither is prepared for a refusal.

**`Contract`** is `test/10-singlethread/contract.c`: `Calls` lists the calls of the
test with the results it expects, and one thread makes them on `PointerFifo`. It
ties the model to the tests of the library.

**`VersionCheck`** models the encoding of a version in `mulle-fifo.h`, its getters,
and `_mulle-fifo-versioncheck.h`, whose two blocks are one with `library` as a
variable. A bound may be predefined by the build (`Overrides`).
Its specification is `CheckSpec`, so that one module of proofs can extend it and
`Contract`.

Definitions named `X_Something` beside an `X` are faulty variants of `X`, each
with a mistake one could make in that code. They are in no specification; each
property is shown to fail when one of them takes the place of `X`.

## 3. Properties and runs

| Run | Instance | Properties |
|---|---|---|
| `fixed_ring` | 3 slots, 2 pointers, 1 observer, `UIntMod` = 4, `UIntPtrMod` = 8 | `TypeOK`, `ChecksStayTrue`, `IndicesMatchCount`, `StoresIntoFreeSlot`, `TakenPointerIntact`, `RingInv`, `Implements`, `WriteReturns`, `ReadReturns` |
| `dynamic_fifo` | sizes 1 .. 4, 2 blocks, 2 pointers, 1 observer | `TypeOK`, `OwnsOneBlock`, `AccessesInBounds`, `StoresIntoFreeSlot`, `TakenPointerIntact`, `RingInv`, `Implements`, `WriteReturns`, `ReadReturns` |
| `dynamic_ndebug` | sizes 0 .. 2, no assertions | `AccessesInBounds`, `Implements` |
| `stress` | 3 slots, 7 items | `PayloadVisible`, `NothingCorrupt`, `NoneLost`, `Terminates` |
| `threads` | 2 slots, numbers 1 .. 5 | `QuietAfterDone`, `FreesAfterUse`, `PrintsInOrder`, `PrintsAll` |
| `publication` | 2 slots, 5 items, both programs | `NoRaces`, `NothingCorrupt`, `NothingLeftBehind`, `Terminates` |
| `recycling` | 2 slots, 4 buffers, runs for ever | `RefillsAfterUse`, `DataIntact` |
| `batches` | 3 slots, runs for ever | `BatchFits`, `BatchComes`, `KeepsFlowing` |
| `contract` | 4 slots, 10 rounds | `Passes` |
| `version_check` | 72 versions, 4 overrides of each bound | `VerdictIsRight`, `GettersDecode` |
| `stress_publication` (violated) | 2 slots, 1 item | `NoPublication` |
| `threads_done` (violated) | 2 slots, numbers 1 .. 3 | `DoneAfterStop` |

* **`ChecksStayTrue`**: from the check in `_write` to its increment `n < Size`, from
  the check in `_read` to its decrement `n > 0`. The other thread can only move `n`
  away from the bound that was checked. Hence `n` never leaves `0 .. Size`, the
  comparison with `==` suffices, and the truncation in `_get_count` loses nothing.
* **`IndicesMatchCount`**: `write` is `n` slots ahead of the oldest pointer,
  counting a write that has advanced its index and not its counter.
* **`StoresIntoFreeSlot`**, **`TakenPointerIntact`**: the two threads never meet in
  a slot, and `_read` returns what was written, never NULL and never garbage.
* **`Implements`**: the ring with the queue read off it implements `BoundedFifo`.
  A write takes effect at its increment, a read at its decrement, a refusal and
  `_get_count` at their load of `n`. A count is recorded with whether a fifo was
  named, so that the 0 that `mulle_pointerfifo_get_count` returns for NULL is no
  excuse for a 0 that is wrong (`GetCount_Reduced`: 0 for a full ring).
* **`WriteReturns`**, **`ReadReturns`**: if that thread alone is scheduled fairly. The
  other one may stop for good anywhere, inside its own call too.
* **`OwnsOneBlock`**, **`AccessesInBounds`**: life cycle of the dynamic fifo. With
  assertions compiled, a size whose bytes do not fit a `size_t` is stopped; the run
  has `SizeTMod = 8` and cells of 2 bytes so that size 4 is one. Without
  assertions, a fifo of size 0 is always both full and empty, so that `% size` is
  never evaluated, and one of size 1 works.
* **`PayloadVisible`**: no access to an item or a field of the fifo is in a race; in
  particular the producer's filling happens before the consumer's look.
* **`NoneLost`**, **`NothingCorrupt`**, **`Terminates`**: the whole of `stress.c`.
* **`NoRaces`**, **`NothingLeftBehind`**: the same for the dynamic fifo, with its
  storage. When it is freed all that was written has been received.
* **`QuietAfterDone`**, **`FreesAfterUse`**: see the second divergence. Not only has
  the producer made its last access when the storage is freed; that access also
  happens before, by the increment of `n` that the main thread has loaded. So the
  early `done` is no race in the sense of C11 either.
* **`RefillsAfterUse`**, **`DataIntact`**: `Size + 2` buffers are enough, and the order
  the fifo gives is all it takes: a write that finds room has loaded `n` after the
  decrement by which a slot became free, and what the consumer did before that
  decrement happens before. One buffer less is too few (`Pool_OneTooFew`), and so is
  a relaxed decrement (`ReadBy_RelaxedDecrement`): reads have to release, not only
  writes.
* **`BatchFits`**, **`BatchComes`**: the count is stale in one direction only for each of
  the two threads. A `get_count` that took the distance of the indices instead
  (`GetCount_FromIndices`) would be off by one during an operation and ambiguous
  when the fifo is full.
* **`VerdictIsRight`**: stated on the three numbers of a version while the code
  compares words.

### Disagreements with the documentation

* README.md:30-34 says the atomics are relaxed, that nothing is published and that
  `_read_barrier` is to be used. The code is written for sequentially consistent
  atomics and has `_read_barrier` compiled out; `dox/API_POINTERFIFO.md:24` agrees
  with the code. `stress_publication` refutes the statement of README.md.
* The comment in `mulle--pointerfifo64.h:45-48` asks for a memory barrier after setting
  values into reused memory. The comment in line 96 of the same file has superseded it:
  `recycling` shows that with sequentially consistent atomics no barrier is needed,
  neither for the new values to be seen nor for the old ones to stay until they are read.
* README.md:18 says `done` must only be called after both threads have stopped.
  `threads.c:94` calls it before `mulle_thread_join`. `threads_done` finds the
  producer still inside `_write`. It is harmless, as `QuietAfterDone` shows: what
  lets the last number be read is the increment of `n`, the last access `_write`
  makes. A `_write` that touched the fifo after its increment would make it a use
  after free.

### Why the bounds are enough

The ring treats all slots and all pointers alike. Three slots let the ring be empty,
full and in between, with the indices apart from each other and from both ends;
two pointers tell a right one from a wrong one. Nothing else is bounded: calls,
reuses and wrap-arounds repeat for ever in the ring and dynamic runs. `UIntMod` = 4
makes 3 the largest `unsigned int`, the tightest width the ring admits, and
`UIntPtrMod` = 8 makes the truncation in `_get_count` visible. The clients hand
over more than twice as many items as there are slots, `Recycling` and `Batches`
number theirs modulo a small number and run for ever. The versions are those at both
ends of each part and around the default bounds; the largest majors do not fit the
integers of TLC and are left to the proof. That nothing depends on the size is
proved for the fifos and for the clients, see below.

### Fairness

`WriteReturns` and `ReadReturns` have their fairness as a premise: the thread whose call
is to return is scheduled while it is inside, no more is assumed. The clients assume weak fairness of either thread: a preemptive scheduler
runs a thread that spins (`stress.c` yields, `threads.c` and `publication.c` sleep for
a finite time). No property needs strong fairness, as no step of the fifo waits for
the other thread.

A program that called `abort` has ended: `Aborted` (and `Ended` in the clients)
stands for that, so that every other deadlock is reported.

## 4. Proofs

Every safety property of every passing run is proved for all values of the constants,
and so are both refinements.

### The fixed fifo

`FixedPointerFifoProofs` proves, for every `Size`, every set of pointers and
observers and all widths with `Size < UIntMod <= UIntPtrMod`:

| Theorem | States |
|---|---|
| `RingCorrect` | `Spec => []RingInv` |
| `TypeCorrect` | `Spec => []TypeOK` |
| `ChecksCorrect` | `Spec => []ChecksStayTrue` |
| `IndicesCorrect` | `Spec => []IndicesMatchCount` |
| `StoresCorrect` | `Spec => []StoresIntoFreeSlot` |
| `TakenCorrect` | `Spec => []TakenPointerIntact` |
| `Refinement` | `Spec => Implements` |

and `LibraryProofs` proves `AllImplement`, that each of the twelve delivered
fifos implements the bounded fifo of its capacity, by discharging these
assumptions for its size.

The inductive invariant is `RingInv`. The safety properties are not inductive by
themselves. That the counter stays in its range needs `ChecksStayTrue`; that needs to know
that only one of the two threads moves `n` towards the bound. That a taken pointer
was written needs `SlotsHoldPointers`: all `n` slots from the oldest on hold
pointers, and the next one does already while a write has not yet incremented `n`.
That a store leaves those slots alone needs `IndicesMatchCount`, and `n < Size` at
that moment, since then `write` is a slot different from the `n` occupied ones
(lemma `AtWalks`: the slots around the ring are distinct). The indices are mapped
from modular arithmetic to "the next slot" once, in `WrapIsNext`; the counter from
integer widths to numbers once, in `CounterIsExact`.

`Refinement` uses the invariant and one lemma per idea: `QueueIsSeq` (the queue
read off the ring is a sequence of `n` pointers), `QueueUnchanged` (steps that
touch none of what it is made of leave it alone), `StoreKeepsQueue` (a store does
touch the slots, but none of the queue's), `IncrementAppends`, `DecrementRemoves`;
then `RefinementStep` maps each action to the step of `BoundedFifo` it is, or to a
stutter.

The assumptions on the constants are named in `FixedPointerFifo`:
`SizeAssumption`, `WidthAssumption`, `PointerAssumption`.

### The dynamic fifo

`PointerFifoProofs` proves, for all sets of sizes, all widths, all allocators (any
set of blocks) and both kinds of build:

| Theorem | States |
|---|---|
| `RingCorrect` | `Spec => []RingInv` |
| `TypeCorrect` | `Spec => []TypeOK` |
| `OwnershipCorrect` | `Spec => []OwnsOneBlock` |
| `AccessesCorrect` | `Spec => []AccessesInBounds` |
| `StoresCorrect` | `Spec => []StoresIntoFreeSlot` |
| `TakenCorrect` | `Spec => []TakenPointerIntact` |
| `Refinement` | `Spec => Implements` |

Its invariant adds three parts to that of the fixed fifo. `OwnsOneBlock` is one of
them: done is only safe since the storage is NULL or the one live block.
`ClosedIsQuiet` is the contract, no call is inside of a fifo that is not open.
`BlockFitsSize` joins the two halves of the component: the ring reasons about
`size`, the heap about cells. It is established in `init` by lemma `BlockFits`: under
the assertion of line 65, `size * sizeof( mulle_atomic_pointer_t)` does not wrap
around, so the block has exactly `size` cells. For a build without assertions,
`SizesAssumption` puts that on the caller, and nothing else: sizes 0 and 1 are
covered. The steps that leave the ring alone are dealt with by the lemmas
`SameRing`, `ProducerMoves` and `DoneKeepsRing`. The assumptions are
`WidthAssumption`, `SizesAssumption` and `PointerAssumption` of `PointerFifo`.

`Refinement` goes along the lines of the fixed fifo, with the slots in the memory
of the block. `OpenRing` extracts from the invariant what holds of them while the
fifo is open, `BlockFitsSize` among it: without it a slot need not be a cell. `init`
maps to opening the bounded fifo with the size it was given, `done` to closing
it, the second and later `done` and the failures of `init` to stutters.

### The clients

What a test program counts and what a user of the library relies on is proved
for every size and every number of items, again with an inductive invariant that
TLC checked on the instance of the run before it was proved.

| Module | Theorem | States |
|---|---|---|
| `StressProofs` | `StressCorrect` | `Spec => []StressInv` |
| | `ItemsArrive` | `Spec => []NoneLost` |
| | `NoDataRace` | `Spec => []PayloadVisible` |
| | `ItemsIntact` | `Spec => []NothingCorrupt` |
| `PublicationProofs` | `PublicationCorrect` | `Spec => []PublicationInv` |
| | `NoDataRace` | `Spec => []NoRaces` |
| | `ItemsIntact` | `Spec => []NothingCorrupt` |
| | `AllHandedOver` | `Spec => []NothingLeftBehind` |
| `ThreadsProofs` | `ThreadsCorrect` | `Spec => []ThreadsInv` |
| | `ProducerIsQuiet` | `Spec => []QuietAfterDone` |
| | `StorageIsReleased` | `Spec => []FreesAfterUse` |
| | `OutputInOrder` | `Spec => []PrintsInOrder` |
| `RecyclingProofs` | `RecyclingCorrect` | `Spec => []RecyclingInv` |
| | `RefillsCorrect` | `Spec => []RefillsAfterUse` |
| | `DataCorrect` | `Spec => []DataIntact` |
| `BatchesProofs` | `BatchCorrect` | `Spec => []BatchInv` |
| | `RoomIsKept` | `Spec => []BatchFits` |
| | `PointersCome` | `Spec => []BatchComes` |

**How the clients use the fifo.** What happens inside of the ring is not argued again
for each client. A client module's `Ring` or `Fifo` and the `Lemmas` of the proofs are two instances of one
module; the `Same...` lemmas say that they agree. `RingStep` or `FifoStep` carries
the invariant of the fifo over a step of the client. What a step does to the
queue comes from four lemmas that are proved once for each fifo: `WriteOutcome` (a
step of a write leaves the queue alone, or appends the argument to it and
returns 0; it returns -1 only when there were `size` pointers, and -2 only for NULL),
`ReadOutcome` (a step of a read leaves it alone, or takes the head off and returns it;
it returns NULL only when the fifo was empty), `CallsKeepQueue` (calls, returns) and
`CountOutcome` (`get_count` returns the length of the queue).

**Arrival in order.** `NoneLost` counts: what was written is received, in the fifo, or
in the consumer's hands. It is inductive only with `InOrder` (the queue holds
consecutive items from the one that is expected), and both need `Protocol`,
which ties the place a thread is at to the call it is in. `Written` is ahead of the
loop counter of the producer between the increment of `n` and the return of the
write; during that time the consumer may have read the item already.

**No data race.** The invariant says what each thread may not have seen of the other.
`Apart` bounds `unseen`: only the fields that one thread alone accesses, the atomic
`n`, and items; `ProducerAccess` and `MainAccess` conclude that no access of the fifo
races. `Published` bounds `untold` of `n`: a load of `n` makes the filling of every item
known whose write took effect, since the increment that made the write take
effect told of it. `Seen` is the consequence for the consumer: an item it has
decided to take is one whose filling it has seen. That links the happens-before
order to the queue: the item the consumer takes is `received` by `InOrder`, and it is
below `Written` by `NoneLost`. `WriteAccess` and `ReadAccess` summarize the accesses of a
step of the fifo, `NoRace` that of a step of the client.

**The way back.** `Recycling` needs the opposite direction too. `LookingsSeen` says of the
buffers whose looking a load of `n` may not show to the producer that there is at
most one, the last one examined, and that a producer which found room will fill
another one. That is where `Pool = Size + 2` is used. Data are numbered modulo
`Laps * Pool`; `BuffersDiffer` and `LaterBuffer` do the arithmetic: data less than
`Pool` apart are in different buffers.

**The early `done`.** In `Threads` the storage is freed before the join. `Released` has two
parts: once the last number is written no use of the storage by the producer is
left in `untold` of `n`, and once the main thread has decided to take the last number
it has seen all uses of the storage. `QuietAfterDone` follows from counting: the
fifo is done when `Last` numbers are printed, which by `NoneLost` needs the last
write to have taken effect, after which `_write` makes no more access. In
`Publication` the same step is ordered by the join, after which nothing of the
producer is unseen.

**Batches.** `RoomKept` says that the writes still to take effect fit: a stale
count is too small for the producer and `ToStore + n <= Size` is only ever relaxed
by the consumer. `PointersKept` is its mirror image, `InSequence` the order.

The assumptions are those of the fifo with the client's sets of sizes and
pointers (`RingAssumption`, `FifoAssumption`) and that there is something to do:
`NItemsAssumption` of `Stress`, `ItemsAssumption` of `Publication`, `LastAssumption` of
`Threads`, `LapsAssumption` of `Recycling` (at least two laps) and `Batches` (more
numbers than slots, or the numbers would not tell pointers apart).

### The contract test

`LibraryProofs` proves `ContractPasses`, `Spec => []Passes` of `Contract`, for every
size of the fifo and every number of rounds that is larger (the test has 4 and 100;
it writes the numbers up to `Size + 1` before the rounds). The assumptions are
`RoundsAssumption` and `FifoAssumption`, those of the dynamic fifo.

One half is about the test alone: that what it expects is what a bounded queue
answers. `Held(s)` is how many numbers such a queue holds before call `s`, and `First(s)`
the first of them; they are consecutive. `Right(s, c)` says that the answer
expected of call `c` is the one for that queue, and that `Held(s + 1)` and `First(s + 1)` are
what the call leaves. `CallsAre` says which call has which number (the test is a
concatenation of nine parts, three of them as long as the size or the number of rounds
makes them; `Joined` and `PartOf` locate a part) and `CallsAreRight` goes through them.

The other half is that the fifo gives these answers. The invariant `ContractInv` is
`RingInv` and

* `Progress`: in which phase the fifo is at which call, and that nothing has failed;
* `InOneCall`: at most one of `_write` and `_read` is running, it is the call the test is
  at, and when it is about to return it returns what is expected;
* `Holds(Now)`: the queue is `Held` and `First` of the present call, or of the next when
  the present one has taken effect and has yet to return.

A step that takes effect is one of those `WriteOutcome` and `ReadOutcome` list, and
`Right` leaves only the expected one. That nothing is allocated in the end is
`OwnsOneBlock`, after either of the two calls of `done`.

### The version check

`LibraryProofs` proves, for all versions whose major and minor are below 4096
and whose patch is below 256:

| Theorem | States |
|---|---|
| `FitsUInt32` | a packed version fits a `uint32_t` |
| `OrderPreserved` | packed versions are ordered as versions are |
| `DecodeEncoded` | the getters undo the packing |
| `VerdictCorrect` | `CheckSpec => []VerdictIsRight` |
| `GettersCorrect` | `CheckSpec => []GettersDecode` |

The arithmetic is in the lemmas `PackFits`, `PackOrder` and `Unpack`, on the parts as
numbers; the theorems put them together for tuples. The assumption is
`VersionsAssumption`: there are no versions with larger parts.

### Only model-checked

* The liveness properties `WriteReturns`, `ReadReturns`, `Terminates`, `PrintsAll` and
  `KeepsFlowing`: fairness and ENABLED are out of reach of the prover.

## 5. What is not modelled

* More than one producer or consumer: the contract forbids it and the code does
  not detect it.
* Weaker memory orders than sequential consistency. The happens-before order is laid
  over interleavings, so that it finds races; what a program with a race would do
  is not modelled beyond the stale contents of an item.
* `_read_barrier`, that is compiled out.
* `threads-64.c`, which is `threads.c` over a fixed fifo, whose `done` does nothing, and
  the other single-thread tests, whose calls `contract.c` makes too.
* Versions with a major or minor beyond 4095 or a patch beyond 255, whose parts
  would overlap.
* Headers, generator and build files: they have no behaviour at run time. What
  the generator does, replacing the number, is the constant `Size`.

## 6. Plan

Done: the fifos, the twelve sizes, the memory order, all test programs, recycled
memory, batches and the version check, with their runs; the proofs of section 4,
that cover every safety property and both refinements.

Left: the clients on top of `BoundedFifo` instead of on the lemmas about the queue. The
refinements would carry the order of arrival from any implementation to any
client. The happens-before order would have to become part of what the bounded
fifo promises.
