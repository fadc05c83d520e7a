----------------------------- MODULE Publication -----------------------------
(***************************************************************************)
(* Items handed over through a dynamic fifo, as the publication test does  *)
(* and the second half of the stress test: the producer fills in an item,  *)
(* writes a pointer to it and retries while the fifo is full; the main     *)
(* thread retries while it is empty and examines what it gets.  It frees   *)
(* the storage of the fifo once it has joined the producer.  The programs  *)
(* differ in what they do with an item that is not the one they expect.    *)
(* Sleeping and yielding are not a step.                                   *)
(***************************************************************************)
EXTENDS Integers

CONSTANTS UIntMod, SizeTMod, UIntPtrMod, PointerBytes, AssertsOn, Blocks,
          NULL, Garbage,
          Size,    \* of the fifo
          N_ITEMS  \* number of items to hand over

ASSUME ItemsAssumption == N_ITEMS \in Nat \ {0}

VARIABLES n, write, read, size, storage, memory, live, phase,
          wpc, warg, wres, rpc, pointer, observed, unseen, untold, races,
          program,  \* which of the two programs this is
          ppc,      \* where the producer thread is
          i,        \* the item it is about
          mpc,      \* where the main thread is
          item,     \* the item the main thread is about
          expect, received, corrupt

ringVars   == << n, write, read, size, storage, memory, live, phase,
                 wpc, warg, wres, rpc, pointer, observed >>
countVars  == << expect, received, corrupt >>
clientVars == << program, ppc, i, mpc, item, countVars >>
hbVars     == << unseen, untold, races >>
vars       == << ringVars, clientVars, hbVars >>

Items   == 0 .. N_ITEMS - 1
Item(k) == << "item", k >>          \* the memory of item k

Fifo == INSTANCE PointerFifoOrder WITH
          Sizes <- {Size}, Pointers <- Items, Observers <- {},
          Threads <- { "producer", "main" }

ASSUME FifoAssumption ==
  Fifo!WidthAssumption /\ Fifo!SizesAssumption /\ Fifo!PointerAssumption

(* The fifo is static, and so are the items: zero before they are filled.  *)
Init ==
  /\ Fifo!OrderedInit /\ storage = NULL
  /\ program \in { "publication", "stress" }
  /\ ppc = "none" /\ i = 0
  /\ mpc = "init" /\ item = NULL
  /\ expect = 0 /\ received = 0 /\ corrupt = 0

-----------------------------------------------------------------------------
(* The producer thread.                                                    *)

FillItem ==
  /\ ppc = "fill"
  /\ Fifo!HB!Access("producer", {}, {}, {Item(i)}, {})
  /\ ppc' = "write"
  /\ UNCHANGED << ringVars, program, i, mpc, item, countVars >>

TryWrite ==
  /\ ppc = "write"
  /\ Fifo!CallWrite(i)
  /\ ppc' = "writing"
  /\ UNCHANGED << program, i, mpc, item, countVars, hbVars >>

InWrite == wpc # "return" /\ Fifo!WriteBy("producer") /\ UNCHANGED clientVars

NextItem ==
  /\ i' = i + 1
  /\ ppc' = IF i + 1 < N_ITEMS THEN "fill" ELSE "exit"

\* Faulty variant: the item that did not fit is dropped.
WriteReturned_Drops ==
  /\ Fifo!WriteReturn
  /\ NextItem
  /\ UNCHANGED << program, mpc, item, countVars, hbVars >>

WriteReturned ==
  /\ Fifo!WriteReturn
  /\ IF wres = Fifo!FifoFull THEN ppc' = "write" /\ UNCHANGED i ELSE NextItem
  /\ UNCHANGED << program, mpc, item, countVars, hbVars >>

-----------------------------------------------------------------------------
(* The main thread.                                                        *)

MainInit ==
  /\ mpc = "init"
  /\ Fifo!InitBy("main", Size)
  /\ mpc' = "create"
  /\ UNCHANGED << program, ppc, i, item, countVars >>

CreateThread ==
  /\ mpc = "create" /\ phase # "aborted"
  /\ Fifo!HB!Follow("producer", "main")
  /\ ppc' = "fill" /\ mpc' = "read"
  /\ UNCHANGED << ringVars, program, i, item, countVars >>

TryRead ==
  /\ mpc = "read"
  /\ Fifo!CallRead
  /\ mpc' = "reading"
  /\ UNCHANGED << program, ppc, i, item, countVars, hbVars >>

InRead == rpc # "return" /\ Fifo!ReadBy("main") /\ UNCHANGED clientVars

ReadReturned ==
  /\ Fifo!ReadReturn
  /\ item' = pointer
  /\ mpc' = IF pointer = NULL THEN "read" ELSE "examine"
  /\ UNCHANGED << program, ppc, i, countVars, hbVars >>

(* The values the item's number may have for the main thread, and whether  *)
(* the fields that are computed from it may disagree with it.              *)
MaybeStale == \E a \in unseen["main"] : a[1] = Item(item) /\ a[2] = "exclusive"
Values     == IF MaybeStale THEN {item, 0} ELSE {item}
MaybeTorn  == IF MaybeStale THEN BOOLEAN ELSE {FALSE}

(* An item that is out of order is one fault, one that disagrees with      *)
(* itself another, in however many fields it does.                         *)
Faults(value, torn) ==
  (IF value # expect THEN 1 ELSE 0) + (IF torn THEN 1 ELSE 0)

(* publication.c goes on waiting for the item it expects.                  *)
CheckPublication(value, torn) ==
  /\ program = "publication"
  /\ corrupt' = corrupt + Faults(value, torn)
  /\ expect' = IF value = expect THEN expect + 1 ELSE expect

(* stress.c skips it.                                                      *)
CheckStress(value, torn) ==
  /\ program = "stress"
  /\ corrupt' = corrupt + Faults(value, torn)
  /\ expect' = expect + 1

\* Faulty variant: the loop ends one item too early.
Enough_OneTooFew(count) == count + 1 >= N_ITEMS

Enough(count) == count >= N_ITEMS

Examine ==
  /\ mpc = "examine"
  /\ Fifo!HB!Access("main", {}, {Item(item)}, {}, {})
  /\ \E value \in Values, torn \in MaybeTorn :
       CheckPublication(value, torn) \/ CheckStress(value, torn)
  /\ received' = received + 1
  /\ mpc' = IF Enough(received + 1) THEN "join" ELSE "read"
  /\ UNCHANGED << ringVars, program, ppc, i, item >>

Join ==
  /\ mpc = "join" /\ ppc = "exit"
  /\ Fifo!HB!Follow("main", "producer")
  /\ mpc' = "done"
  /\ UNCHANGED << ringVars, program, ppc, i, item, countVars >>

MainDone ==
  /\ mpc = "done"
  /\ Fifo!DoneBy("main")
  /\ mpc' = "end"
  /\ UNCHANGED << program, ppc, i, item, countVars >>

-----------------------------------------------------------------------------
Producer == FillItem \/ TryWrite \/ InWrite \/ WriteReturned

Main ==
  \/ MainInit \/ CreateThread
  \/ TryRead \/ InRead \/ ReadReturned \/ Examine
  \/ Join \/ MainDone

Ended == (mpc = "end" \/ phase = "aborted") /\ UNCHANGED vars

Next == Producer \/ Main \/ Ended

Spec == Init /\ [][Next]_vars

(* The operating system runs both threads, and no sleep lasts for ever.    *)
FairSpec == Spec /\ WF_vars(Producer) /\ WF_vars(Main)

-----------------------------------------------------------------------------
(* Properties.                                                             *)

(* Neither the items, nor the fields of the fifo, nor the storage that     *)
(* init allocates and done frees are ever accessed in a data race.         *)
NoRaces == races = {}

(* What the programs count: every item arrives once, complete and in       *)
(* order, whether or not one that is out of order is skipped.              *)
NothingCorrupt == corrupt = 0

(* The storage is freed when all that was ever written has been received:  *)
(* nothing is left behind in the fifo, and no block is left to free.       *)
NothingLeftBehind ==
  phase = "done" => n = 0 /\ received = i /\ i = N_ITEMS /\ live = {}

(* Unless there is no memory, both retry loops end, the producer is joined *)
(* and the main thread ends.                                               *)
Terminates == <>(mpc = "end" \/ phase = "aborted")

=============================================================================
