------------------------------ MODULE Recycling ------------------------------
(***************************************************************************)
(* Two threads that hand over data in a few buffers that are used again    *)
(* and again, as the comment on "reused memory" in mulle--pointerfifo64.h  *)
(* foresees.  Nothing tells the producer that a buffer is free again but   *)
(* that _write found room: if the fifo has Size slots, the Pool of buffers *)
(* is used in turn, and the consumer is through with a buffer before it    *)
(* reads the next pointer, how many buffers does it take?                  *)
(*                                                                         *)
(* Data is numbered modulo Laps * Pool, so that the threads run for ever.  *)
(***************************************************************************)
EXTENDS Integers

CONSTANTS Size, UIntMod, UIntPtrMod, NULL, Garbage,
          Laps       \* numbers of the data repeat after that many laps

ASSUME LapsAssumption == Laps \in Nat \ {0, 1}

VARIABLES n, write, read, storage, wpc, warg, wres, rpc, pointer, observed, open,
          unseen, untold, races,
          contents,  \* the number of the data in each buffer
          ppc,       \* where the producer is
          next,      \* the data it hands over
          cpc,       \* where the consumer is
          item,      \* the buffer it has taken
          expect     \* the data it waits for

ringVars   == << n, write, read, storage, wpc, warg, wres, rpc, pointer, observed,
                 open >>
clientVars == << contents, ppc, next, cpc, item, expect >>
hbVars     == << unseen, untold, races >>
vars       == << ringVars, clientVars, hbVars >>

(* Faulty variant: a buffer for each slot and the one that is filled.      *)
Pool_OneTooFew == Size + 1

(* A buffer for each slot, for the one that is filled, and for the one     *)
(* that is examined.                                                       *)
Pool == Size + 2

Buffers   == 0 .. Pool - 1
Buffer(d) == d % Pool               \* the buffer for data d
Memory(b) == << "buffer", b >>

Threads == { "producer", "consumer" }

Ring == INSTANCE FixedFifoOrder WITH Pointers <- Buffers, Observers <- {}

ASSUME RingAssumption ==
  Ring!SizeAssumption /\ Ring!WidthAssumption /\ Ring!PointerAssumption

Init ==
  /\ Ring!OrderedInit
  /\ contents = [b \in Buffers |-> Garbage]
  /\ ppc = "none" /\ next = 0
  /\ cpc = "init" /\ item = NULL /\ expect = 0

(* The consumer initializes the fifo and creates the producer.             *)
Start ==
  /\ cpc = "init"
  /\ Ring!InitBy("consumer")
  /\ cpc' = "create"
  /\ UNCHANGED << contents, ppc, next, item, expect >>

CreateThread ==
  /\ cpc = "create"
  /\ Ring!HB!Follow("producer", "consumer")
  /\ ppc' = "fill" /\ cpc' = "read"
  /\ UNCHANGED << ringVars, contents, next, item, expect >>

-----------------------------------------------------------------------------
(* The producer.                                                           *)

Fill ==
  /\ ppc = "fill"
  /\ Ring!HB!Access("producer", {}, {}, {Memory(Buffer(next))}, {})
  /\ contents' = [contents EXCEPT ![Buffer(next)] = next]
  /\ ppc' = "write"
  /\ UNCHANGED << ringVars, next, cpc, item, expect >>

TryWrite ==
  /\ ppc = "write"
  /\ Ring!CallWrite(Buffer(next))
  /\ ppc' = "writing"
  /\ UNCHANGED << contents, next, cpc, item, expect, hbVars >>

InWrite == wpc # "return" /\ Ring!WriteBy("producer") /\ UNCHANGED clientVars

WriteReturned ==
  /\ Ring!WriteReturn
  /\ \/ wres = Ring!FifoFull /\ ppc' = "write" /\ UNCHANGED next
     \/ wres = Ring!Stored /\ ppc' = "fill" /\ next' = (next + 1) % (Laps * Pool)
  /\ UNCHANGED << contents, cpc, item, expect, hbVars >>

-----------------------------------------------------------------------------
(* The consumer.                                                           *)

TryRead ==
  /\ cpc = "read"
  /\ Ring!CallRead
  /\ cpc' = "reading"
  /\ UNCHANGED << contents, ppc, next, item, expect, hbVars >>

InRead == rpc # "return" /\ Ring!ReadBy("consumer") /\ UNCHANGED clientVars

ReadReturned ==
  /\ Ring!ReadReturn
  /\ item' = pointer
  /\ cpc' = IF pointer = NULL THEN "read" ELSE "examine"
  /\ UNCHANGED << contents, ppc, next, expect, hbVars >>

Examine ==
  /\ cpc = "examine"
  /\ Ring!HB!Access("consumer", {}, {Memory(item)}, {}, {})
  /\ expect' = (expect + 1) % (Laps * Pool)
  /\ cpc' = "read"
  /\ UNCHANGED << ringVars, contents, ppc, next, item >>

-----------------------------------------------------------------------------
Producer == Fill \/ TryWrite \/ InWrite \/ WriteReturned
Consumer == Start \/ CreateThread \/ TryRead \/ InRead \/ ReadReturned \/ Examine

Next == Producer \/ Consumer

Spec == Init /\ [][Next]_vars

-----------------------------------------------------------------------------
(* Properties.                                                             *)

(* Filling a buffer again never races with the consumer that still looks   *)
(* at what was in it before, nor looking at it with the filling: the load  *)
(* of n in _write is all it takes, no barrier and no way back.             *)
RefillsAfterUse == races = {}

(* The pointer the consumer has taken leads to the data that is next: none *)
(* was skipped, doubled or overwritten on the way.                         *)
DataIntact == cpc = "examine" => contents[item] = expect

=============================================================================
