------------------------------ MODULE Contract ------------------------------
(***************************************************************************)
(* The contract test: one thread in both roles makes a fixed sequence of   *)
(* calls and compares each result with what the documentation promises.    *)
(* Run on the model of the dynamic fifo, the sequence shows that the model *)
(* answers as the library does where nothing is concurrent.  A call of     *)
(* init or done with a NULL fifo does nothing and is left out.             *)
(***************************************************************************)
EXTENDS Integers, Sequences

CONSTANTS UIntMod, SizeTMod, UIntPtrMod, PointerBytes, AssertsOn, Blocks,
          NULL, Garbage,
          Size,     \* of the fifo: 4 in the test
          Rounds    \* of writing one pointer and reading it: 100 in the test

ASSUME RoundsAssumption == Size \in Nat \ {0} /\ Rounds \in Nat /\ Rounds > Size

VARIABLES n, write, read, size, storage, memory, live, phase,
          wpc, warg, wres, rpc, pointer, observed,
          step,      \* number of the call
          failures

ringVars == << n, write, read, size, storage, memory, live, phase,
               wpc, warg, wres, rpc, pointer, observed >>
vars     == << ringVars, step, failures >>

Fifo == INSTANCE PointerFifo WITH
          Sizes <- {Size}, Pointers <- 1 .. Rounds, Observers <- {"main"}

ASSUME FifoAssumption ==
  Fifo!WidthAssumption /\ Fifo!SizesAssumption /\ Fifo!PointerAssumption

-----------------------------------------------------------------------------
(* The calls, with the results that are expected.                          *)

Write(p, result) == [call |-> "write", arg |-> p, result |-> result]
Read(result)     == [call |-> "read", arg |-> NULL, result |-> result]
Count(result)    == [call |-> "count", arg |-> NULL, result |-> result]
NoFifo(c, name)  == [c EXCEPT !.call = name]
Other(name)      == [call |-> name, arg |-> NULL, result |-> NULL]

WithoutFifo ==
  << NoFifo(Write(1, Fifo!FifoFull), "write without fifo"),
     NoFifo(Read(NULL), "read without fifo"),
     NoFifo(Count(0), "count without fifo") >>

RejectNull == << Write(NULL, Fifo!NullPointer), Count(0) >>

Fill == [k \in 1 .. Size |-> Write(k, Fifo!Stored)] \o << Count(Size) >>

OnePastCapacity == << Write(Size + 1, Fifo!FifoFull), Count(Size) >>

Wraparound == << Read(1), Write(Size + 1, Fifo!Stored) >>

Drain == [k \in 1 .. Size |-> Read(k + 1)] \o << Read(NULL), Count(0) >>

Interleaved ==
  [k \in 1 .. 2 * Rounds |-> IF k % 2 = 1 THEN Write((k + 1) \div 2, Fifo!Stored)
                                          ELSE Read(k \div 2)] \o << Count(0) >>

Calls ==
  WithoutFifo \o << Other("init") >> \o RejectNull \o Fill \o OnePastCapacity
    \o Wraparound \o Drain \o Interleaved \o << Other("done"), Other("done") >>

Last == Len(Calls)
Call == Calls[step]

-----------------------------------------------------------------------------
(* The program.  The fifo is on the stack.                                 *)

Init == Fifo!Init /\ storage = Garbage /\ step = 1 /\ failures = 0

Ready == step <= Last /\ Fifo!Idle

Compare(result) ==
  /\ failures' = IF result = Call.result THEN failures ELSE failures + 1
  /\ step' = step + 1

CallInit ==
  /\ Ready /\ Call.call = "init"
  /\ Fifo!InitFifo(Size) \/ Fifo!AllocationFails(Size)
  /\ step' = step + 1 /\ UNCHANGED failures

CallDone ==
  /\ Ready /\ Call.call = "done"
  /\ Fifo!DoneFifo
  /\ step' = step + 1 /\ UNCHANGED failures

CallWrite ==
  /\ Ready
  /\ \/ Call.call = "write" /\ Fifo!CallWrite(Call.arg)
     \/ Call.call = "write without fifo" /\ Fifo!WriteNoFifo(Call.arg)
  /\ UNCHANGED << step, failures >>

CallRead ==
  /\ Ready
  /\ \/ Call.call = "read" /\ Fifo!CallRead
     \/ Call.call = "read without fifo" /\ Fifo!ReadNoFifo
  /\ UNCHANGED << step, failures >>

CallCount ==
  /\ Ready
  /\ \/ Call.call = "count" /\ Fifo!GetCount("main")
     \/ Call.call = "count without fifo" /\ Fifo!GetCountNoFifo("main")
  /\ Compare(observed'["main"].count)

InCall ==
  /\ \/ wpc # "return" /\ Fifo!WriteStep
     \/ rpc # "return" /\ Fifo!ReadStep
  /\ UNCHANGED << step, failures >>

WriteReturned == Fifo!WriteReturn /\ Compare(wres)
ReadReturned  == Fifo!ReadReturn /\ Compare(pointer)

Main ==
  \/ CallInit \/ CallDone \/ CallWrite \/ CallRead \/ CallCount
  \/ InCall \/ WriteReturned \/ ReadReturned

Ended == (step > Last \/ phase = "aborted") /\ UNCHANGED vars

Next == Main \/ Ended

Spec == Init /\ [][Next]_vars

-----------------------------------------------------------------------------
(* Properties.                                                             *)

(* Every call returns what the documentation promises, over the wrap-      *)
(* around of the indices, and the second done leaves nothing allocated.    *)
Passes == failures = 0 /\ (step > Last => live = {})

=============================================================================
