------------------------------- MODULE Threads -------------------------------
(***************************************************************************)
(* The threads test: a producer writes the numbers 1 .. Last, cast to      *)
(* pointers, through a dynamic fifo and the main thread prints them.  Both *)
(* sleep whenever they like, which is not a step here.  The main thread    *)
(* ends the fifo as soon as it has printed Last, before it has joined the  *)
(* producer: whether the producer still uses the storage then depends on   *)
(* the order of the steps of _write, and on what they order in memory.     *)
(***************************************************************************)
EXTENDS Integers, Sequences

CONSTANTS UIntMod, SizeTMod, UIntPtrMod, PointerBytes, AssertsOn, Blocks,
          NULL, Garbage,
          Size,    \* of the fifo
          Last     \* the last number

ASSUME LastAssumption == Last \in Nat \ {0}

VARIABLES n, write, read, size, storage, memory, live, phase,
          wpc, warg, wres, rpc, pointer, observed, unseen, untold, races,
          ppc,      \* where the producer thread is
          i,        \* the number it writes
          mpc,      \* where the main thread is
          printed   \* its output

ringVars   == << n, write, read, size, storage, memory, live, phase,
                 wpc, warg, wres, rpc, pointer, observed >>
clientVars == << ppc, i, mpc, printed >>
hbVars     == << unseen, untold, races >>
vars       == << ringVars, clientVars, hbVars >>

Fifo == INSTANCE PointerFifoOrder WITH
          Sizes <- {Size}, Pointers <- 1 .. Last, Observers <- {},
          Threads <- { "producer", "main" }

ASSUME FifoAssumption ==
  Fifo!WidthAssumption /\ Fifo!SizesAssumption /\ Fifo!PointerAssumption

Init ==
  /\ Fifo!OrderedInit
  /\ ppc = "none" /\ i = 1
  /\ mpc = "init" /\ printed = << >>

-----------------------------------------------------------------------------
(* The producer thread.                                                    *)

TryWrite ==
  /\ ppc = "loop"
  /\ Fifo!CallWrite(i)
  /\ ppc' = "writing"
  /\ UNCHANGED << i, mpc, printed, hbVars >>

InWrite == wpc # "return" /\ Fifo!WriteBy("producer") /\ UNCHANGED clientVars

(* A full fifo: try the same number again.                                 *)
WriteReturned ==
  /\ Fifo!WriteReturn
  /\ \/ /\ wres = Fifo!FifoFull
        /\ ppc' = "loop" /\ UNCHANGED i
     \/ /\ wres # Fifo!FifoFull
        /\ IF i = Last THEN ppc' = "quit" /\ UNCHANGED i
                       ELSE ppc' = "loop" /\ i' = i + 1
  /\ UNCHANGED << mpc, printed, hbVars >>

-----------------------------------------------------------------------------
(* The main thread.                                                        *)

MainInit ==
  /\ mpc = "init"
  /\ Fifo!InitBy("main", Size)
  /\ mpc' = "create"
  /\ UNCHANGED << ppc, i, printed >>

CreateThread ==
  /\ mpc = "create" /\ phase # "aborted"
  /\ Fifo!HB!Follow("producer", "main")
  /\ ppc' = "loop"
  /\ mpc' = "loop"
  /\ UNCHANGED << ringVars, i, printed >>

TryRead ==
  /\ mpc = "loop"
  /\ Fifo!CallRead
  /\ mpc' = "reading"
  /\ UNCHANGED << ppc, i, printed, hbVars >>

InRead == rpc # "return" /\ Fifo!ReadBy("main") /\ UNCHANGED clientVars

\* Faulty variant: the loop ends one number too early.
ReadReturned_EndsEarly ==
  /\ Fifo!ReadReturn
  /\ IF pointer = NULL
     THEN mpc' = "loop" /\ UNCHANGED printed
     ELSE /\ printed' = Append(printed, pointer)
          /\ mpc' = IF pointer = Last - 1 THEN "done" ELSE "loop"
  /\ UNCHANGED << ppc, i, hbVars >>

ReadReturned ==
  /\ Fifo!ReadReturn
  /\ IF pointer = NULL
     THEN mpc' = "loop" /\ UNCHANGED printed
     ELSE /\ printed' = Append(printed, pointer)
          /\ mpc' = IF pointer = Last THEN "done" ELSE "loop"
  /\ UNCHANGED << ppc, i, hbVars >>

MainDone ==
  /\ mpc = "done"
  /\ Fifo!DoneBy("main")
  /\ mpc' = "join"
  /\ UNCHANGED << ppc, i, printed >>

Join ==
  /\ mpc = "join" /\ ppc = "quit"
  /\ Fifo!HB!Follow("main", "producer")
  /\ mpc' = "end"
  /\ UNCHANGED << ringVars, ppc, i, printed >>

-----------------------------------------------------------------------------
Producer == TryWrite \/ InWrite \/ WriteReturned

Main ==
  \/ MainInit \/ CreateThread
  \/ TryRead \/ InRead \/ ReadReturned
  \/ MainDone \/ Join

Ended == (mpc = "end" \/ phase = "aborted") /\ UNCHANGED vars

Next == Producer \/ Main \/ Ended

Spec == Init /\ [][Next]_vars

(* No thread sleeps for ever: rand() keeps returning numbers that make it  *)
(* call the fifo.                                                          *)
FairSpec == Spec /\ WF_vars(Producer) /\ WF_vars(Main)

-----------------------------------------------------------------------------
(* Properties.                                                             *)

(* Once done has freed the storage no thread is at a step of _write or     *)
(* _read that touches the fifo, although the producer is not yet joined:   *)
(* the increment that lets the last number be read is its last access.     *)
QuietAfterDone ==
  phase = "done" =>
    /\ wpc \in { "idle", "return" } /\ rpc = "idle"
    /\ ppc = "writing" => wres = Fifo!Stored /\ i = Last
    /\ ppc # "loop"

(* Freeing the storage, and clearing the pointer to it, races with no      *)
(* access of the producer, that nothing but the fifo itself orders before. *)
FreesAfterUse == races = {}

(* The output of the main thread is 1, 2, 3 .. whatever the schedule, and  *)
(* nothing beyond what the producer has begun to write.                    *)
PrintsInOrder ==
  /\ \A k \in 1 .. Len(printed) : printed[k] = k
  /\ Len(printed) <= i

(* Unless there is no memory, all numbers are printed and both threads     *)
(* end.                                                                    *)
PrintsAll == <>(phase = "aborted" \/ (mpc = "end" /\ Len(printed) = Last))

(* The contract in README.md: done is only called after both threads have  *)
(* stopped using the fifo.                                                 *)
DoneAfterStop == phase = "done" => ppc = "quit"

=============================================================================
