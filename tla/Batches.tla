------------------------------- MODULE Batches -------------------------------
(***************************************************************************)
(* A client that relies on get_count.  Its result may be stale at once, as *)
(* README.md says, but each of the two threads knows in which direction:   *)
(* the producer finds at least the room it was told of, the consumer at    *)
(* least the pointers.  So the producer writes as many pointers as there   *)
(* was room for, the consumer reads as many as there were, and neither is  *)
(* prepared for -1 or NULL.                                                *)
(*                                                                         *)
(* The pointers are numbered modulo Laps, that numbers them for ever.      *)
(***************************************************************************)
EXTENDS Integers

CONSTANTS Size, UIntMod, UIntPtrMod, NULL, Garbage,
          Laps      \* numbers that are handed over before they repeat

ASSUME LapsAssumption == Laps \in Nat /\ Laps > Size

VARIABLES n, write, read, storage, wpc, warg, wres, rpc, pointer, observed, open,
          room,     \* pointers left to write in the producer's batch
          next,     \* the pointer it writes next
          stored,   \* pointers left to read in the consumer's batch
          expect    \* the pointer it reads next

ringVars   == << n, write, read, storage, wpc, warg, wres, rpc, pointer, observed,
                 open >>
clientVars == << room, next, stored, expect >>
vars       == << ringVars, clientVars >>

Ring == INSTANCE FixedPointerFifo WITH
          Pointers  <- 0 .. Laps - 1,
          Observers <- { "producer", "consumer" }

ASSUME RingAssumption ==
  Ring!SizeAssumption /\ Ring!WidthAssumption /\ Ring!PointerAssumption

Init ==
  /\ Ring!Init
  /\ room = 0 /\ next = 0
  /\ stored = 0 /\ expect = 0

Start == ~ open /\ Ring!InitFifo /\ UNCHANGED clientVars

-----------------------------------------------------------------------------
(* The producer.                                                           *)

LookForRoom ==
  /\ open /\ wpc = "idle" /\ room = 0
  /\ Ring!GetCount("producer")
  /\ room' = Size - observed'["producer"]
  /\ UNCHANGED << next, stored, expect >>

WriteNext ==
  /\ room # 0
  /\ Ring!CallWrite(next)
  /\ UNCHANGED clientVars

InWrite == wpc # "return" /\ Ring!WriteStep /\ UNCHANGED clientVars

WriteReturned ==
  /\ Ring!WriteReturn
  /\ room' = room - 1
  /\ next' = (next + 1) % Laps
  /\ UNCHANGED << stored, expect >>

-----------------------------------------------------------------------------
(* The consumer.                                                           *)

LookForPointers ==
  /\ open /\ rpc = "idle" /\ stored = 0
  /\ Ring!GetCount("consumer")
  /\ stored' = observed'["consumer"]
  /\ UNCHANGED << room, next, expect >>

ReadNext ==
  /\ stored # 0
  /\ Ring!CallRead
  /\ UNCHANGED clientVars

InRead == rpc # "return" /\ Ring!ReadStep /\ UNCHANGED clientVars

ReadReturned ==
  /\ Ring!ReadReturn
  /\ stored' = stored - 1
  /\ expect' = (expect + 1) % Laps
  /\ UNCHANGED << room, next >>

-----------------------------------------------------------------------------
Producer == LookForRoom \/ WriteNext \/ InWrite \/ WriteReturned
Consumer == Start \/ LookForPointers \/ ReadNext \/ InRead \/ ReadReturned

Next == Producer \/ Consumer

Spec == Init /\ [][Next]_vars

FairSpec == Spec /\ WF_vars(Producer) /\ WF_vars(Consumer)

-----------------------------------------------------------------------------
(* Properties.                                                             *)

(* However long ago the producer looked, none of the writes of its batch   *)
(* finds the fifo full, whatever the consumer has done in between.         *)
BatchFits == wpc = "return" => wres = Ring!Stored

(* None of the reads of the consumer's batch finds the fifo empty, and     *)
(* each returns the pointer that is next.                                  *)
BatchComes == rpc = "return" => pointer = expect

(* There is never a time from which on both threads only look.             *)
KeepsFlowing == []<>(rpc = "return")

=============================================================================
