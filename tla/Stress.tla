------------------------------- MODULE Stress -------------------------------
(***************************************************************************)
(* Two threads that hand over items through a fixed fifo, as the stress    *)
(* test does: the producer fills in an item, writes a pointer to it and    *)
(* retries while the fifo is full; the consumer, that is the main thread,  *)
(* retries while it is empty and then looks into the item.  No lock        *)
(* protects the items: whether the consumer may look at what the producer  *)
(* filled in depends on the atomic operations of the fifo alone.           *)
(***************************************************************************)
EXTENDS Integers

CONSTANTS Size, UIntMod, UIntPtrMod, NULL, Garbage,
          NItems     \* number of items to hand over

ASSUME NItemsAssumption == NItems \in Nat \ {0}

VARIABLES n, write, read, storage, wpc, warg, wres, rpc, pointer, observed, open,
          unseen, untold, races,
          ppc,       \* where the producer is
          i,         \* the item it is about
          mpc,       \* where the main thread is
          p,         \* the item the main thread is about
          received, corrupt

ringVars   == << n, write, read, storage, wpc, warg, wres, rpc, pointer, observed,
                 open >>
clientVars == << ppc, i, mpc, p, received, corrupt >>
hbVars     == << unseen, untold, races >>
vars       == << ringVars, clientVars, hbVars >>

Items   == 0 .. NItems - 1
Item(k) == << "item", k >>          \* the memory of item k

Threads == { "producer", "main" }

Ring == INSTANCE FixedFifoOrder WITH Pointers <- Items, Observers <- {}

ASSUME RingAssumption ==
  Ring!SizeAssumption /\ Ring!WidthAssumption /\ Ring!PointerAssumption

Init ==
  /\ Ring!OrderedInit
  /\ ppc = "created" /\ i = 0
  /\ mpc = "init" /\ p = NULL /\ received = 0 /\ corrupt = 0

-----------------------------------------------------------------------------
(* The producer thread.  A pointer to an item is never NULL.               *)

FillItem ==
  /\ ppc = "fill"
  /\ Ring!HB!Access("producer", {}, {}, {Item(i)}, {})
  /\ ppc' = "write"
  /\ UNCHANGED << ringVars, i, mpc, p, received, corrupt >>

TryWrite ==
  /\ ppc = "write"
  /\ Ring!CallWrite(i)
  /\ ppc' = "writing"
  /\ UNCHANGED << i, mpc, p, received, corrupt, hbVars >>

InWrite == wpc # "return" /\ Ring!WriteBy("producer") /\ UNCHANGED clientVars

NextItem ==
  /\ i' = i + 1
  /\ ppc' = IF i + 1 < NItems THEN "fill" ELSE "exit"

\* Faulty variant: the item that did not fit is dropped.
WriteReturned_Drops ==
  /\ Ring!WriteReturn
  /\ NextItem
  /\ UNCHANGED << mpc, p, received, corrupt, hbVars >>

WriteReturned ==
  /\ Ring!WriteReturn
  /\ IF wres = Ring!FifoFull THEN ppc' = "write" /\ UNCHANGED i ELSE NextItem
  /\ UNCHANGED << mpc, p, received, corrupt, hbVars >>

-----------------------------------------------------------------------------
(* The main thread.                                                        *)

MainInit ==
  /\ mpc = "init"
  /\ Ring!InitBy("main")
  /\ mpc' = "create"
  /\ UNCHANGED << ppc, i, p, received, corrupt >>

CreateThread ==
  /\ mpc = "create"
  /\ Ring!HB!Follow("producer", "main")
  /\ ppc' = "fill"
  /\ mpc' = "read"
  /\ UNCHANGED << ringVars, i, p, received, corrupt >>

TryRead ==
  /\ mpc = "read"
  /\ Ring!CallRead
  /\ mpc' = "reading"
  /\ UNCHANGED << ppc, i, p, received, corrupt, hbVars >>

InRead == rpc # "return" /\ Ring!ReadBy("main") /\ UNCHANGED clientVars

ReadReturned ==
  /\ Ring!ReadReturn
  /\ p' = pointer
  /\ mpc' = IF pointer = NULL THEN "read" ELSE "examine"
  /\ UNCHANGED << ppc, i, received, corrupt, hbVars >>

(* What was filled in may not be visible yet if nothing orders it before.  *)
(* expect always equals received; an item that fails any of the four       *)
(* checks is counted once.                                                 *)
MaybeStale == \E a \in unseen["main"] : a[1] = Item(p) /\ a[2] = "exclusive"

Examine ==
  /\ mpc = "examine"
  /\ Ring!HB!Access("main", {}, {Item(p)}, {}, {})
  /\ \E sequence \in IF MaybeStale THEN {p, Garbage} ELSE {p} :
       corrupt' = IF sequence = received THEN corrupt ELSE corrupt + 1
  /\ received' = received + 1
  /\ mpc' = IF received + 1 < NItems THEN "read" ELSE "join"
  /\ UNCHANGED << ringVars, ppc, i, p >>

Join ==
  /\ mpc = "join" /\ ppc = "exit"
  /\ Ring!HB!Follow("main", "producer")
  /\ mpc' = "done"
  /\ UNCHANGED << ringVars, ppc, i, p, received, corrupt >>

MainDone ==
  /\ mpc = "done"
  /\ Ring!DoneFifo
  /\ mpc' = "end"
  /\ UNCHANGED << ppc, i, p, received, corrupt, hbVars >>

-----------------------------------------------------------------------------
Producer == FillItem \/ TryWrite \/ InWrite \/ WriteReturned

Main ==
  \/ MainInit \/ CreateThread
  \/ TryRead \/ InRead \/ ReadReturned \/ Examine
  \/ Join \/ MainDone

Ended == mpc = "end" /\ UNCHANGED vars

Next == Producer \/ Main \/ Ended

Spec == Init /\ [][Next]_vars

(* The operating system runs both threads: neither is starved while it     *)
(* spins on a full or an empty fifo.                                       *)
FairSpec == Spec /\ WF_vars(Producer) /\ WF_vars(Main)

-----------------------------------------------------------------------------
(* Properties.                                                             *)

(* No access to an item or to a field of the fifo races with another: the  *)
(* plain write and read publish the contents of the items.                 *)
PayloadVisible == races = {}

(* What the test counts: every item arrives once, complete and in order.   *)
NothingCorrupt == corrupt = 0

(* No item is lost or doubled while it is handed over: those whose write   *)
(* took effect are examined, in the fifo, or in the hands of the consumer. *)
Written == i + (IF wpc = "return" /\ wres = Ring!Stored THEN 1 ELSE 0)
InHand  == IF mpc = "examine" \/ (rpc = "return" /\ pointer # NULL) THEN 1 ELSE 0
NoneLost == mpc # "init" => Written = received + n + InHand

(* The retry loops of both threads end, the producer is joined.            *)
Terminates == <>(mpc = "end")

(* What README.md says of the fifos: no operation of theirs publishes the  *)
(* contents of an item to the consumer.                                    *)
Unpublished   == { a \in unseen["main"] : \E k \in Items : a[1] = Item(k) }
NoPublication == [][mpc = "reading" => Unpublished \subseteq unseen'["main"]]_vars

=============================================================================
