--------------------------- MODULE GeneratedFifos ---------------------------
(***************************************************************************)
(* The fixed fifos as they are delivered: the 64 slot template and the     *)
(* eleven headers that bin/create-fifo-sources generates from it, each the *)
(* model FixedPointerFifo with its own number of slots.  The constants     *)
(* left open are those of the platform and of the client.                  *)
(***************************************************************************)
EXTENDS Integers

CONSTANTS UIntMod, UIntPtrMod, Pointers, NULL, Garbage, Observers

VARIABLES n, write, read, storage, wpc, warg, wres, rpc, pointer, observed, open

Fifo4    == INSTANCE FixedPointerFifoProofs WITH Size <- 4
Fifo8    == INSTANCE FixedPointerFifoProofs WITH Size <- 8
Fifo16   == INSTANCE FixedPointerFifoProofs WITH Size <- 16
Fifo32   == INSTANCE FixedPointerFifoProofs WITH Size <- 32
Fifo64   == INSTANCE FixedPointerFifoProofs WITH Size <- 64
Fifo128  == INSTANCE FixedPointerFifoProofs WITH Size <- 128
Fifo256  == INSTANCE FixedPointerFifoProofs WITH Size <- 256
Fifo512  == INSTANCE FixedPointerFifoProofs WITH Size <- 512
Fifo1024 == INSTANCE FixedPointerFifoProofs WITH Size <- 1024
Fifo2048 == INSTANCE FixedPointerFifoProofs WITH Size <- 2048
Fifo4096 == INSTANCE FixedPointerFifoProofs WITH Size <- 4096
Fifo8192 == INSTANCE FixedPointerFifoProofs WITH Size <- 8192

=============================================================================
