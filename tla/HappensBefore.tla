---------------------------- MODULE HappensBefore ----------------------------
(***************************************************************************)
(* The happens-before order of C11 over the steps of some threads, as far  *)
(* as data races go.  Memory that is not atomic may be accessed shared     *)
(* (loads, and what else tolerates other shared accesses) or exclusively   *)
(* (stores); of two accesses of which one is exclusive one has to happen   *)
(* before the other.  Atomic variables are sequentially consistent, as     *)
(* those of mulle-thread since 4.11: what a thread did before a store or a *)
(* read-modify-write happens before what follows a load that sees it.      *)
(*                                                                         *)
(* An access is << location, kind, thread >>; it stands for the last one   *)
(* of that kind, by that thread.                                           *)
(***************************************************************************)
EXTENDS Integers

CONSTANTS
  Threads,   \* the threads
  Atomics    \* the atomic variables

VARIABLES
  unseen,    \* unseen[t]: accesses that do not happen before the next step of t
  untold,    \* untold[l]: accesses that a load of l makes nobody see
  races      \* locations that were accessed in a data race

HBInit ==
  /\ unseen = [t \in Threads |-> {}]
  /\ untold = [l \in Atomics |-> {}]
  /\ races = {}

(* A step of t: it may load the atomics in from, then access memory that   *)
(* is not atomic, then store to the atomics in to.  A read-modify-write    *)
(* has its variable in both.                                               *)
Access(t, from, shared, exclusive, to) ==
  LET before == { a \in unseen[t] : \A l \in from : a \in untold[l] }
      mine   == (shared \X {"shared"} \X {t}) \cup (exclusive \X {"exclusive"} \X {t})
  IN  /\ unseen' = [u \in Threads |-> IF u = t THEN before ELSE unseen[u] \cup mine]
      /\ untold' = [l \in Atomics |-> IF l \in to THEN before ELSE untold[l] \cup mine]
      /\ races' = races
           \cup { a[1] : a \in { b \in before : b[1] \in exclusive } }
           \cup { a[1] : a \in { b \in before : b[1] \in shared /\ b[2] = "exclusive" } }

(* What t does next happens after all that u has done: t is created by u   *)
(* or has joined it.                                                       *)
Follow(t, u) ==
  /\ unseen' = [unseen EXCEPT ![t] = @ \cap unseen[u]]
  /\ UNCHANGED << untold, races >>

=============================================================================
