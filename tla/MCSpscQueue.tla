---------------------------- MODULE MCSpscQueue ----------------------------
(***************************************************************************)
(* A small instance of SpscQueue: two consumers, two slots, two items.     *)
(* The proofs cover any number of threads, slots and items.                *)
(***************************************************************************)
EXTENDS SpscQueue
=============================================================================
