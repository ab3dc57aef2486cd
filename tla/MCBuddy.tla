------------------------------ MODULE MCBuddy ------------------------------
(***************************************************************************)
(* BuddyAllocator on a range of a few frames.                              *)
(***************************************************************************)
EXTENDS BuddyAllocator

MCSize == [k \in Orders |-> 2 ^ k]
=============================================================================
