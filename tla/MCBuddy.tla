------------------------------- MODULE MCBuddy -------------------------------
(* BuddyAllocator on small heaps. *)
EXTENDS BuddyAllocator

\* 1 << order
MCBlockPages == [o \in 0..(MaxOrder + 1) |-> 2^o]
=============================================================================
