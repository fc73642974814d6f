------------------------------ MODULE PageHeap ------------------------------
(***************************************************************************)
(* What the kernel's page allocator (klib/stdlib.c) promises its callers,  *)
(* with no word about free lists, splitting or merging: a caller of kalloc *)
(* gets a run of pages that lie in the heap and that nobody else holds     *)
(* until it gives them back, and a request for a single page is refused    *)
(* only when every page of the heap is held.                               *)
(*                                                                         *)
(* BuddyAllocator is shown to implement this specification.                *)
(***************************************************************************)
EXTENDS Naturals

CONSTANTS
  Heap,       \* the page numbers between __free_ram and __free_ram_end
  MaxPages,   \* the longest run a caller may hold
  MaxRequest  \* bound: the longest run a caller may ask for

VARIABLES
  held,       \* the runs <<first page, number of pages>> callers hold
  refused     \* the length of the request that brought the kernel down, or 0

absVars == <<held, refused>>

Run(b) == b[1] .. (b[1] + b[2] - 1)

\* The pages no caller holds.
Available == Heap \ UNION {Run(b) : b \in held}

Init ==
  /\ held = {}
  /\ refused = 0

\* kalloc: the caller receives a run of available pages.
Allocate ==
  /\ refused = 0
  /\ \E a \in Heap, n \in 1..MaxPages :
       /\ Run(<<a, n>>) \subseteq Available
       /\ held' = held \cup {<<a, n>>}
  /\ UNCHANGED refused

\* kfree_order, kfree_size: the caller gives a run back.
Release ==
  /\ refused = 0
  /\ \E b \in held : held' = held \ {b}
  /\ UNCHANGED refused

\* A request that cannot be met. A longer run may be refused because the
\* available pages are scattered, a single page only when there is none.
Refuse ==
  /\ refused = 0
  /\ \E n \in 1..MaxRequest :
       /\ n = 1 => Available = {}
       /\ refused' = n
  /\ UNCHANGED held

Next == Allocate \/ Release \/ Refuse

Spec == Init /\ [][Next]_absVars
=============================================================================
