--------------------------- MODULE MCCreateProcess ---------------------------
(* Radix 5: 125 pages, the upper three fifths of them the kernel's. *)
EXTENDS CreateProcess

\* Blocks of four pages, the last block first: the order in which
\* kalloc_order splits the blocks init_memory has listed.
MCHeapOrder ==
  [i \in 1..(FreeRamEnd - FreeRam - 2) |->
     LET k == i - 1 IN FreeRamEnd - 4 * ((k \div 4) + 1) + (k % 4)]

\* A page and part of another; two whole pages.
MCImageSizes == <<7, 10>>
=============================================================================
