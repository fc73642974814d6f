--------------------------- MODULE BuddyAllocator ---------------------------
(***************************************************************************)
(* The kernel's page allocator, klib/stdlib.c: init_memory, kalloc,        *)
(* kalloc_order, kfree_order, kfree_size.                                  *)
(*                                                                         *)
(* Addresses are page numbers (the code's addresses are all multiples of   *)
(* PAGE_SIZE); NULL is page 0. A free list is the sequence of the blocks   *)
(* reached from free_lists[order] through the next pointers.               *)
(*                                                                         *)
(* The kernel runs on one hart and never takes an interrupt while it is in *)
(* the allocator, so calls do not interleave; each iteration of the code's *)
(* loops is one step, and pc keeps a new call from starting before the     *)
(* running one has returned.                                               *)
(***************************************************************************)
EXTENDS Integers, Sequences, FiniteSets

CONSTANTS
  MaxOrder,     \* MAX_ORDER
  BlockPages,   \* BlockPages[o] is the length in pages of a block of order o
  HeapStart,    \* heap_start / PAGE_SIZE
  HeapPages,    \* (heap_end - heap_start) / PAGE_SIZE
  PageSize,     \* PAGE_SIZE
  MaxReq        \* bound: the largest n of kalloc(n) the callers try

Orders == 0..MaxOrder

ASSUME MaxOrderAssumption == MaxOrder \in Nat

\* 1 << order: doubling from 1.
ASSUME BlockPagesAssumption ==
  /\ BlockPages \in [0..(MaxOrder + 1) -> Nat]
  /\ BlockPages[0] = 1
  /\ \A o \in Orders : BlockPages[o + 1] = 2 * BlockPages[o]
  /\ \A o \in 0..(MaxOrder + 1) : BlockPages[o] >= 1

\* The linker script places the heap after the kernel image: its first page
\* is not page 0, and nothing more is known of its alignment.
ASSUME HeapAssumption ==
  /\ HeapStart \in Nat \ {0}
  /\ HeapPages \in Nat
  /\ PageSize \in Nat \ {0}
  /\ MaxReq \in Nat

NULL == 0

HeapEnd == HeapStart + HeapPages

Heap == HeapStart .. (HeapEnd - 1)

VARIABLES
  free_lists,   \* free_lists[o], as a sequence, first block first
  pc,           \* where the running call is; "ready" between calls
  order,        \* the local `order` of the running call
  curr_order,   \* kalloc_order's curr_order
  addr,         \* init_memory's addr, kalloc's page, kfree_order's addr
  total_pages,  \* init_memory's total_pages
  npages,       \* kalloc's n
  live          \* <<page, n>>: what kalloc(n) returned and was not freed yet

vars == <<free_lists, pc, order, curr_order, addr, total_pages, npages, live>>

-----------------------------------------------------------------------------
(* Helpers.                                                                *)

\* Slip: the largest order that is not longer than the request.
order_for_pages_down(pages) ==
  CHOOSE o \in 0..(MaxOrder + 1) :
    /\ BlockPages[o] * 2 > pages \/ o = MaxOrder + 1
    /\ \A k \in 0..(MaxOrder + 1) : k < o => BlockPages[k] * 2 <= pages

\* The smallest order whose blocks hold that many pages, MAX_ORDER + 1 when
\* there is none.
order_for_pages(pages) ==
  CHOOSE o \in 0..(MaxOrder + 1) :
    /\ BlockPages[o] >= pages \/ o = MaxOrder + 1
    /\ \A k \in 0..(MaxOrder + 1) : k < o => BlockPages[k] < pages

\* addr ^ block_size: the bit of weight block_size is flipped.
buddy_addr(a, o) ==
  IF (a \div BlockPages[o]) % 2 = 0 THEN a + BlockPages[o] ELSE a - BlockPages[o]

\* block->next = free_lists[o]; free_lists[o] = block
Push(lists, o, block) == [lists EXCEPT ![o] = <<block>> \o @]

\* free_lists[o] = free_lists[o]->next
Pop(lists, o) == [lists EXCEPT ![o] = Tail(@)]

\* Unlink the i-th block of a list.
Unlink(s, i) == [j \in 1..(Len(s) - 1) |-> IF j < i THEN s[j] ELSE s[j + 1]]

\* The running call returns and its locals are gone.
Return ==
  /\ pc' = "ready"
  /\ order' = 0
  /\ curr_order' = 0
  /\ addr' = NULL
  /\ npages' = 0

-----------------------------------------------------------------------------
(* The specification starts where init_memory starts, the free lists empty *)
(* (.bss is cleared by boot/entry.s).                                      *)

Init ==
  /\ free_lists = [o \in Orders |-> << >>]
  /\ pc = "init"
  /\ order = MaxOrder
  /\ addr = HeapStart
  /\ total_pages = HeapPages
  /\ curr_order = 0
  /\ npages = 0
  /\ live = {}

\* Greedy initialization: one more block of the current order.
InitBlock ==
  /\ pc = "init"
  /\ total_pages >= BlockPages[order]
  /\ free_lists' = Push(free_lists, order, addr)
  /\ addr' = addr + BlockPages[order]
  /\ total_pages' = total_pages - BlockPages[order]
  /\ UNCHANGED <<pc, order, curr_order, npages, live>>

\* Slip: the loop over the orders does not stop after order 0.
InitNextOrderPastZero ==
  /\ pc = "init"
  /\ order = 0 \/ total_pages < BlockPages[order]
  /\ order' = order - 1
  /\ UNCHANGED <<free_lists, pc, curr_order, addr, total_pages, npages, live>>

\* Greedy initialization: on to the next smaller order, or done after 0.
InitNextOrder ==
  /\ pc = "init"
  /\ total_pages < BlockPages[order]
  /\ \/ /\ order > 0
        /\ order' = order - 1
        /\ UNCHANGED <<pc, curr_order, addr, npages>>
     \/ order = 0 /\ Return
  /\ UNCHANGED <<free_lists, total_pages, live>>

\* Slip: only the list of the order wanted is looked at.
KallocNoneOneList(n) ==
  /\ pc = "ready"
  /\ LET o == order_for_pages(n) IN
       /\ o \in Orders => free_lists[o] = << >>
       /\ order' = o
  /\ addr' = NULL
  /\ npages' = n
  /\ pc' = "memset"
  /\ UNCHANGED <<free_lists, curr_order, total_pages, live>>

\* kalloc(n) enters kalloc_order: no block is large enough, result NULL.
KallocNone(n) ==
  /\ pc = "ready"
  /\ LET o == order_for_pages(n) IN
       /\ \A k \in Orders : k >= o => free_lists[k] = << >>
       /\ order' = o
  /\ addr' = NULL
  /\ npages' = n
  /\ pc' = "memset"
  /\ UNCHANGED <<free_lists, curr_order, total_pages, live>>

\* kalloc(n) enters kalloc_order: curr_order is the smallest order, from the
\* one wanted up, whose list is not empty.
KallocFind(n) ==
  /\ pc = "ready"
  /\ LET o == order_for_pages(n) IN
       \E c \in Orders :
         /\ c >= o
         /\ free_lists[c] # << >>
         /\ \A k \in Orders : k >= o /\ k < c => free_lists[k] = << >>
         /\ order' = o
         /\ curr_order' = c
  /\ npages' = n
  /\ pc' = "split"
  /\ UNCHANGED <<free_lists, addr, total_pages, live>>

\* Slip: the second half of the block is not linked.
SplitDropsHalf ==
  /\ pc = "split"
  /\ curr_order > order
  /\ free_lists' = Push(Pop(free_lists, curr_order), curr_order - 1,
                        Head(free_lists[curr_order]))
  /\ curr_order' = curr_order - 1
  /\ UNCHANGED <<pc, order, addr, total_pages, npages, live>>

\* One iteration of "Split down to desired order".
Split ==
  /\ pc = "split"
  /\ curr_order > order
  /\ LET block == Head(free_lists[curr_order])
         buddy2 == block + BlockPages[curr_order - 1]
         popped == Pop(free_lists, curr_order)
     IN  free_lists' = Push(Push(popped, curr_order - 1, buddy2),
                            curr_order - 1, block)
  /\ curr_order' = curr_order - 1
  /\ UNCHANGED <<pc, order, addr, total_pages, npages, live>>

\* "Allocate from desired order": kalloc_order returns the first block.
Take ==
  /\ pc = "split"
  /\ curr_order = order
  /\ addr' = Head(free_lists[order])
  /\ free_lists' = Pop(free_lists, order)
  /\ pc' = "memset"
  /\ UNCHANGED <<order, curr_order, total_pages, npages, live>>

\* memset(page, 0, PAGE_SIZE * n) and kalloc returns. (With n = 0 nothing is
\* written, and NULL does reach the caller.)
KallocReturn ==
  /\ pc = "memset"
  /\ addr # NULL \/ npages = 0
  /\ live' = IF addr = NULL THEN live ELSE live \cup {<<addr, npages>>}
  /\ Return
  /\ UNCHANGED <<free_lists, total_pages>>

\* memset(NULL, 0, PAGE_SIZE * n): page 0 is not memory on this board, the
\* store traps and the trap handler panics.
MemsetFault ==
  /\ pc = "memset"
  /\ addr = NULL /\ npages > 0
  /\ pc' = "fault"
  /\ UNCHANGED <<free_lists, order, curr_order, addr, total_pages, npages, live>>

\* kfree_order(ptr, o) starts merging; o > MAX_ORDER returns at once.
kfree_order(b, o) ==
  /\ pc = "ready"
  /\ o <= MaxOrder
  /\ live' = live \ {b}
  /\ addr' = b[1]
  /\ order' = o
  /\ pc' = "merge"
  /\ UNCHANGED <<free_lists, curr_order, total_pages, npages>>

\* A caller that remembers the order of what it allocated.
KfreeOrder(b) == kfree_order(b, order_for_pages(b[2]))

\* A caller that remembers the size in bytes: the order is computed anew.
KfreeSize(b, bytes) ==
  kfree_order(b, order_for_pages((bytes + PageSize - 1) \div PageSize))

\* Slip: the buddy stays on its list.
MergeKeepsBuddy ==
  /\ pc = "merge"
  /\ order < MaxOrder
  /\ LET buddy == buddy_addr(addr, order) IN
       /\ \E i \in 1..Len(free_lists[order]) : free_lists[order][i] = buddy
       /\ addr' = IF addr < buddy THEN addr ELSE buddy
  /\ order' = order + 1
  /\ UNCHANGED <<free_lists, pc, curr_order, total_pages, npages, live>>

\* Slip: the loop is tried again without unlinking or going up an order.
MergeSpins ==
  /\ pc = "merge"
  /\ order < MaxOrder
  /\ \E i \in 1..Len(free_lists[order]) : free_lists[order][i] = buddy_addr(addr, order)
  /\ UNCHANGED vars

\* One iteration of kfree_order's loop that finds the buddy in the list.
Merge ==
  /\ pc = "merge"
  /\ order < MaxOrder
  /\ LET buddy == buddy_addr(addr, order)
         list  == free_lists[order]
     IN  \E i \in 1..Len(list) :
           /\ list[i] = buddy
           /\ \A j \in 1..(i - 1) : list[j] # buddy
           /\ free_lists' = [free_lists EXCEPT ![order] = Unlink(list, i)]
           /\ addr' = IF addr < buddy THEN addr ELSE buddy
  /\ order' = order + 1
  /\ UNCHANGED <<pc, curr_order, total_pages, npages, live>>

\* Slip: a block is linked although its buddy is free.
InsertWithoutSearch ==
  /\ pc = "merge"
  /\ free_lists' = Push(free_lists, order, addr)
  /\ Return
  /\ UNCHANGED <<total_pages, live>>

\* The loop ends; "Insert merged block".
Insert ==
  /\ pc = "merge"
  /\ order < MaxOrder =>
       \A i \in 1..Len(free_lists[order]) :
         free_lists[order][i] # buddy_addr(addr, order)
  /\ free_lists' = Push(free_lists, order, addr)
  /\ Return
  /\ UNCHANGED <<total_pages, live>>

\* PANIC's while (1) {}.
Panicked == pc = "fault" /\ UNCHANGED vars

\* The sizes in bytes a caller that asked for n pages may pass to kfree_size.
BytesOf(n) == IF n = 0 THEN {0} ELSE ((n - 1) * PageSize + 1) .. (n * PageSize)

Call ==
  \/ \E n \in 0..MaxReq : KallocNone(n) \/ KallocFind(n)
  \/ \E b \in live : KfreeOrder(b)
  \/ \E b \in live : \E bytes \in BytesOf(b[2]) : KfreeSize(b, bytes)

Step ==
  \/ InitBlock \/ InitNextOrder
  \/ Split \/ Take \/ KallocReturn \/ MemsetFault
  \/ Merge \/ Insert

Next == Call \/ Step \/ Panicked

\* Straight-line kernel code keeps executing; callers need not call.
Spec == Init /\ [][Next]_vars /\ WF_vars(Step)

-----------------------------------------------------------------------------
(* Properties.                                                             *)

\* A block is a pair <<first page, order>>.
PagesOf(x) == x[1] .. (x[1] + BlockPages[x[2]] - 1)

\* Two blocks have no page in common.
Apart(x, y) ==
  \/ x[1] + BlockPages[x[2]] <= y[1]
  \/ y[1] + BlockPages[y[2]] <= x[1]

\* The block lies in the heap.
Inside(x) == HeapStart <= x[1] /\ x[1] + BlockPages[x[2]] <= HeapEnd

\* The blocks on the free lists.
Listed(lists) ==
  UNION {{<<lists[o][i], o>> : i \in 1..Len(lists[o])} : o \in Orders}

\* The block behind a caller's pointer.
BlockOf(b) == <<b[1], order_for_pages(b[2])>>

FreeBlocks == Listed(free_lists)

LiveBlocks == {BlockOf(b) : b \in live}

\* The block the running call has taken off its list or from its caller.
HandBlocks ==
  IF pc = "merge" \/ (pc = "memset" /\ addr # NULL) THEN {<<addr, order>>} ELSE {}

Blocks == FreeBlocks \cup LiveBlocks \cup HandBlocks

TypeOK ==
  /\ free_lists \in [Orders -> Seq(Nat)]
  /\ pc \in {"init", "ready", "split", "merge", "memset", "fault"}
  /\ order \in 0..(MaxOrder + 1)
  /\ curr_order \in Orders
  /\ addr \in Nat
  /\ total_pages \in Nat
  /\ npages \in 0..MaxReq
  /\ live \subseteq (Nat \X (0..MaxReq))

\* No block is on its list twice.
ListedOnce(lists) ==
  \A o \in Orders : \A i, j \in 1..Len(lists[o]) :
    lists[o][i] = lists[o][j] => i = j

\* A block is free, or a caller's, or in the hand of the running call.
OneOwner ==
  /\ FreeBlocks \cap LiveBlocks = {}
  /\ FreeBlocks \cap HandBlocks = {}
  /\ LiveBlocks \cap HandBlocks = {}
  /\ \A b, c \in live : b[1] = c[1] => b = c

\* No page is handed out twice, listed twice, or both: whatever the sequence
\* of kalloc, kfree_order and kfree_size calls, and in the middle of each.
NoSharedPage ==
  /\ ListedOnce(free_lists)
  /\ OneOwner
  /\ \A x \in Blocks : Inside(x)
  /\ \A x, y \in Blocks : x # y => Apart(x, y)

\* No page of the heap is ever lost, neither by the greedy initialization
\* nor by splitting, merging or rounding a request up to an order: it is in
\* some block, or init_memory has still to reach it.
NoLeak ==
  \A p \in Heap :
    \/ \E x \in Blocks : p \in PagesOf(x)
    \/ pc = "init" /\ p >= addr

\* What the code relies on at each point of a call: init_memory has linked
\* the heap up to addr, kalloc_order's search has stopped at a list that is
\* not empty, or has found none, and the order is that of the request.
CallState ==
  /\ \A b \in live : order_for_pages(b[2]) \in Orders
  /\ pc = "init" =>
       /\ order \in Orders
       /\ HeapStart <= addr /\ addr + total_pages = HeapEnd
       /\ \A x \in FreeBlocks : x[1] + BlockPages[x[2]] <= addr
       /\ live = {}
  /\ pc = "split" =>
       /\ order = order_for_pages(npages) /\ order \in Orders
       /\ order <= curr_order
       /\ free_lists[curr_order] # << >>
  /\ pc = "memset" =>
       /\ order = order_for_pages(npages)
       /\ addr # NULL => order \in Orders
       /\ addr = NULL => \A k \in Orders : k >= order => free_lists[k] = << >>
  /\ pc = "merge" => order \in Orders

\* kalloc's memset(page, 0, PAGE_SIZE * n) clears nothing but the block that
\* was just taken: the n pages fit in the block of the order chosen for n.
MemsetInside ==
  pc = "memset" /\ addr # NULL => npages <= BlockPages[order]

\* Between calls no two blocks that buddy_addr pairs are both free: what
\* could be merged has been merged.
NoFreeBuddies ==
  pc = "ready" =>
    \A o \in 0..(MaxOrder - 1) :
      \A i, j \in 1..Len(free_lists[o]) :
        free_lists[o][i] # buddy_addr(free_lists[o][j], o)

\* When everything has been given back, the heap is again in as many blocks
\* of the largest order as init_memory made.
CoalescesBack ==
  pc = "ready" /\ live = {} =>
    Len(free_lists[MaxOrder]) = HeapPages \div BlockPages[MaxOrder]

\* kalloc reports exhaustion to its caller instead of bringing the kernel down.
KallocReportsExhaustion == pc # "fault"

\* Every call returns or panics: the searches and the merge loop end.
CallsEnd == pc \in {"init", "split", "merge", "memset"} ~> pc \in {"ready", "fault"}

-----------------------------------------------------------------------------
(* The allocator implements PageHeap: a caller holds the whole block, and   *)
(* the block stays the caller's until kfree takes it.                      *)

Abs == INSTANCE PageHeap WITH
         Heap       <- Heap,
         MaxPages   <- BlockPages[MaxOrder],
         MaxRequest <- MaxReq,
         held       <- {<<x[1], BlockPages[x[2]]>> : x \in LiveBlocks},
         refused    <- IF pc = "fault" THEN npages ELSE 0

\* The allocator never does what PageHeap does not allow.
ImplementsPageHeap == Abs!Spec
=============================================================================
