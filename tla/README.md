# Verification of the Oppo-OS kernel in TLA+

Oppo-OS is a small RISC-V kernel: one hart, a buddy allocator, Sv39 page
tables, a cooperative round-robin scheduler, system calls by `ecall`, and
virtio drivers, with a shell as its one program. This directory models the kernel,
its drivers and library and the shell, model-checks them with TLC, and proves with
TLAPS, for every size, the safety of the allocator, of the scheduler with its
traps, and of the block and gpu driver.

## The system

| component | state | operations | interacts with |
|---|---|---|---|
| page allocator (`klib/stdlib.c`) | `free_lists` per order | `init_memory`, `kalloc`, `kalloc_order`, `kfree_order`, `kfree_size` | called by paging, processes, drivers |
| paging (`arch/paging.c`) | three-level tables in allocated pages | `map_page`, `vaddr_to_paddr` | allocator; the processor walks the tables |
| processes (`kernel/schedule/proc.c`) | `procs`, `current_proc`, kernel stacks, `satp`, `sscratch` | `init_proc`, `create_process`, `yield`, `switch_context`, `proc_exit` | paging, traps |
| traps (`arch/trap.c`) | trap frames, `sepc`, `sscratch` | `kernel_trap_context_save`, `handle_trap` | system calls, user programs |
| system calls (`kernel/syscall.c`) | the trap frame's `a0` | `syscall_entry` | scheduler, console, `vaddr_to_paddr` |
| kernel main (`kernel/kernel.c`) | - | `kmain` | all of the above |
| virtqueue (`drivers/virtio/virtio.c`) | descriptors, rings, `last_used_index` | `virtq_init`, `virtq_kick`, `virtq_is_busy` | block and gpu driver, device |
| block driver (`drivers/virtio/virtio_blkio.c`) | one request block | `virtio_blk_init`, `read_write_disk` | virtqueue, device |
| gpu driver (`drivers/virtio/virtio_gpu.c`) | framebuffer, three descriptors, the animation's position | `virtio_gpu_init`, `bounce`, `clear_screen`, `draw_rect`, `flush` | virtqueue, device |
| shell (`user/shell/shell.c`) and user library (`user/libc`) | `cmdline`, `i` | `main`; `printf`, `putc`, `getc`, `exit`, `syscall` | system calls |
| kernel library (`klib/stdio.c`, `klib/string.c`) | console, the caller's buffer, `save_ptr` | `utoa`, `vprintf`, `vsnprintf`; `strcpy`, `strncpy`, `strcat`, `strchr`, `strtok_r` | everything that prints |
| file systems, device manager, uart, rtc, SBI wrappers | none, or empty bodies | | |

What is hard about it:

* Supervisor code is never interrupted, so kernel code does not race with
  itself. What interleaves is whole system calls: `SYS_GETC` yields in the
  middle of a trap, so several processes have open trap, call and switch
  frames at a time, and `sepc`, `sscratch` and `satp` are single registers they
  share.
* The allocator mutates lists through splits and merges whose correctness
  depends on arithmetic on absolute addresses and on the caller's memory of
  the size it asked for.
* Page tables, user pages and everything else come from one heap that every
  address space maps.
* The device works on its own time, sees the driver's stores late, and may fail.
* The shell's line, the words of `strtok_r` and the text of `vsnprintf` live in
  buffers that keep what was there before, and are filled by loops with a limit,
  or without one.

The correctness properties, by component: no page is shared, lost or cleared by
mistake, and freed pages become usable again (allocator); a mapping changes one
page of one space and both walks agree (paging); programs cannot reach each
other, and the kernel survives the switch of `satp` (processes); a program is
resumed exactly as it trapped, and every runnable program gets its turn
(scheduler, traps); a disk call takes effect once and returns (block driver);
the display shows whole frames (gpu driver); every line typed gets its own echo and
answer (shell); what is printed, stored and split is what the arguments say
(library).
`PROJECT.json` lists the hazards line by line with the property that would
catch each.

## Modules

| module | models | checked by |
|---|---|---|
| `PageHeap` | what the allocator promises | - (abstract) |
| `BuddyAllocator`, `MCBuddy` | `klib/stdlib.c` 1-154 | `buddy_*` |
| `BuddyProofs` | proofs about `BuddyAllocator` | TLAPS |
| `Kernel`, `MCKernel` | `proc.c`, `trap.c`, `syscall.c`, `kmain` | `kernel` |
| `KernelProofs` | proofs about `Kernel` | TLAPS |
| `Shell`, `MCShell` | `shell.c` and the user library it calls, on `Kernel` | `shell` |
| `ShellProofs` | proofs about `Shell` | TLAPS |
| `Format` | `klib/stdio.c` | `klib` |
| `Strings` | `klib/string.c` | `klib` |
| `MCKlib` | calls of `Format` or of `Strings` | `klib` |
| `PageWalk` | `map_page`, `vaddr_to_paddr` as operators; the Sv39 walk | - |
| `AddressSpace` | what page tables promise | - (abstract) |
| `PageTable`, `MCPageTable` | sequences of `map_page` calls | `page_table` |
| `CreateProcess`, `MCCreateProcess` | page table loops of `create_process`, user stores | `create_process` |
| `WalkProofs` | lemmas about `PageWalk` | TLAPS |
| `PageProofs` | proofs about `PageTable` | TLAPS |
| `ProcessProofs` | proofs about `CreateProcess` | TLAPS |
| `AtomicDisk` | what `read_write_disk` promises | - (abstract) |
| `VirtioBlk` | `virtio_blkio.c`, `virtio.c` and the device | `virtio_blk*` |
| `BlkProofs` | proofs about `VirtioBlk` | TLAPS |
| `VirtioGpu` | `virtio_gpu.c`, `virtio.c` and the device | `virtio_gpu` |
| `GpuProofs` | proofs about `VirtioGpu` | TLAPS |

`Shell` extends `Kernel`: its steps are what a program computes between two traps,
and every character it reads or prints is a trap of `Kernel`. `PageTable` and
`CreateProcess` compose `PageWalk` with the allocator, reduced
to the order in which `kalloc(1)` hands out pages. `Kernel` names a page table by
the slot it was made for; `CreateProcess` shows what such a table contains.
A definition whose comment starts with "Slip" is a plausible mistake in the
definition that follows it. It is not used by any specification: it is there to
show that the properties notice it.

### BuddyAllocator

Addresses are page numbers, `NULL` is page 0. A free list is the sequence of its
blocks. `pc` says where the running call is; one iteration of a loop of the code
is one action:

| code | actions |
|---|---|
| `init_memory`, the greedy loops | `InitBlock`, `InitNextOrder` |
| `kalloc` / `kalloc_order`: search | `KallocFind`, `KallocNone` |
| split loop, "Allocate from desired order" | `Split`, `Take` |
| `memset` and return | `KallocReturn`, `MemsetFault` |
| `kfree_order`, `kfree_size` | `KfreeOrder`, `KfreeSize`, then `Merge`\*, `Insert` |

`live` records what callers hold: a caller passes to `kfree_order` the order of
what it asked for, or to `kfree_size` any size in bytes that fills the same number
of pages. `MemsetFault` is the store through NULL: page 0 is not memory on this
board, so the store traps and `handle_trap` panics.

### Kernel

A kernel stack is a sequence of frames, a stack pointer `<<stack, depth>>`.
Memory above a popped frame keeps its contents, so a stale pointer finds stale
frames, as on the machine. Registers are abstracted to the program counter, `a0`
(written by the kernel), `a3` (read by it) and "the rest". User programs compute
anything and then trap with one of the contexts of `Traps`. What the kernel does between two points where something
else can happen is one action; the poll of the console and the `yield` after it
are two, because a key may be pressed between them. `owed` and `passed` are
history variables for the properties.

### Shell

The variables of `main`, where it is (`at`), and the characters a `printf` has still
to pass to `putc` (`printing`). Each `putc` and `getc` is an `Ecall` of `Kernel`
followed by the kernel's own steps, `SYS_GETC`'s waits and yields included. A
character is its code; the texts of the shell are short sequences of codes, their
newlines added where the code has them. `cmdline` starts with whatever the stack
holds and is never cleared; the byte behind it is part of the model. `keyed` and
`shown` record what the kernel took from the console and printed on it since the
last prompt: `ShellAnswers` compares the two.

### Format and Strings

`Format` runs `vprintf` or `vsnprintf`, one turn of the loop per step, with `va_arg`
returning any value of the type the code names (`%x` is 64 bits wide in one and 32
in the other). `PrintsFormat` and `StoresInPlace` compare with `Rendering`, which
finds the directives by counting % signs and the digits by their positional value,
not by the loops of the code. `Strings` is a caller that builds a text in a buffer
that held another one, and splits it with `strtok_r` while a second `strtok_r` with
other delimiters splits the words; `Words` is the reference.

### PageWalk, PageTable, CreateProcess

Addresses count words; a page has `Radix` words and a table `Radix` entries (512 in
the code). Page table entries are records of page number and flags; `PPN_MASK`,
applied after the shift by 10, is `PpnLimit`. Heap pages hold words that look like
valid entries until `kalloc` clears them. In `PageTable` the history variable `call` is
what the last `map_page` was asked for (`Asked`): `AddressSpace` lets a call map exactly
that page of that space to exactly that target and flags (`MapOne`), or stop the kernel
with nothing changed, and then only because `map_page` refuses the arguments or `kalloc`
has no page (`Stop`). `CreateProcess` runs the three loops of
`create_process` page by page for the idle process and the programs, then lets
user code store wherever its own table permits.

### VirtioBlk

The driver's stores (`vq`, `blk_req`) become visible to the device (`seen`) some
time later: in program order when `InOrder`, else in any order, and before the
barrier in `virtq_kick` is passed. The loads of `status` and `data` come after that of
`used.idx` when `InOrder`; else they may be satisfied at any time after that barrier
(`early`). The device wakes on a notification, takes
entries until the available ring is empty, and may carry out a request or fail it.
Ring indices wrap at `IdxMod` (2^16 in the code).

### VirtioGpu

`pc` is the command or the part of the animation that comes next, `kick` how far
the driver is with a command. `Give` stores the descriptors of a command and runs
`virtq_kick` up to the notification; descriptors that the code does not store keep
what the command before left in them. `KickCount` and `Answered` are the rest of
every command: the increment of `last_used_index`, the busy loop, and the test of
`*resp`, which only prints. `*resp` has any value before the device answers. The
device takes a command, carries it out or refuses it, and counts `used.idx`, in
three steps of its own. The drawing functions are operators on sets of pixels.
`kmain`'s call of `virtio_gpu_init` is commented out at this commit; the module
models the driver as it runs when it is called.

## Runs

| run | result | what it shows |
|---|---|---|
| `buddy_unaligned` | pass | `NoSharedPage`, `NoLeak`, `MemsetInside`, `NoFreeBuddies`, `CallsEnd` and the refinement of `PageHeap`, on 7 pages from page 5 |
| `buddy_aligned` | pass | `CoalescesBack` when the heap starts at a multiple of the largest block |
| `buddy_merge` | violation | `CoalescesBack` fails when the heap is only page aligned |
| `buddy_exhaust` | violation | `kalloc` writes through NULL instead of returning it |
| `kernel` | pass | `ResumeIntact`, `RunsAsItself`, `StackBounded`, `ExitIsFinal`, `HaltsOnlyWhenDone`, `NoOvertaking`, `EveryoneGetsATurn` with up to three programs and a full table |
| `page_table` | pass | `SoftwareWalkAgrees`, `TablesApart`; refinement of `AddressSpace`: each call does what it was asked for, and only that |
| `create_process` | pass | `Isolation`, `KernelEverywhere`, `ImageLoaded`, `CreationEnds` |
| `virtio_blk` | pass | `DeviceSeesCall`, `LeftAloneInFlight`, `CallsReturn`, refinement of `AtomicDisk`, stores in program order |
| `virtio_blk_weak` | violation | with stores out of order the device can repeat an old request |
| `virtio_gpu` | pass | `SquareInside`, `ChainFits`, `NoTearing`, `FlushShowsFrame`, `FramesFinish` |
| `shell` | pass | `ShellAnswers`, `LineInside`, `ShellLives`: the shell on the kernel, any keys at any time |
| `klib` | pass | `PrintsFormat`, `StoresInPlace`, `FindsEveryWord` |

The disagreements are described, with the lines they quote, under "findings" in
`PROJECT.json`. In short: `buddy_addr` xors absolute addresses although the heap is
only page aligned, so split blocks may never be merged again (safe, but memory
fragments for good); `kalloc` clears the page before testing it; `virtq_kick` lacks a barrier before it publishes the
index (harmless where stores stay in program order, as under QEMU on x86).
Divergences that need no run:

* `virtio_blk_init` accepts version 1 only, where `virtio.h:25` asks for 2, and its
  last step overwrites the status register where the comment says that a bit is set.
* `SYS_READ` and `SYS_OPEN` set no result (`SyscallNoResult`): `read()` returns its file
  descriptor, where `oppostd.h:129` promises the number of bytes read.
* `%u` ("Unsigned Integer", `klib/stdio.c:78`) reads an `int` and extends its sign: from
  2^31 on it prints a number near 2^64. `%d` does the same, after its minus sign,
  with the least `int`, which has no negation. `Misprints` names the two cases, and
  the two properties of `Format` leave them out.
* `vsnprintf` stores only the first character of each number and string, writes no
  NUL, never looks at `n`, and prints unknown directives on the console as well. What it
  does store is where it belongs (`StoresInPlace`). It has no caller.
* A format that ends in a lone % makes both functions read on behind its NUL. No
  caller passes one, and `Formats` has none.
* A line of 127 characters would fit `cmdline`, but its carriage return is answered
  with "Command too long!".
* With `InOrder` FALSE, `VirtioBlk` does not implement `AtomicDisk` either: a load of
  `status` that is satisfied early finds the last call's and delivers stale data for a
  request that failed.

### Bounds, and why they are enough

* Allocator: `MaxOrder` 2 and 7 or 8 pages give three orders, splits and merges
  across two levels, several blocks of the largest order, a remainder of every
  size, and requests from 0 to one page more than the largest block. Heap starts
  5 and 8 are an unaligned and an aligned one. The proofs cover every other size.
* Kernel: two and three programs, one pending key, and two calls that differ in every
  register: the kernel copies registers without looking at them, `a3` and `a0`
  excepted, so combinations of the two add nothing. Three programs are needed for overtaking, four images for a full table.
  `NumImages` lets `kmain` create more programs than the one shell it creates
  today.
* Page tables: radix 2 gives eight pages per space and all cases of sharing a
  table on each level; three calls suffice for an existing entry, a shared table
  and an exhausted heap. Radix 5 in `create_process` leaves room for the kernel,
  two devices, and three images: none (the idle process), two pages with the last
  of them partial, and two whole pages.
* Block driver: two sectors, two contents, rings of four entries and indices
  modulo eight, so that ring and index wrap at different times. The number of
  calls is not bounded.
* Gpu driver: a square of 2 on a screen of 4 by 5 has paths of different length
  along the two axes, so that it meets each edge and each combination of
  directions; the indices wrap after four commands. The number of frames is not
  bounded.

* Shell: a line of four places, commands of two letters and of one, four keys (two
  letters, carriage return and NUL), so that lines are empty, known, unknown, a
  prefix or an extension of a command, cut by a NUL, as long as fits, and too long.
  The number of lines is not bounded.
* Library: an `int` of 5 bits and a `uint64_t` of 10 give numbers of one to four digits,
  the ends of both ranges and zero. Formats of four characters hold two directives,
  a directive behind a doubled %, and newlines at either end. Texts of up to eight
  characters over one letter and three delimiters have empty words,
  delimiters at both ends and words of several parts; `strncpy` is called with every
  `n`, over an empty buffer and over a longer string.

### Fairness

`BuddyAllocator`, `CreateProcess` and `Kernel` assume weak fairness of kernel code:
the hart executes it without preemption. Users need not type and programs need
not trap; `EveryoneGetsATurn` is conditional on waits that keep yielding, because
the scheduler is cooperative and a program that never traps keeps the hart.
`VirtioBlk` also assumes that stores become visible and that the device answers
what it was notified of; the driver waits for it without a timeout, so without
that assumption it may wait for ever. `VirtioGpu` assumes the same of its device.
`Shell` assumes that the hart executes the shell and the kernel, and nothing of the
user. `Format` and `Strings` state no liveness.

Deadlock is checked in every run. `PANIC` and the ends of bounded runs are explicit
stuttering actions.

## Proofs

Each theorem is about every value of the constants that satisfies the named
assumption of its module. The inductive invariants were first checked with TLC on the
instances of the runs, but for those of the page tables, which say that a map of the
memory exists, and `GridInv`, which says that a number exists: TLC cannot enumerate these.

The prover has no induction over data. Where a proof needs one (over the orders of the
allocator, over the places of a text) it takes the smallest counterexample: a set of
numbers that is not empty has a least element (`LeastElement`, `Smallest`), and what holds
just below it contradicts it.

### The allocator: `BuddyProofs`

For every `MaxOrder`, heap start, heap size, page size and largest request:

* `TypeCorrect`: `Spec => []TypeOK`
* `NeverShared`: `Spec => []NoSharedPage`
* `NeverLeaked`: `Spec => []NoLeak`
* `MemsetStaysInside`: `Spec => []MemsetInside`
* `AllMerged`: `Spec => []NoFreeBuddies`
* `ImplementsAPageHeap`: `Spec => ImplementsPageHeap`
* `MergesBack`: `Spec => [](AlignedHeap => CoalescesBack)`

The assumptions are those named in `BuddyAllocator`: block lengths double from 1
(`BlockPagesAssumption`), the heap does not contain page 0 (`HeapAssumption`),
nothing about its alignment, which only `MergesBack` asks for. `Invariance` proves the inductive invariant
`TypeOK /\ NoSharedPage /\ NoLeak /\ CallState`. `NoSharedPage` alone is not
inductive: `Split` needs a non-empty list, `Take` the order of the request, `Merge`
that the block in hand is apart from the listed ones, and `init_memory` that what
is listed lies below `addr`. `CallState` says so. The central step is `Merge`: with
any alignment, the buddy found in the list is a block of the same order whose
address differs by exactly one block length, so the two are neighbours and their
union begins at the smaller address (lemma `BuddyAddr`). Lists are handled through
`Listed`, the set of their blocks, with one lemma for each of push, pop and unlink.

`NoFreeBuddies` speaks of the moments between two calls. `BuddiesInv` says what holds
within one: `init_memory` leaves at most one block on each list below the last, and
`kalloc_order`, between splits, has two buddies on the list it is about to take
from and nothing on the lists it came past. `kfree_order` stops merging only when
the buddy is not on the list, and the buddy of a buddy is the block itself
(`BuddyTwice`), so the block it inserts completes no pair. For the refinement, what
callers hold is the set of live blocks; a call takes effect when it returns
(`KallocReturn`) or begins (`KfreeOrder`, `KfreeSize`), every other step stutters. A
single page is refused only when every list is empty, and then `NoLeak` says that all
pages are held.

`MergesBack` is the converse of the run `buddy_merge`: on a heap that starts at a multiple
of the largest block everything does merge back. `GridInv` says that there every block,
and `addr` during `init_memory`, is a multiple of the length of its order (`OnGrid`). Two
multiples are a block apart (`GridGap`) and a block with its buddy is a block of the next
order (`GridBuddy`). `ChunkIsBlock` then takes a stretch of the heap that should be one
block of `MAX_ORDER` and is not, and the smallest block in it: the buddy of that block is
in the stretch too, and the block that covers it is not smaller, cannot be larger
without sharing a page, and cannot be the buddy by `NoFreeBuddies`. `ChunksCounted` counts
the stretches by a bijection with the places of the list.

### The scheduler and the traps: `KernelProofs`

For every number of slots, programs and keys, every value the console delivers and
every set of trap contexts (`KernelAssumption`):

* `TypeCorrect`: `Spec => []TypeOK`
* `CallsReturnIntact`: `Spec => []ResumeIntact`
* `ProgramsRunAsThemselves`: `Spec => []RunsAsItself`
* `StacksStayBounded`: `Spec => []StackBounded`
* `ExitsAreFinal`: `Spec => []ExitIsFinal`
* `HaltsWhenDone`: `Spec => []HaltsOnlyWhenDone`
* `RoundRobin`: `Spec => NoOvertaking`

`ResumeIntact` looks at a program while it runs; what makes it true is on the kernel
stacks of the others. `KernelInv` says of every place of the kernel where the stack
pointer is and which frames are below it (`RunningProc`), and of every process that
can be switched to that its stack holds either the one frame `create_process` laid
(`Fresh`) or the frame of a trap with the registers it is owed, `handle_trap`'s with its
`user_pc`, and the frame of a switch (`Waiting`). `yield` moves a process from the one
description to the other and back; no other process's step touches its stack,
because `sscratch` and `sp` always point into the stack of the running one. `RoundRobin` needs
`TurnsTaken`: in the circular order of the search, everyone who had a turn since a
process began to wait lies between it and the running one.

### The page tables: `WalkProofs`, `PageProofs`

For every radix, heap, set of spaces and sequence of `map_page` calls, aligned or not,
that succeed or run out of pages half way (`PageWalkAssumption`: the radix is at least
2; `PageTableAssumption`: the heap's pages differ, none is page 0, and the page numbers
asked for fit `PPN_MASK`):

* `NoTableShared`: `Spec => []TablesApart`
* `WalksAgree`: `Spec => []SoftwareWalkAgrees`
* `ImplementsSpaces`: `Spec => ImplementsAddressSpace`, call by call: own page, own space,
  own target and flags, or a stop for one of the two reasons above

`TablesApart` is not inductive: it does not exclude two entries that lead to the same
table, nor an entry that leads to a page whose old contents look like a table. The
invariant gives every page a place: free, the root of a space, the middle table
below its entry i, the low table below its entries i and j, or data. `Tree` says that
an entry of a root or middle table is zero or leads to the page at the place below it,
that an entry of a low table is zero or a leaf, and that what `kalloc` has yet to hand
out is free. Since a page has one place, tables are never shared. `EnsureTableKeeps`
shows that a new table changes no walk (`kalloc` has cleared it), `MapPageMaps` that
the store of the leaf changes exactly one, to the entry made of the arguments, and that
a failure means refused arguments or an empty heap; `OnePage` shows that different pages
of a space have different indices, which is arithmetic about `\div` and `%`.

### Process creation: `ProcessProofs`

For every memory layout, heap, number of programs, size of each image and sequence of stores by
user code (`LayoutAssumption`: the order of the regions that `linker.ld` and the
constants of the code fix, images that end below the devices):

* `ProgramsIsolated`: `Spec => []Isolation`
* `KernelMappedEverywhere`: `Spec => []KernelEverywhere`
* `ImagesLoaded`: `Spec => []ImageLoaded`

`ProcessInv` adds to `Tree` that only heap pages are handed out (`HeapOnly`), what every
complete process has mapped (`Complete`), how far the loop under way has come
(`Building`) and that the pages of images hold them until user code runs (`Loaded`). In
`Covers`, a leaf with `U` belongs to a page of the image and leads to data of its own
process; that is why a store of user code changes no table, and so no walk of any process (`OtherPage`), although the word it
stores would be a valid entry.

### The block driver: `BlkProofs`

For every disk, ring size and width of the indices (`VirtioAssumption`):

* `TypeCorrect`: `Spec => []TypeOK`, in whatever order stores become visible
* `DeviceServesTheCall`: `InOrder => (Spec => []DeviceSeesCall)`
* `RequestLeftAlone`: `InOrder => (Spec => LeftAloneInFlight)`
* `ImplementsAnAtomicDisk`: `InOrder => (Spec => ImplementsAtomicDisk)`

`InOrder` is needed: `virtio_blk_weak` is the counterexample without it. `BlkInv` ties the
four indices together (`Counts`: a chain is not taken, taken, or done, and the indices
differ by at most one, modulo `IdxMod`), says which stores the device may not see
yet (`Visible`: only before the notification, and then it does not see the index
either), what the request block and the descriptors hold during a call (`Built`), and
that a read which succeeded left the sector in the request block (`Delivered`). In the
refinement the effect is the step in which the device carries the request out.

### The gpu driver: `GpuProofs`

For every screen, square, and width of the integers and of the ring indices
(`GpuAssumption`: the square is smaller than the screen, the screen fits 32 bits).
`ChainsFit`, `NeverTorn` and `FlushShows` have one more premise, built into `Give`: the
stores of the descriptors, the ring entry and `avail.idx` reach the device in program
order. `virtq_kick` has no barrier between them (`virtio.c:43-45`); `virtio_blk_weak`
shows what that costs the block driver, and the gpu driver uses the same function.

* `SquareStaysInside`: `Spec => []SquareInside`. The property is not inductive: a
  square at the right edge could still be moving right. `SquareInv` adds that the
  square is never at the edge it moves towards.
* `FillsTheRectangle` and `StrokesTheBorder`: which pixels `fill_rect`, and the four
  strips of `stroke_rect`, store to, for every rectangle whose sums do not wrap.
  (Where `x + w` or `y + h` exceeds 32 bits the loops end at the wrapped sum.)
* `ChainsFit`: `Spec => []ChainFits`. `QueueInv` says which descriptors are laid out for
  the command under way, whatever the ones before left in them, and that the device is
  idle between commands.
* `NeverTorn`: `Spec => []NoTearing`, and `FlushShows`: `Spec => []FlushShowsFrame`.
  `PictureInv` says what the framebuffer holds at each place of `bounce` (`DrawnInv`) and
  what each warning that was not printed stands for (`WarnedInv`). The lemma
  `DrawsTheFrame` shows that `draw_rect` turns a white framebuffer into the frame, from
  the theorems about drawing and `SquareInv`; `QueueInv` shows that the device copies
  only while the driver waits.

### The shell: `ShellProofs`

For a line of any size, any keys, commands and texts, whatever cmdline held before
(`ShellAssumption`: the commands have no NUL, the texts no newline, as in the source, and
kmain creates one program):

* `LinesStayInside`: `ShellSpec => []LineInside`. `LineInv` adds the range of the index.
* `LinesAreAnswered`: `ShellSpec => []ShellAnswers`
* `OnlyExitPanics`: the kernel panics only after `exit`, with the message of `kmain`; the
  safety part of `ShellLives`.
* `KernelUnderShell`: `ResumeIntact`, `RunsAsItself` and `StackBounded` hold of the kernel
  when the program is the shell.

`ShellAnswers` speaks of the prompt only. `ShellInv` says of every place of `main` and of the
kernel what has been typed and shown so far. `OneProgram` and `Control` say who can be
where: whoever runs is the shell, the scheduler always comes back to it (`YieldOne`), and
the number the kernel finds in `a3` is that of the call the shell is making. `LineData`
says what the console shows, counting a character the kernel was given and has not yet
printed (`Seen`), with what `printf` has still to print: the prompt, the prompt and the
keys, or the answer. A character belongs to `keyed` from the moment `SYS_GETC` takes it,
which may be many polls and yields after the call, and is echoed only after the
trap has returned with it in `a0`; `owed` of `KernelInv` carries it across. What is read of
cmdline does not depend on what is left in it from earlier lines: `Holds` says that it has
the line and a NUL behind it, so `strcmp` and `%s` see the command (`EqualCommand`,
`CommandRead`, by the first NUL). `LiteralPlain` and `LiteralLine` compute what `printf` makes
of a text, by the uniqueness of `FlattenSeq`'s recursion (`BuiltOnce`).

### Only model-checked

* Liveness (`CallsEnd`, `EveryoneGetsATurn`, `CreationEnds`, `CallsReturn`, `FramesFinish`,
  `ShellLives`), which is beyond this prover.
* `PrintsFormat`, `StoresInPlace`, `FindsEveryWord`: they compare whole texts with what a loop or a recursion produces, for formats and strings of any length.
  Each loop (`utoa`, the directives, the two loops of `strtok_r`) and the sort in `Words`
  would need its own argument by a smallest counterexample.

## Not modelled

* What shares its place with the gpu driver's responses: `resp` is computed on a
  `uint64_t *`, so it lies 8 * sizeof(command) bytes past the command, in an outer
  stack frame. What is overwritten there depends on the build. `hex_to_rgba` is not
  called.
* `strcspn`: it changes nothing and has no caller. `strtok_r` with a NULL `delim`, which
  returns at once. The `n` of `vsnprintf`: the code never looks at it.
* `ztfs`, `fs`, `dmng`: empty. `uart`, `rtc`: not called. `sbi`: firmware calls.
* The values written to the queue registers; the truncation of pointers to 32 bits in
  `blk_req_paddr` and in the user library's `syscall()`.

## Plan

1. Done: all modules above; the safety of the allocator, the scheduler, the page
   tables, process creation, the block driver, the gpu driver and the shell, and the
   refinements of `PageHeap`, `AddressSpace` and `AtomicDisk`.
2. `FindsEveryWord` for buffers of any size: first that `strcpy` and `strcat` leave the
   text in the buffer.
3. `utoa` for every number: its digits are those of `Numeral`.
