--------------------------- MODULE CreateProcess ---------------------------
(***************************************************************************)
(* The memory of processes: the page table loops of create_process         *)
(* (kernel/schedule/proc.c) for the idle process and for the programs, and  *)
(* then user code storing through those tables. One iteration of a loop is *)
(* one step. Addresses count words, as in PageWalk.                        *)
(***************************************************************************)
EXTENDS PageWalk, FiniteSets

CONSTANTS
  KernelBase,    \* page of __kernel_base
  FreeRam,       \* page of __free_ram
  FreeRamEnd,    \* page of __free_ram_end
  UserBase,      \* page of USER_BASE
  Virtio,        \* page of VIRTIO_PADDR
  NumDevices,    \* device pages (the code: 8)
  HeapOrder,     \* the pages of the heap in the order kalloc hands them out
  ImageSizes,    \* the sizes, in words, of the programs created after the idle
                 \* process, in their order
  MaxStores      \* bound: stores of user code

\* linker.ld puts the heap behind the kernel image; USER_BASE and the devices
\* lie below the kernel, apart from each other.
ASSUME LayoutAssumption ==
  /\ KernelBase \in Nat /\ FreeRam \in Nat /\ FreeRamEnd \in Nat
  /\ UserBase \in Nat /\ Virtio \in Nat /\ NumDevices \in Nat
  /\ 0 < KernelBase /\ KernelBase < FreeRam /\ FreeRam < FreeRamEnd
  /\ FreeRamEnd <= PpnLimit /\ FreeRamEnd <= Radix * Radix * Radix
  /\ 0 < UserBase /\ Virtio + NumDevices <= KernelBase
  /\ ImageSizes \in Seq(Nat)
  /\ \A i \in 1..Len(ImageSizes) :
       UserBase * PAGE_SIZE + ImageSizes[i] <= Virtio * PAGE_SIZE
  /\ HeapOrder \in Seq(FreeRam..(FreeRamEnd - 1))
  /\ \A i, j \in 1..Len(HeapOrder) : HeapOrder[i] = HeapOrder[j] => i = j
  /\ MaxStores \in Nat

VARIABLES
  mem,      \* the words of physical memory
  avail,    \* pages kalloc has not handed out
  down,     \* TRUE after a PANIC or a failed kalloc
  phase,    \* the loop create_process is in; "run" when user code runs
  cursor,   \* the loop's variable, in pages
  root,     \* page_table of the process being created
  tables    \* the page number yield will put into satp for each process made
            \* so far, the idle process first

mvars == <<mem, avail, down>>

vars == <<mem, avail, down, phase, cursor, root, tables>>

Memory == [mem |-> mem, avail |-> avail, down |-> down]

Become(st) == mem' = st.mem /\ avail' = st.avail /\ down' = st.down

\* The i-th word of a program's image: some data, each word different.
ImageWord(i) == [ppn |-> i + 1, flags |-> {}]

\* A word that would be an entry for the kernel's first page, were it read as
\* one: memory before it is handed out, and what user code stores.
OtherWord == [ppn |-> KernelBase, flags |-> Flags]

\* The size of the i-th process's image: init_proc creates the first one, the
\* idle process, without one.
SizeOf(i) == IF i - 1 \in 1..Len(ImageSizes) THEN ImageSizes[i - 1] ELSE 0

image_size == SizeOf(Len(tables) + 1)

Init ==
  /\ mem = [p \in 0..(PpnLimit - 1) |-> [i \in Index |-> OtherWord]]
  /\ avail = HeapOrder
  /\ down = FALSE
  /\ phase = "root"
  /\ cursor = 0
  /\ root = NULL
  /\ tables = << >>

\* kalloc(1) for the root table.
AllocRoot ==
  /\ ~ down /\ phase = "root"
  /\ Become(Kalloc(Memory))
  /\ root' = IF avail = << >> THEN NULL ELSE Head(avail) * PAGE_SIZE
  /\ phase' = "kernel"
  /\ cursor' = KernelBase
  /\ UNCHANGED tables

\* Slip: the kernel's pages are mapped for user mode too.
MapKernelUser ==
  /\ ~ down /\ phase = "kernel"
  /\ cursor < FreeRamEnd
  /\ Become(map_page(Memory, root \div PAGE_SIZE, cursor * PAGE_SIZE, cursor * PAGE_SIZE,
                     {"R", "W", "X", "U"}))
  /\ cursor' = cursor + 1
  /\ UNCHANGED <<phase, root, tables>>

\* Slip: the pages from __free_ram on are not mapped.
MapKernelImage ==
  /\ ~ down /\ phase = "kernel"
  /\ cursor < FreeRamEnd
  /\ IF cursor < FreeRam
       THEN Become(map_page(Memory, root \div PAGE_SIZE, cursor * PAGE_SIZE, cursor * PAGE_SIZE,
                            {"R", "W", "X"}))
       ELSE UNCHANGED mvars
  /\ cursor' = cursor + 1
  /\ UNCHANGED <<phase, root, tables>>

\* "Map kernel pages": image, stack and heap, each page to itself.
MapKernel ==
  /\ ~ down /\ phase = "kernel"
  /\ cursor < FreeRamEnd
  /\ Become(map_page(Memory, root \div PAGE_SIZE, cursor * PAGE_SIZE, cursor * PAGE_SIZE,
                     {"R", "W", "X"}))
  /\ cursor' = cursor + 1
  /\ UNCHANGED <<phase, root, tables>>

\* Slip: the loop does not advance.
MapDeviceStuck ==
  /\ ~ down /\ phase = "device"
  /\ cursor < NumDevices
  /\ LET addr == (Virtio + cursor) * PAGE_SIZE IN
       Become(map_page(Memory, root \div PAGE_SIZE, addr, addr, {"R", "W"}))
  /\ UNCHANGED <<cursor, phase, root, tables>>

\* "Devices map".
MapDevice ==
  /\ ~ down /\ phase = "device"
  /\ cursor < NumDevices
  /\ LET addr == (Virtio + cursor) * PAGE_SIZE IN
       Become(map_page(Memory, root \div PAGE_SIZE, addr, addr, {"R", "W"}))
  /\ cursor' = cursor + 1
  /\ UNCHANGED <<phase, root, tables>>

\* Slip: a whole page is copied, beyond the end of the image.
CopyImageWhole(off) == [i \in Index |-> ImageWord(off + i)]

\* memcpy(page, image + off, copy_size): the rest of the page stays zero.
CopyImage(off) ==
  [i \in Index |-> IF off + i < image_size THEN ImageWord(off + i) ELSE ZeroWord]

\* Slip: an image that fills its pages gets one more.
MapUserOneMore ==
  /\ ~ down /\ phase = "user"
  /\ cursor * PAGE_SIZE <= image_size
  /\ LET off == cursor * PAGE_SIZE
         got == Kalloc(Memory)
         page == Head(avail)
         filled == [got EXCEPT !.mem[page] = CopyImage(off)]
     IN  Become(IF got.down THEN got
                ELSE map_page(filled, root \div PAGE_SIZE, UserBase * PAGE_SIZE + off,
                              page * PAGE_SIZE, {"U", "R", "W", "X"}))
  /\ cursor' = cursor + 1
  /\ UNCHANGED <<phase, root, tables>>

\* "Map user pages": a fresh page for every page of the image.
MapUser ==
  /\ ~ down /\ phase = "user"
  /\ cursor * PAGE_SIZE < image_size
  /\ LET off == cursor * PAGE_SIZE
         got == Kalloc(Memory)
         page == Head(avail)
         filled == [got EXCEPT !.mem[page] = CopyImage(off)]
     IN  Become(IF got.down THEN got
                ELSE map_page(filled, root \div PAGE_SIZE, UserBase * PAGE_SIZE + off,
                              page * PAGE_SIZE, {"U", "R", "W", "X"}))
  /\ cursor' = cursor + 1
  /\ UNCHANGED <<phase, root, tables>>

\* A loop ends and the next one starts.
NextLoop ==
  /\ ~ down
  /\ \/ phase = "kernel" /\ cursor >= FreeRamEnd /\ phase' = "device"
     \/ phase = "device" /\ cursor >= NumDevices /\ phase' = "user"
  /\ cursor' = 0
  /\ UNCHANGED <<mem, avail, down, root, tables>>

\* create_process returns; kmain creates the next process or starts them.
\* satp will hold page_table / PAGE_SIZE.
Created ==
  /\ ~ down /\ phase = "user"
  /\ cursor * PAGE_SIZE >= image_size
  /\ tables' = Append(tables, root \div PAGE_SIZE)
  /\ phase' = IF Len(tables) = Len(ImageSizes) THEN "run" ELSE "root"
  /\ root' = NULL
  /\ cursor' = 0
  /\ UNCHANGED mvars

Programs == 2..Len(tables)

\* User code of program p stores a word wherever its page table lets it. The
\* counter bounds the number of stores.
UserStore(p, vaddr) ==
  /\ ~ down /\ phase = "run"
  /\ cursor < MaxStores
  /\ LET leaf == Walk(mem, tables[p], vaddr) IN
       /\ {"U", "W"} \subseteq leaf.flags
       /\ mem' = [mem EXCEPT ![leaf.ppn][vaddr % PAGE_SIZE] = OtherWord]
  /\ cursor' = cursor + 1
  /\ UNCHANGED <<avail, down, phase, root, tables>>

VAddrs == 0..(Radix * Radix * Radix * PAGE_SIZE - 1)

Done == (down \/ (phase = "run" /\ cursor = MaxStores)) /\ UNCHANGED vars

Next ==
  \/ AllocRoot \/ MapKernel \/ MapDevice \/ MapUser \/ NextLoop \/ Created
  \/ \E p \in Programs, va \in VAddrs : UserStore(p, va)
  \/ Done

\* create_process runs on to its end.
Spec == Init /\ [][Next]_vars /\ WF_vars(AllocRoot \/ MapKernel \/ MapDevice \/ MapUser
                                         \/ NextLoop \/ Created)

-----------------------------------------------------------------------------
(* Properties.                                                             *)

\* The leaf behind a virtual page of the i-th process.
LeafOf(i, v) == Walk(mem, tables[i], v * PAGE_SIZE)

VPages == 0..(Radix * Radix * Radix - 1)

\* The physical pages user code of the i-th process can reach.
UserPages(i) == {LeafOf(i, v).ppn : v \in {w \in VPages : "U" \in LeafOf(i, w).flags}}

\* User code reaches no page of another program, no page table (its own
\* included), no page of the kernel image and no page kalloc may hand out
\* again: whatever it stores, and while the next process is being built.
Isolation ==
  \A i \in 1..Len(tables) :
    /\ \A p \in UserPages(i) :
         p \in FreeRam..(FreeRamEnd - 1) /\ \A k \in 1..Len(avail) : avail[k] # p
    /\ \A j \in 1..Len(tables) :
         /\ UserPages(i) \cap TablePages(mem, tables[j]) = {}
         /\ i # j => UserPages(i) \cap UserPages(j) = {}

\* Every process maps the kernel's pages to themselves, without U, and the
\* devices: the kernel goes on running, stack and all, when yield has changed
\* satp, and finds its memory at the same addresses.
KernelEverywhere ==
  \A i \in 1..Len(tables) :
    /\ \A v \in KernelBase..(FreeRamEnd - 1) :
         LeafOf(i, v) = [ppn |-> v, flags |-> {"V", "R", "W", "X"}]
    /\ \A v \in Virtio..(Virtio + NumDevices - 1) :
         LeafOf(i, v) = [ppn |-> v, flags |-> {"V", "R", "W"}]

\* The word user code of the i-th process reads at vaddr.
Load(i, vaddr) ==
  LET leaf == Walk(mem, tables[i], vaddr) IN mem[leaf.ppn][vaddr % PAGE_SIZE]

\* The pages an image of that size needs.
PageCount(i) == (SizeOf(i) + PAGE_SIZE - 1) \div PAGE_SIZE

\* A process starts with its image at USER_BASE and zeros up to the end of its
\* last page, nothing of what the memory held before; and these are the only
\* pages user mode may use: none for the idle process, and no page more for an
\* image that fills its last one.
ImageLoaded ==
  (phase # "run" \/ cursor = 0) =>
    \A i \in 1..Len(tables) :
      /\ \A v \in VPages :
           "U" \in LeafOf(i, v).flags <=> v \in UserBase..(UserBase + PageCount(i) - 1)
      /\ \A off \in 0..(PageCount(i) * PAGE_SIZE - 1) :
           /\ {"R", "W", "X"} \subseteq Walk(mem, tables[i], UserBase * PAGE_SIZE + off).flags
           /\ Load(i, UserBase * PAGE_SIZE + off) =
                IF off < SizeOf(i) THEN ImageWord(off) ELSE ZeroWord

\* kmain's processes are all created, or the kernel is out of memory.
CreationEnds == <>(phase = "run" \/ down)
=============================================================================
