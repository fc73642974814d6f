------------------------------ MODULE PageWalk ------------------------------
(***************************************************************************)
(* The page table code of arch/paging.c as operators on memory: map_page   *)
(* and vaddr_to_paddr.                                                     *)
(*                                                                         *)
(* Addresses count words. A page is Radix words and a page table is a page *)
(* of Radix entries (the code: 512 words of 8 bytes), so memory is a        *)
(* function from physical page numbers to their words. A word is read as a *)
(* page table entry [ppn, flags]: the fields the shifts by 10 and the masks *)
(* of the code separate.                                                   *)
(***************************************************************************)
EXTENDS Integers, Sequences

CONSTANTS
  Radix,      \* entries per table, words per page: VPN_MASK + 1
  PpnLimit    \* PPN_MASK keeps this many page numbers

ASSUME PageWalkAssumption == Radix \in Nat \ {0, 1} /\ PpnLimit \in Nat \ {0}

PAGE_SIZE == Radix

Index == 0..(Radix - 1)

Flags == {"V", "R", "W", "X", "U"}

ZeroWord == [ppn |-> 0, flags |-> {}]

\* What kalloc's memset leaves.
ZeroPage == [i \in Index |-> ZeroWord]

NULL == 0

is_aligned(value) == value % PAGE_SIZE = 0

vpn0(vaddr) == (vaddr \div PAGE_SIZE) % Radix

vpn1(vaddr) == (vaddr \div (PAGE_SIZE * Radix)) % Radix

vpn2(vaddr) == (vaddr \div (PAGE_SIZE * Radix * Radix)) % Radix

\* (PPN_MASK & ((paddr / PAGE_SIZE) << 10)) | flags | PAGE_V
MakePTE(paddr, flags) ==
  [ppn |-> (paddr \div PAGE_SIZE) % PpnLimit, flags |-> flags \cup {"V"}]

Valid(pte) == "V" \in pte.flags

(***************************************************************************)
(* The memory map_page works on: mem, the pages kalloc has yet to hand out *)
(* in the order it will do so (how it chooses them is BuddyAllocator's      *)
(* subject), and whether a PANIC or a failed kalloc has brought the kernel  *)
(* down.                                                                   *)
(***************************************************************************)

\* Slip: the page handed out stays available.
KallocKeeps(st) ==
  IF st.avail = << >>
    THEN [st EXCEPT !.down = TRUE]
    ELSE [st EXCEPT !.mem[Head(st.avail)] = ZeroPage]

\* kalloc(1): the next page, cleared.
Kalloc(st) ==
  IF st.avail = << >>
    THEN [st EXCEPT !.down = TRUE]
    ELSE [st EXCEPT !.mem[Head(st.avail)] = ZeroPage, !.avail = Tail(@)]

\* The table below entry i of table t is made when there is none.
EnsureTable(st, t, i) ==
  IF st.down \/ Valid(st.mem[t][i])
    THEN st
    ELSE LET got == Kalloc(st) IN
         IF got.down THEN got
         ELSE [got EXCEPT !.mem[t][i] = MakePTE(Head(st.avail) * PAGE_SIZE, {})]

\* Slip: a leaf that is valid already is kept.
map_page_kept(st, root, vaddr, paddr, flags) ==
  LET s1 == EnsureTable(st, root, vpn2(vaddr))
      t1 == s1.mem[root][vpn2(vaddr)].ppn
      s2 == EnsureTable(s1, t1, vpn1(vaddr))
      t0 == s2.mem[t1][vpn1(vaddr)].ppn
  IN  IF ~ is_aligned(vaddr) \/ ~ is_aligned(paddr) \/ flags \cap {"R", "W", "X"} = {}
        THEN [st EXCEPT !.down = TRUE]
      ELSE IF s1.down THEN s1
      ELSE IF s2.down \/ Valid(s2.mem[t0][vpn0(vaddr)]) THEN s2
      ELSE [s2 EXCEPT !.mem[t0][vpn0(vaddr)] = MakePTE(paddr, flags)]

\* map_page: the two tables on the way, then the leaf, whatever it held.
map_page(st, root, vaddr, paddr, flags) ==
  LET s1 == EnsureTable(st, root, vpn2(vaddr))
      t1 == s1.mem[root][vpn2(vaddr)].ppn
      s2 == EnsureTable(s1, t1, vpn1(vaddr))
      t0 == s2.mem[t1][vpn1(vaddr)].ppn
  IN  IF ~ is_aligned(vaddr) \/ ~ is_aligned(paddr) \/ flags \cap {"R", "W", "X"} = {}
        THEN [st EXCEPT !.down = TRUE]
      ELSE IF s1.down THEN s1
      ELSE IF s2.down THEN s2
      ELSE [s2 EXCEPT !.mem[t0][vpn0(vaddr)] = MakePTE(paddr, flags)]

\* Slip: the entry of the middle table is not tested.
vaddr_to_paddr_unchecked(mem, root, vaddr) ==
  LET pte2 == mem[root][vpn2(vaddr)]
      pte1 == mem[pte2.ppn][vpn1(vaddr)]
      pte0 == mem[pte1.ppn][vpn0(vaddr)]
  IN  IF ~ Valid(pte2) THEN NULL
      ELSE IF ~ Valid(pte0) THEN NULL
      ELSE (pte0.ppn * PAGE_SIZE) + (vaddr % PAGE_SIZE)

\* vaddr_to_paddr: NULL as soon as an entry is not valid. Permissions are not
\* looked at.
vaddr_to_paddr(mem, root, vaddr) ==
  LET pte2 == mem[root][vpn2(vaddr)]
      pte1 == mem[pte2.ppn][vpn1(vaddr)]
      pte0 == mem[pte1.ppn][vpn0(vaddr)]
  IN  IF ~ Valid(pte2) THEN NULL
      ELSE IF ~ Valid(pte1) THEN NULL
      ELSE IF ~ Valid(pte0) THEN NULL
      ELSE (pte0.ppn * PAGE_SIZE) + (vaddr % PAGE_SIZE)

-----------------------------------------------------------------------------
(* The processor's walk (external: Sv39). An entry with R, W or X is a     *)
(* leaf; the code makes leaves on the last level only.                     *)

Leaf(pte) == Valid(pte) /\ pte.flags \cap {"R", "W", "X"} # {}

Branch(pte) == Valid(pte) /\ pte.flags \cap {"R", "W", "X"} = {}

Unmapped == [ppn |-> 0, flags |-> {}]

\* The leaf that maps the page of vaddr, Unmapped when the walk faults.
Walk(mem, root, vaddr) ==
  LET pte2 == mem[root][vpn2(vaddr)]
      pte1 == mem[pte2.ppn][vpn1(vaddr)]
      pte0 == mem[pte1.ppn][vpn0(vaddr)]
  IN  IF Branch(pte2) /\ Branch(pte1) /\ Leaf(pte0) THEN pte0 ELSE Unmapped

\* The pages the walks of a space read: its root and the tables below it.
TablePages(mem, root) ==
  LET level1 == {mem[root][i].ppn : i \in {j \in Index : Branch(mem[root][j])}}
      level0 == UNION {{mem[t][i].ppn : i \in {j \in Index : Branch(mem[t][j])}} : t \in level1}
  IN  {root} \cup level1 \cup level0
=============================================================================
