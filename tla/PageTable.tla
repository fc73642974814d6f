----------------------------- MODULE PageTable -----------------------------
(***************************************************************************)
(* Any sequence of map_page calls on several page tables that share the    *)
(* pages kalloc hands out.                                                 *)
(***************************************************************************)
EXTENDS PageWalk, FiniteSets

CONSTANTS
  Spaces,      \* names of the page tables
  HeapPages,   \* the pages kalloc hands out, in that order
  Targets,     \* physical pages mapped to
  FlagSets,    \* flags map_page is called with
  MaxMaps      \* bound: number of calls

ASSUME PageTableAssumption ==
  /\ MaxMaps \in Nat
  /\ HeapPages \in Seq(1..(PpnLimit - 1))
  /\ \A i, j \in 1..Len(HeapPages) : HeapPages[i] = HeapPages[j] => i = j
  /\ Targets \subseteq 0..(PpnLimit - 1) /\ FlagSets \subseteq SUBSET Flags

VARIABLES
  mem,      \* the words of every heap page
  avail,    \* pages kalloc has not handed out
  down,     \* TRUE after a PANIC
  root,     \* root[s]: page number of the root table, NULL before it exists
  maps,     \* calls made so far
  call      \* history: what the last of them asked for

vars == <<mem, avail, down, root, maps, call>>

Pages == {HeapPages[i] : i \in 1..Len(HeapPages)} \cup {NULL}

\* Heap pages hold anything before they are handed out.
Garbage == [ppn |-> 0, flags |-> {"V", "R", "W", "U"}]

VPages == 0..(Radix * Radix * Radix - 1)

State == [mem |-> mem, avail |-> avail, down |-> down]

Become(st) == mem' = st.mem /\ avail' = st.avail /\ down' = st.down

NoCall == [proper |-> FALSE]

\* What a caller of map_page asks for: proper when map_page has no reason to
\* PANIC at the arguments.
Asked(s, vaddr, paddr, flags) ==
  [space   |-> s,
   page    |-> vaddr \div PAGE_SIZE,
   mapping |-> [ppn |-> paddr \div PAGE_SIZE, flags |-> flags \cup {"V"}],
   proper  |-> is_aligned(vaddr) /\ is_aligned(paddr) /\ flags \cap {"R", "W", "X"} # {}]

Init ==
  /\ mem = [p \in Pages |-> [i \in Index |-> Garbage]]
  /\ avail = HeapPages
  /\ down = FALSE
  /\ root = [s \in Spaces |-> NULL]
  /\ maps = 0
  /\ call = NoCall

\* create_process: a page for the root table.
NewRoot(s) ==
  /\ ~ down
  /\ root[s] = NULL
  /\ root' = IF avail = << >> THEN root ELSE [root EXCEPT ![s] = Head(avail)]
  /\ Become(Kalloc(State))
  /\ UNCHANGED <<maps, call>>

Map(s, vaddr, paddr, flags) ==
  /\ ~ down
  /\ root[s] # NULL
  /\ maps < MaxMaps
  /\ Become(map_page(State, root[s], vaddr, paddr, flags))
  /\ maps' = maps + 1
  /\ call' = Asked(s, vaddr, paddr, flags)
  /\ UNCHANGED root

\* Aligned addresses, and one of each that is not.
VAddrs == {v * PAGE_SIZE : v \in VPages} \cup {1}

PAddrs == {t * PAGE_SIZE : t \in Targets} \cup {1}

Done == (down \/ maps = MaxMaps) /\ UNCHANGED vars

Next ==
  \/ \E s \in Spaces : NewRoot(s)
  \/ \E s \in Spaces, va \in VAddrs, pa \in PAddrs, fl \in FlagSets : Map(s, va, pa, fl)
  \/ Done

Spec == Init /\ [][Next]_vars

-----------------------------------------------------------------------------
(* Properties.                                                             *)

\* The mapping of each page of a space, as the processor's walk finds it.
Translation(s) ==
  [v \in VPages |-> IF root[s] = NULL THEN Unmapped ELSE Walk(mem, root[s], v * PAGE_SIZE)]

\* vaddr_to_paddr gives the address the processor would use, for every word of
\* a mapped page, and NULL for the others.
SoftwareWalkAgrees ==
  \A s \in Spaces : root[s] # NULL =>
    \A va \in 0..(Radix * Radix * Radix * PAGE_SIZE - 1) :
      LET leaf == Walk(mem, root[s], va) IN
      vaddr_to_paddr(mem, root[s], va) =
        IF leaf = Unmapped THEN NULL ELSE (leaf.ppn * PAGE_SIZE) + (va % PAGE_SIZE)

\* Two page tables share no table page, and no page that kalloc may still
\* hand out is part of a table.
TablesApart ==
  \A s, t \in Spaces : root[s] # NULL /\ root[t] # NULL =>
    /\ s # t => TablePages(mem, root[s]) \cap TablePages(mem, root[t]) = {}
    /\ \A i \in 1..Len(avail) : avail[i] \notin TablePages(mem, root[s])

AllSpaces == [s \in Spaces |-> Translation(s)]

Abs == INSTANCE AddressSpace WITH
         Mappings  <- [ppn : Targets, flags : {f \cup {"V"} : f \in FlagSets}],
         None      <- Unmapped,
         space     <- AllSpaces,
         exhausted <- avail = << >>

\* Page tables implement address spaces, call by call: map_page maps the page of
\* its own vaddr, in the space of its own table, to the page of its own paddr with
\* its own flags, and leaves every other translation of every space as it was,
\* although it may take two new pages and link them into the table. It fails only
\* for arguments it refuses or for want of a page, and then changes no
\* translation; no other step changes one.
ImplementsAddressSpace == Abs!Spec
=============================================================================
