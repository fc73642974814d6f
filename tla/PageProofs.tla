----------------------------- MODULE PageProofs -----------------------------
(***************************************************************************)
(* What the page tables of arch/paging.c promise, for every radix, every    *)
(* heap and any sequence of map_page calls on any number of spaces.         *)
(***************************************************************************)
EXTENDS PageTable, WalkProofs

\* The tables are trees, with the roots create_process was given.
RootsPlaced(rt, at) == \A s \in Spaces : rt[s] # NULL => at[rt[s]] = RootAt(s)

PageInv ==
  /\ root \in [Spaces -> Pages]
  /\ \E at : Tree(State, Pages, Spaces, at) /\ RootsPlaced(root, at)

LEMMA PageInit == Init => PageInv
<1> SUFFICES ASSUME Init PROVE PageInv
  OBVIOUS
<1> DEFINE at == [p \in Pages |-> Free]
           P == {p \in Pages : p \in 1..(PpnLimit - 1)}
<1>1. root \in [Spaces -> Pages] /\ RootsPlaced(root, at)
  BY DEF Init, Pages, RootsPlaced
<1>2. Garbage \in Words
  BY DEF Garbage, Words, Flags
<1>3. mem \in [Pages -> [Index -> Words]]
  BY <1>2 DEF Init
<1>4. IsPlacing(at, Pages) /\ \A p \in Pages : at[p] = Free
  BY DEF IsPlacing
<1> HIDE DEF at
<1>5. Tables(mem, Pages, Spaces, at)
  BY <1>3, <1>4, PlacesDiffer DEF Tables
<1>6. avail = HeapPages /\ HeapPages \in Seq(1..(PpnLimit - 1))
  BY PageTableAssumption DEF Init
<1>7. \A k \in 1..Len(avail) : avail[k] \in P /\ avail[k] \in Pages
  BY <1>6, ElementOfSeq DEF Pages
<1>8. avail \in Seq(P)
  <2> HIDE DEF P
  <2>1. Len(avail) \in Nat /\ avail = [k \in 1..Len(avail) |-> avail[k]]
    BY <1>6, LenProperties, SeqDef
  <2> QED  BY <1>7, <2>1, IsASeq
<1>9. FreePages(avail, Pages, at)
  BY <1>4, <1>6, <1>7, <1>8, PageTableAssumption DEF FreePages
<1>10. Tree(State, Pages, Spaces, at)
  BY <1>5, <1>9 DEF Tree, State, Init
<1> QED  BY <1>1, <1>10 DEF PageInv

\* A page of zeros becomes a root.
LEMMA RootStep ==
  ASSUME NEW at, Tree(State, Pages, Spaces, at), RootsPlaced(root, at),
         root \in [Spaces -> Pages], NEW s \in Spaces, NewRoot(s)
  PROVE  /\ root' \in [Spaces -> Pages]
         /\ \E at2 : Tree(State', Pages, Spaces, at2) /\ RootsPlaced(root', at2)
         /\ SameWalks(mem, mem', Pages, Spaces, at)
         /\ \A x \in Spaces : root'[x] = root[x] \/ (root[x] = NULL /\ mem'[root'[x]] = ZeroPage)
         /\ down' \in BOOLEAN /\ (down' => avail' = << >>)
<1>1. /\ State.mem = mem /\ State.avail = avail /\ State.down = FALSE /\ ~ down
      /\ root[s] = NULL
  BY DEF State, NewRoot
<1>2. CASE avail = << >>
  <2>1. Kalloc(State) = [mem |-> mem, avail |-> avail, down |-> TRUE]
    BY <1>1, <1>2 DEF Kalloc, State
  <2>2. root' = root /\ mem' = mem /\ avail' = avail /\ down' = TRUE
    BY <1>2, <2>1 DEF NewRoot, Become
  <2>3. Tree(State', Pages, Spaces, at)
    BY <2>2 DEF Tree, State
  <2>4. SameWalks(mem, mem', Pages, Spaces, at)
    BY <2>2 DEF SameWalks
  <2> QED  BY <1>2, <2>2, <2>3, <2>4 DEF RootsPlaced
<1>3. CASE avail # << >>
  <2> DEFINE p == Head(avail)
             at2 == [at EXCEPT ![p] = RootAt(s)]
  <2>1. /\ Kalloc(State) = [mem |-> [mem EXCEPT ![p] = ZeroPage], avail |-> Tail(avail),
                            down |-> FALSE]
        /\ p \in Pages /\ p \in 1..(PpnLimit - 1) /\ at[p] = Free
    BY <1>1, <1>3, KallocTakes
  <2>2. /\ mem' = [mem EXCEPT ![p] = ZeroPage] /\ avail' = Tail(avail) /\ down' = FALSE
        /\ root' = [root EXCEPT ![s] = p]
    BY <1>3, <2>1 DEF NewRoot, Become
  <2>3. /\ Tables(mem, Pages, Spaces, at) /\ FreePages(avail, Pages, at)
        /\ IsPlacing(at, Pages) /\ mem \in [Pages -> [Index -> Words]]
    BY <1>1 DEF Tree, Tables
  <2>4. FreePages(avail', Pages, at2)
    BY <1>3, <2>2, <2>3, FewerFreePages
  <2> HIDE DEF p
  <2>5. /\ IsPlacing(at2, Pages) /\ at2[p] = RootAt(s)
        /\ \A q \in Pages : q # p => at2[q] = at[q]
    BY <2>1, <2>3 DEF IsPlacing
  <2>6. /\ mem' \in [Pages -> [Index -> Words]] /\ mem'[p] = ZeroPage
        /\ \A q \in Pages : q # p => mem'[q] = mem[q]
    <3>1. ZeroPage \in [Index -> Words]
      BY DEF ZeroPage, ZeroWord, Words, Flags
    <3> QED  BY <2>1, <2>2, <2>3, <3>1
  <2> HIDE DEF at2
  <2>7. Tables(mem', Pages, Spaces, at2) /\ SameWalks(mem, mem', Pages, Spaces, at)
    <3>1. OnlyPage(p, Pages, mem, mem', at, at2)
      BY <2>5, <2>6 DEF OnlyPage
    <3> QED  BY <2>1, <2>3, <2>5, <2>6, <3>1, OtherPage
  <2>8. Tree(State', Pages, Spaces, at2)
    BY <2>2, <2>4, <2>7 DEF Tree, State
  <2>9. root' \in [Spaces -> Pages] /\ root'[s] = p /\ \A x \in Spaces : x # s => root'[x] = root[x]
    BY <2>1, <2>2
  <2>10. RootsPlaced(root', at2)
    <3> SUFFICES ASSUME NEW x \in Spaces, root'[x] # NULL PROVE at2[root'[x]] = RootAt(x)
      BY DEF RootsPlaced
    <3>1. CASE x = s
      BY <2>5, <2>9, <3>1
    <3>2. CASE x # s
      <4>1. root'[x] = root[x] /\ at[root[x]] = RootAt(x) /\ root[x] \in Pages
        BY <2>9, <3>2 DEF RootsPlaced
      <4>2. root[x] # p
        BY <2>1, <4>1, PlacesDiffer
      <4> QED  BY <2>5, <4>1, <4>2
    <3> QED  BY <3>1, <3>2
  <2> QED  BY <1>1, <2>2, <2>6, <2>7, <2>8, <2>9, <2>10
<1> QED  BY <1>2, <1>3

\* The word a call of map_page stores.
LEMMA CallTypes ==
  ASSUME NEW va \in VAddrs, NEW pa \in PAddrs, NEW fl \in FlagSets
  PROVE  va \in Nat /\ pa \in Nat /\ MakePTE(pa, fl) \in Words
<1>1. Radix \in Nat \ {0} /\ PpnLimit \in Nat \ {0}
  BY PageWalkAssumption
<1>2. \A v \in Nat : v * PAGE_SIZE \in Nat
  BY <1>1 DEF PAGE_SIZE
<1>3. VPages \subseteq Nat /\ Targets \subseteq Nat
  BY <1>1, PageTableAssumption DEF VPages
<1>4. va \in Nat /\ pa \in Nat
  BY <1>2, <1>3 DEF VAddrs, PAddrs
<1>5. (pa \div Radix) % PpnLimit \in Nat
  <2>1. pa \div Radix \in Nat
    BY <1>1, <1>4, Quotient
  <2> QED  BY <1>1, <2>1, Quotient
<1>6. fl \cup {"V"} \in SUBSET Flags
  BY PageTableAssumption DEF Flags
<1> QED  BY <1>4, <1>5, <1>6 DEF MakePTE, Words, PAGE_SIZE

\* A call of map_page.
LEMMA MapStep ==
  ASSUME NEW at, Tree(State, Pages, Spaces, at), RootsPlaced(root, at),
         root \in [Spaces -> Pages], NEW s \in Spaces,
         NEW va \in VAddrs, NEW pa \in PAddrs, NEW fl \in FlagSets, Map(s, va, pa, fl)
  PROVE  /\ root' = root
         /\ \E at2 : Tree(State', Pages, Spaces, at2) /\ RootsPlaced(root', at2)
         /\ at[root[s]] = RootAt(s)
         /\ down' => /\ SameWalks(mem, mem', Pages, Spaces, at)
                     /\ Proper(va, pa, fl) => avail' = << >>
         /\ ~ down' => /\ Proper(va, pa, fl)
                       /\ OneWalk(mem, mem', Pages, Spaces, at, root[s], s, va, MakePTE(pa, fl))
<1> DEFINE r == root[s]
           n == map_page(State, r, va, pa, fl)
<1>1. /\ State.mem = mem /\ State.down = FALSE /\ root' = root
      /\ r \in Pages /\ at[r] = RootAt(s)
      /\ mem' = n.mem /\ avail' = n.avail /\ down' = n.down
  BY DEF State, Map, Become, RootsPlaced
<1>2. va \in Nat /\ MakePTE(pa, fl) \in Words
  BY CallTypes
<1> HIDE DEF r
<1>3. PICK at2 : PageMapped(State, n, Pages, Spaces, at, at2, r, s, va, pa, fl)
  BY <1>1, <1>2, MapPageMaps
<1> HIDE DEF n
<1>4. Tree(State', Pages, Spaces, at2)
  <2>1. State' = n
    BY <1>1, <1>3 DEF State, Tree, PageMapped
  <2> QED  BY <1>3, <2>1 DEF PageMapped
<1>5. RootsPlaced(root', at2)
  <2> SUFFICES ASSUME NEW x \in Spaces, root[x] # NULL PROVE at2[root[x]] = RootAt(x)
    BY <1>1 DEF RootsPlaced
  <2>1. at[root[x]] = RootAt(x) /\ root[x] \in Pages
    BY DEF RootsPlaced
  <2> QED  BY <1>3, <2>1, PlacesDiffer DEF Kept, PageMapped
<1>6. /\ down' => /\ SameWalks(mem, mem', Pages, Spaces, at)
                  /\ Proper(va, pa, fl) => avail' = << >>
      /\ ~ down' => /\ Proper(va, pa, fl)
                    /\ OneWalk(mem, mem', Pages, Spaces, at, r, s, va, MakePTE(pa, fl))
  BY <1>1, <1>3 DEF PageMapped
<1> QED  BY <1>1, <1>4, <1>5, <1>6 DEF r

LEMMA PageStep == PageInv /\ [Next]_vars => PageInv'
<1> SUFFICES ASSUME PageInv, [Next]_vars PROVE PageInv'
  OBVIOUS
<1>1. PICK at : Tree(State, Pages, Spaces, at) /\ RootsPlaced(root, at)
  BY DEF PageInv
<1>2. root \in [Spaces -> Pages]
  BY DEF PageInv
<1>3. ASSUME NEW s \in Spaces, NewRoot(s) PROVE PageInv'
  <2>1. /\ root' \in [Spaces -> Pages]
        /\ \E at2 : Tree(State', Pages, Spaces, at2) /\ RootsPlaced(root', at2)
    BY <1>1, <1>2, <1>3, RootStep
  <2> QED  BY <2>1 DEF PageInv
<1>4. ASSUME NEW s \in Spaces, NEW va \in VAddrs, NEW pa \in PAddrs, NEW fl \in FlagSets,
             Map(s, va, pa, fl)
      PROVE  PageInv'
  <2>1. /\ root' = root
        /\ \E at2 : Tree(State', Pages, Spaces, at2) /\ RootsPlaced(root', at2)
    BY <1>1, <1>2, <1>4, MapStep
  <2> QED  BY <1>2, <2>1 DEF PageInv
<1>5. CASE UNCHANGED vars
  <2>1. State' = State /\ root' = root
    BY <1>5 DEF vars, State
  <2> QED  BY <1>1, <1>2, <2>1 DEF PageInv
<1> QED  BY <1>3, <1>4, <1>5 DEF Next, Done

\* The inductive invariant: the page tables of all spaces are trees, whose
\* tables kalloc handed out once each.
THEOREM Invariance == Spec => []PageInv
<1> QED  BY PageInit, PageStep, PTL DEF Spec

\* For every radix and heap, no page is a table of two spaces, and no table is
\* handed out again: map_page links only what kalloc has just returned.
THEOREM NoTableShared == Spec => []TablesApart
<1>1. ASSUME PageInv PROVE TablesApart
  <2>1. PICK at : Tree(State, Pages, Spaces, at) /\ RootsPlaced(root, at)
    BY <1>1 DEF PageInv
  <2>2. root \in [Spaces -> Pages]
    BY <1>1 DEF PageInv
  <2>3. Tables(mem, Pages, Spaces, at) /\ FreePages(avail, Pages, at)
    BY <2>1 DEF Tree, State
  <2>4. ASSUME NEW s \in Spaces, root[s] # NULL, NEW p \in TablePages(mem, root[s])
        PROVE  /\ p \in Pages
               /\ \/ at[p] = RootAt(s)
                  \/ \E i \in Index : at[p] = MidAt(s, i)
                  \/ \E i, j \in Index : at[p] = LowAt(s, i, j)
    <3>1. at[root[s]] = RootAt(s) /\ root[s] \in Pages
      BY <2>1, <2>2, <2>4 DEF RootsPlaced
    <3> QED  BY <2>3, <2>4, <3>1, TablePagesOf
  <2>5. ASSUME NEW s \in Spaces, NEW t \in Spaces, root[s] # NULL, root[t] # NULL, s # t,
               NEW p \in TablePages(mem, root[s]), p \in TablePages(mem, root[t])
        PROVE  FALSE
    BY <2>4, <2>5, PlacesDiffer, OnePlace
  <2>6. ASSUME NEW s \in Spaces, root[s] # NULL, NEW k \in 1..Len(avail),
               avail[k] \in TablePages(mem, root[s])
        PROVE  FALSE
    <3>1. at[avail[k]] = Free
      BY <2>3, <2>6 DEF FreePages
    <3> QED  BY <2>4, <2>6, <3>1, PlacesDiffer
  <2> QED  BY <2>5, <2>6 DEF TablesApart
<1> QED  BY <1>1, Invariance, PTL

\* For every radix, vaddr_to_paddr and the processor's walk agree on every
\* address of every space: a valid entry of an upper level is never a leaf, and
\* one of the last level always is.
THEOREM WalksAgree == Spec => []SoftwareWalkAgrees
<1>1. ASSUME PageInv, NEW s \in Spaces, root[s] # NULL,
             NEW va \in 0..(Radix * Radix * Radix * PAGE_SIZE - 1)
      PROVE  LET leaf == Walk(mem, root[s], va) IN
             vaddr_to_paddr(mem, root[s], va) =
               IF leaf = Unmapped THEN NULL ELSE (leaf.ppn * PAGE_SIZE) + (va % PAGE_SIZE)
  <2> DEFINE r == root[s]
             pte2 == mem[r][vpn2(va)]
             t1 == pte2.ppn
             pte1 == mem[t1][vpn1(va)]
             t0 == pte1.ppn
             pte0 == mem[t0][vpn0(va)]
  <2>1. PICK at : Tree(State, Pages, Spaces, at) /\ RootsPlaced(root, at)
    BY <1>1 DEF PageInv
  <2>2. r \in Pages /\ at[r] = RootAt(s) /\ Tables(mem, Pages, Spaces, at)
    BY <1>1, <2>1 DEF PageInv, RootsPlaced, Tree, State
  <2>3. vpn2(va) \in Index /\ vpn1(va) \in Index /\ vpn0(va) \in Index
    <3>1. va \in Nat
      BY PageWalkAssumption DEF PAGE_SIZE
    <3> QED  BY <3>1, Digits
  <2>4. /\ Branch(pte2) => t1 \in Pages /\ at[t1] = MidAt(s, vpn2(va))
        /\ Branch(pte2) /\ Branch(pte1) => t0 \in Pages /\ at[t0] = LowAt(s, vpn2(va), vpn1(va))
    <3> HIDE DEF r
    <3>1. Leads(mem, Pages, at, s, r, vpn2(va), vpn1(va))
      BY <2>2, <2>3, Path
    <3> QED  BY <3>1 DEF Leads
  <2>5. /\ Walk(mem, r, va) = IF Branch(pte2) /\ Branch(pte1) /\ Leaf(pte0) THEN pte0 ELSE Unmapped
        /\ vaddr_to_paddr(mem, r, va) =
             IF Valid(pte2) /\ Valid(pte1) /\ Valid(pte0)
               THEN (pte0.ppn * PAGE_SIZE) + (va % PAGE_SIZE) ELSE NULL
    BY DEF Walk, vaddr_to_paddr
  <2> HIDE DEF r
  <2>6. LinksTo(pte2, Pages, at, MidAt(s, vpn2(va)))
    BY <2>2, <2>3 DEF Tables
  <2>7. Valid(pte2) <=> Branch(pte2)
    BY <2>6, Kinds DEF LinksTo
  <2> HIDE DEF t1, pte2
  <2>8. Branch(pte2) => LinksTo(pte1, Pages, at, LowAt(s, vpn2(va), vpn1(va)))
    BY <2>2, <2>3, <2>4 DEF Tables
  <2>9. Branch(pte2) => (Valid(pte1) <=> Branch(pte1))
    BY <2>8, Kinds DEF LinksTo
  <2> HIDE DEF t0, pte1
  <2>10. Branch(pte2) /\ Branch(pte1) => pte0 = ZeroWord \/ Leaf(pte0)
    BY <2>2, <2>3, <2>4 DEF Tables
  <2> HIDE DEF pte0
  <2>11. Branch(pte2) /\ Branch(pte1) => (Valid(pte0) <=> Leaf(pte0))
    BY <2>10, Kinds
  <2>12. Leaf(pte0) => pte0 # Unmapped
    BY Kinds
  <2>13. LET leaf == Walk(mem, r, va) IN
         vaddr_to_paddr(mem, r, va) =
           IF leaf = Unmapped THEN NULL ELSE (leaf.ppn * PAGE_SIZE) + (va % PAGE_SIZE)
    BY <2>5, <2>7, <2>9, <2>11, <2>12
  <2> QED  BY <2>13 DEF r
<1>2. PageInv => SoftwareWalkAgrees
  BY <1>1 DEF SoftwareWalkAgrees
<1> QED  BY <1>2, Invariance, PTL

-----------------------------------------------------------------------------
(* The refinement of AddressSpace.                                         *)

LEMMA TranslationIs ==
  ASSUME NEW s \in Spaces, NEW v \in VPages
  PROVE  Translation(s)[v] =
           IF root[s] = NULL THEN Unmapped
           ELSE WalkAt(mem, root[s], vpn2(v * PAGE_SIZE), vpn1(v * PAGE_SIZE), vpn0(v * PAGE_SIZE))
BY WalkByIndex DEF Translation

LEMMA PageIndices ==
  ASSUME NEW v \in VPages
  PROVE  /\ v * PAGE_SIZE \in Nat
         /\ vpn2(v * PAGE_SIZE) \in Index /\ vpn1(v * PAGE_SIZE) \in Index
         /\ vpn0(v * PAGE_SIZE) \in Index
<1>1. v * PAGE_SIZE \in Nat
  BY PageWalkAssumption DEF VPages, PAGE_SIZE
<1> QED  BY <1>1, Digits

\* Spaces whose walks stay the same do not change.
LEMMA SpacesStay ==
  ASSUME \A s \in Spaces, v \in VPages : Translation(s)[v]' = Translation(s)[v]
  PROVE  AllSpaces' = AllSpaces
<1>1. \A s \in Spaces : Translation(s)' = Translation(s)
  BY DEF Translation
<1> QED  BY <1>1 DEF AllSpaces

LEMMA AbstractRoot ==
  ASSUME PageInv, NEW s \in Spaces, NewRoot(s)
  PROVE  AllSpaces' = AllSpaces
<1>1. PICK at : Tree(State, Pages, Spaces, at) /\ RootsPlaced(root, at)
  BY DEF PageInv
<1>2. root \in [Spaces -> Pages]
  BY DEF PageInv
<1>3. /\ SameWalks(mem, mem', Pages, Spaces, at)
      /\ \A x \in Spaces : root'[x] = root[x] \/ (root[x] = NULL /\ mem'[root'[x]] = ZeroPage)
  BY <1>1, <1>2, RootStep
<1>4. ASSUME NEW x \in Spaces, NEW v \in VPages
      PROVE  Translation(x)[v]' = Translation(x)[v]
  <2> DEFINE a == vpn2(v * PAGE_SIZE)
             b == vpn1(v * PAGE_SIZE)
             c == vpn0(v * PAGE_SIZE)
  <2>1. a \in Index /\ b \in Index /\ c \in Index
    BY PageIndices
  <2>2. /\ Translation(x)[v] = IF root[x] = NULL THEN Unmapped ELSE WalkAt(mem, root[x], a, b, c)
        /\ Translation(x)[v]' =
             IF root'[x] = NULL THEN Unmapped ELSE WalkAt(mem', root'[x], a, b, c)
    <3>1. Translation(x)[v] = IF root[x] = NULL THEN Unmapped ELSE WalkAt(mem, root[x], a, b, c)
      BY TranslationIs
    <3>2. Translation(x)[v]' =
             IF root'[x] = NULL THEN Unmapped ELSE WalkAt(mem', root'[x], a, b, c)
      BY WalkByIndex DEF Translation
    <3> QED  BY <3>1, <3>2
  <2> HIDE DEF a, b, c
  <2>3. CASE root'[x] = root[x]
    <3>1. root[x] # NULL => root[x] \in Pages /\ at[root[x]] = RootAt(x)
      BY <1>1, <1>2 DEF RootsPlaced
    <3> QED  BY <1>3, <2>1, <2>2, <2>3, <3>1 DEF SameWalks
  <2>4. CASE root[x] = NULL /\ mem'[root'[x]] = ZeroPage
    <3>1. WalkAt(mem', root'[x], a, b, c) = Unmapped
      BY <2>1, <2>4, EmptyRoot
    <3> QED  BY <2>2, <2>4, <3>1
  <2> QED  BY <1>3, <2>3, <2>4
<1> QED  BY <1>4, SpacesStay

\* A mapping that can be asked for.
LEMMA ProperCall ==
  ASSUME NEW s \in Spaces, NEW va \in VAddrs, NEW pa \in PAddrs, NEW fl \in FlagSets
  PROVE  LET c == Asked(s, va, pa, fl) IN
         /\ c.space = s /\ (c.proper <=> Proper(va, pa, fl))
         /\ Proper(va, pa, fl) => /\ c \in Abs!Requests
                                 /\ va = c.page * PAGE_SIZE
                                 /\ MakePTE(pa, fl) = c.mapping
<1> DEFINE c == Asked(s, va, pa, fl)
<1>1. /\ c.space = s /\ c.page = va \div PAGE_SIZE
      /\ c.mapping = [ppn |-> pa \div PAGE_SIZE, flags |-> fl \cup {"V"}]
      /\ c.proper <=> Proper(va, pa, fl)
  BY DEF Asked, Proper
<1>2. ASSUME Proper(va, pa, fl)
      PROVE  c \in Abs!Requests /\ va = c.page * PAGE_SIZE /\ MakePTE(pa, fl) = c.mapping
  <2>1. Radix \in Nat \ {0, 1} /\ PAGE_SIZE = Radix
    BY PageWalkAssumption DEF PAGE_SIZE
  <2>2. ~ is_aligned(1)
    BY <2>1 DEF is_aligned
  <2>3. PICK v \in VPages : va = v * PAGE_SIZE
    BY <1>2, <2>2 DEF VAddrs, Proper
  <2>4. PICK p \in Targets : pa = p * PAGE_SIZE
    BY <1>2, <2>2 DEF PAddrs, Proper
  <2>5. p \in 0..(PpnLimit - 1) /\ p \in Nat /\ v \in Nat
    BY <2>1, PageTableAssumption, PageWalkAssumption DEF VPages
  <2>6. va \div PAGE_SIZE = v /\ pa \div PAGE_SIZE = p
    BY <2>1, <2>3, <2>4, <2>5, ProductQuotient
  <2>7. MakePTE(pa, fl) = c.mapping
    BY <1>1, <2>4, <2>5, <2>6, MadePTE
  <2>8. c.mapping \in [ppn : Targets, flags : {f \cup {"V"} : f \in FlagSets}]
    BY <1>1, <2>6
  <2>9. c = [space |-> s, page |-> v, mapping |-> c.mapping, proper |-> TRUE]
    BY <1>2, <2>6 DEF Asked, Proper
  <2>10. c \in Abs!Requests
    <3> DEFINE m == c.mapping
               M == [ppn : Targets, flags : {f \cup {"V"} : f \in FlagSets}]
    <3>1. c = [space |-> s, page |-> v, mapping |-> m, proper |-> TRUE] /\ m \in M
      BY <2>8, <2>9
    <3>2. Abs!Requests = [space : Spaces, page : VPages, mapping : M, proper : {TRUE}]
      BY DEF Abs!Requests
    <3> HIDE DEF c, m, M
    <3> QED  BY <3>1, <3>2
  <2> QED  BY <1>1, <2>3, <2>6, <2>7, <2>10
<1> QED  BY <1>1, <1>2

\* map_page does what it was called for, or stops.
LEMMA AbstractMap ==
  ASSUME PageInv, NEW s \in Spaces,
         NEW va \in VAddrs, NEW pa \in PAddrs, NEW fl \in FlagSets, Map(s, va, pa, fl)
  PROVE  Abs!MapOne \/ Abs!Stop
<1> DEFINE c == Asked(s, va, pa, fl)
           a(v) == vpn2(v * PAGE_SIZE)
           b(v) == vpn1(v * PAGE_SIZE)
           d(v) == vpn0(v * PAGE_SIZE)
<1>1. PICK at : Tree(State, Pages, Spaces, at) /\ RootsPlaced(root, at)
  BY DEF PageInv
<1>2. root \in [Spaces -> Pages] /\ root[s] # NULL /\ ~ down /\ call' = c
  BY DEF PageInv, Map
<1>3. /\ root' = root
      /\ down' => /\ SameWalks(mem, mem', Pages, Spaces, at)
                  /\ Proper(va, pa, fl) => avail' = << >>
      /\ ~ down' => /\ Proper(va, pa, fl)
                    /\ OneWalk(mem, mem', Pages, Spaces, at, root[s], s, va, MakePTE(pa, fl))
  BY <1>1, <1>2, MapStep
<1>4. ASSUME NEW x \in Spaces
      PROVE  root[x] # NULL => root[x] \in Pages /\ at[root[x]] = RootAt(x)
  BY <1>1, <1>2 DEF RootsPlaced
<1>5. ASSUME NEW x \in Spaces, NEW v \in VPages
      PROVE  /\ Translation(x)[v] =
                  IF root[x] = NULL THEN Unmapped ELSE WalkAt(mem, root[x], a(v), b(v), d(v))
             /\ Translation(x)[v]' =
                  IF root[x] = NULL THEN Unmapped ELSE WalkAt(mem', root[x], a(v), b(v), d(v))
             /\ a(v) \in Index /\ b(v) \in Index /\ d(v) \in Index
  BY <1>3, PageIndices, WalkByIndex DEF Translation
<1>6. /\ c.space = s /\ (c.proper <=> Proper(va, pa, fl))
      /\ Proper(va, pa, fl) => /\ c \in Abs!Requests
                              /\ va = c.page * PAGE_SIZE
                              /\ MakePTE(pa, fl) = c.mapping
  BY ProperCall
<1> HIDE DEF c
<1>7. CASE down'
  <2>1. ASSUME NEW x \in Spaces, NEW v \in VPages
        PROVE  Translation(x)[v]' = Translation(x)[v]
    BY <1>3, <1>4, <1>5, <1>7 DEF SameWalks
  <2>2. AllSpaces' = AllSpaces
    BY <2>1, SpacesStay
  <2> QED  BY <1>2, <1>3, <1>6, <1>7, <2>2 DEF Abs!Stop
<1>8. CASE ~ down'
  <2> DEFINE v == c.page
             m == c.mapping
  <2>1. /\ c \in Abs!Requests /\ va = v * PAGE_SIZE
        /\ OneWalk(mem, mem', Pages, Spaces, at, root[s], s, va, m)
    BY <1>3, <1>6, <1>8
  <2>2. v \in VPages
    BY <2>1 DEF Abs!Requests
  <2> HIDE DEF v, m
  <2>3. Translation(s)[v]' = m
    BY <1>2, <1>5, <2>1, <2>2 DEF OneWalk
  <2>4. ASSUME NEW x \in Spaces, NEW w \in VPages, x # s \/ w # v
        PROVE  Translation(x)[w]' = Translation(x)[w]
    <3>1. x # s \/ a(w) # vpn2(va) \/ b(w) # vpn1(va) \/ d(w) # vpn0(va)
      BY <2>1, <2>2, <2>4, OnePage DEF VPages
    <3>2. a(w) \in Index /\ b(w) \in Index /\ d(w) \in Index
      BY <1>5
    <3> HIDE DEF a, b, d
    <3>3. root[x] # NULL =>
            WalkAt(mem', root[x], a(w), b(w), d(w)) = WalkAt(mem, root[x], a(w), b(w), d(w))
      BY <1>4, <2>1, <3>1, <3>2 DEF OneWalk, OtherWalks
    <3> QED  BY <1>5, <3>3
  <2>5. /\ \A x \in Spaces : x # s => Translation(x)' = Translation(x)
        /\ Translation(s)' = [Translation(s) EXCEPT ![v] = m]
    <3>1. ASSUME NEW x \in Spaces, x # s PROVE Translation(x)' = Translation(x)
      BY <2>4, <3>1 DEF Translation
    <3>2. Translation(s)' = [Translation(s) EXCEPT ![v] = m]
      <4>1. /\ Translation(s) = [w \in VPages |-> Translation(s)[w]]
            /\ Translation(s)' = [w \in VPages |-> Translation(s)[w]']
        BY DEF Translation
      <4>2. \A w \in VPages : Translation(s)[w]' = [Translation(s) EXCEPT ![v] = m][w]
        BY <2>3, <2>4, <4>1
      <4> QED  BY <4>1, <4>2
    <3> QED  BY <3>1, <3>2
  <2>6. AllSpaces' = [AllSpaces EXCEPT ![s][v] = m]
    BY <2>5 DEF AllSpaces
  <2> QED  BY <1>2, <1>6, <1>8, <2>1, <2>6 DEF Abs!MapOne, v, m
<1> QED  BY <1>7, <1>8

\* For every radix, heap and number of spaces, page tables in memory implement
\* address spaces, call by call: map_page maps the page of its own vaddr in its own
\* space to its own paddr with its own flags, and changes no other translation of
\* any space; it stops, and changes none, only when it refuses its arguments or kalloc
\* has no page left.
THEOREM ImplementsSpaces == Spec => ImplementsAddressSpace
<1> DEFINE seen == <<AllSpaces, call, down>>
<1>1. Init => Abs!Init
  <2> SUFFICES ASSUME Init PROVE Abs!Init
    OBVIOUS
  <2>1. \A s \in Spaces : Translation(s) = Abs!Nothing
    BY DEF Init, Translation, Abs!Nothing
  <2>2. AllSpaces = [s \in Spaces |-> Abs!Nothing]
    BY <2>1 DEF AllSpaces
  <2> QED  BY <2>2 DEF Init, Abs!Init
<1>2. ASSUME PageInv, [Next]_vars
      PROVE  [Abs!Next]_seen
  <2>1. ASSUME NEW s \in Spaces, NewRoot(s) PROVE [Abs!Next]_seen
    <3>1. AllSpaces' = AllSpaces
      BY <1>2, <2>1, AbstractRoot
    <3>2. ~ down /\ call' = call /\ root \in [Spaces -> Pages]
      BY <1>2, <2>1 DEF NewRoot, PageInv
    <3>3. down' \in BOOLEAN /\ (down' => avail' = << >>) /\ down = FALSE
      <4>1. PICK at : Tree(State, Pages, Spaces, at) /\ RootsPlaced(root, at)
        BY <1>2 DEF PageInv
      <4>2. down \in BOOLEAN
        BY <4>1 DEF Tree, State
      <4> QED  BY <2>1, <3>2, <4>1, <4>2, RootStep
    <3> QED  BY <3>1, <3>2, <3>3 DEF Abs!Next, Abs!Stop
  <2>2. ASSUME NEW s \in Spaces, NEW va \in VAddrs, NEW pa \in PAddrs, NEW fl \in FlagSets,
               Map(s, va, pa, fl)
        PROVE  [Abs!Next]_seen
    BY <1>2, <2>2, AbstractMap DEF Abs!Next
  <2>3. CASE UNCHANGED vars
    <3>1. AllSpaces' = AllSpaces /\ call' = call /\ down' = down
      BY <2>3 DEF AllSpaces, Translation, vars
    <3> QED  BY <3>1
  <2> QED  BY <1>2, <2>1, <2>2, <2>3 DEF Next, Done
<1> QED  BY <1>1, <1>2, Invariance, PTL DEF Spec, ImplementsAddressSpace, Abs!Spec
=============================================================================
