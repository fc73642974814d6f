---------------------------- MODULE ProcessProofs ----------------------------
(***************************************************************************)
(* What the address spaces of create_process promise, for every memory      *)
(* layout, image and number of processes: while they are built, and         *)
(* whatever user code stores afterwards.                                    *)
(***************************************************************************)
EXTENDS CreateProcess, WalkProofs

PhysPages == 0..(PpnLimit - 1)

HeapRange == FreeRam..(FreeRamEnd - 1)

\* The k-th page of the image of process s in memory.
ImagePage(s, k) ==
  [i \in Index |-> IF k * PAGE_SIZE + i < SizeOf(s) THEN ImageWord(k * PAGE_SIZE + i)
                   ELSE ZeroWord]

\* The loop over the image of process s has come to page U; it ends there.
Reached(U, s) == U = 0 \/ (U - 1) * PAGE_SIZE < SizeOf(s)

HoldsImage(U, s) == Reached(U, s) /\ U * PAGE_SIZE >= SizeOf(s)

\* Only the heap is handed out. Processes count from 1: DataAt(0, 0) is the
\* place of memory outside the heap.
HeapOnly(at) ==
  /\ \A p \in PhysPages : at[p] = Free => p \in HeapRange
  /\ \A p \in PhysPages, s \in Nat \ {0} : \A k : at[p] = DataAt(s, k) => p \in HeapRange

\* What a process s has at virtual page v once the loops of create_process have
\* come to page K of the kernel, device V and page U of the image. The pages
\* user code can reach are those of the image, and the process's own.
CoversPage(leaf, at, s, v, K, V, U) ==
  /\ v \in KernelBase..(K - 1) => leaf = [ppn |-> v, flags |-> {"V", "R", "W", "X"}]
  /\ v \in Virtio..(Virtio + V - 1) => leaf = [ppn |-> v, flags |-> {"V", "R", "W"}]
  /\ v \in UserBase..(UserBase + U - 1) =>
       /\ leaf.flags = {"V", "U", "R", "W", "X"} /\ leaf.ppn \in PhysPages
       /\ at[leaf.ppn] = DataAt(s, v - UserBase)
  /\ "U" \in leaf.flags => v \in UserBase..(UserBase + U - 1)

Covers(m, at, s, r, K, V, U) ==
  \A v \in VPages : CoversPage(Walk(m, r, v * PAGE_SIZE), at, s, v, K, V, U)

\* The processes that are complete.
Complete(tb, m, at) ==
  \A i \in 1..Len(tb) :
    /\ tb[i] \in PhysPages /\ at[tb[i]] = RootAt(i)
    /\ \E U \in Nat : /\ HoldsImage(U, i)
                      /\ Covers(m, at, i, tb[i], FreeRamEnd, NumDevices, U)

\* The one that is being built.
Building(s, r, m, at, ph, cur) ==
  /\ ph \in {"kernel", "device", "user"} => r \in PhysPages /\ at[r] = RootAt(s)
  /\ ph = "kernel" => Covers(m, at, s, r, cur, 0, 0)
  /\ ph = "device" => Covers(m, at, s, r, FreeRamEnd, cur, 0)
  /\ ph = "user" => Covers(m, at, s, r, FreeRamEnd, NumDevices, cur) /\ Reached(cur, s)

\* Before user code runs, its pages hold the image.
Loaded(m, at) ==
  \A p \in PhysPages, s \in Nat \ {0}, k \in Nat : at[p] = DataAt(s, k) =>
    m[p] = ImagePage(s, k)

ProcessInv ==
  /\ phase \in {"root", "kernel", "device", "user", "run"}
  /\ cursor \in Nat
  /\ tables \in Seq(PhysPages)
  /\ down \in BOOLEAN
  /\ \E at :
       /\ Tree(Memory, PhysPages, Nat, at)
       /\ HeapOnly(at)
       /\ Complete(tables, mem, at)
       /\ ~ down => Building(Len(tables) + 1, root \div PAGE_SIZE, mem, at, phase, cursor)
       /\ phase # "run" \/ cursor = 0 => Loaded(mem, at)

-----------------------------------------------------------------------------
(* Walks by page.                                                          *)

LEMMA Layout ==
  /\ Radix \in Nat \ {0, 1} /\ PAGE_SIZE = Radix /\ PpnLimit \in Nat \ {0}
  /\ KernelBase \in Nat /\ FreeRam \in Nat /\ FreeRamEnd \in Nat /\ UserBase \in Nat
  /\ Virtio \in Nat /\ NumDevices \in Nat
  /\ Radix * Radix * Radix \in Nat
  /\ 0 < KernelBase /\ KernelBase < FreeRam /\ FreeRam < FreeRamEnd
  /\ FreeRamEnd <= PpnLimit /\ FreeRamEnd <= Radix * Radix * Radix
  /\ Virtio + NumDevices <= KernelBase
BY PageWalkAssumption, LayoutAssumption DEF PAGE_SIZE

LEMMA Sizes ==
  ASSUME NEW i \in Nat
  PROVE  SizeOf(i) \in Nat /\ (0 < SizeOf(i) =>
           UserBase * PAGE_SIZE + SizeOf(i) <= Virtio * PAGE_SIZE)
<1>1. CASE i - 1 \in 1..Len(ImageSizes)
  <2> DEFINE z == ImageSizes[i - 1]
  <2>1. z \in Nat /\ UserBase * PAGE_SIZE + z <= Virtio * PAGE_SIZE
    BY <1>1, LayoutAssumption, ElementOfSeq
  <2>2. SizeOf(i) = z
    BY <1>1 DEF SizeOf
  <2> HIDE DEF z
  <2> QED  BY <2>1, <2>2
<1>2. CASE ~ (i - 1 \in 1..Len(ImageSizes))
  BY <1>2 DEF SizeOf
<1> QED  BY <1>1, <1>2

LEMMA PageIndices ==
  ASSUME NEW v \in VPages
  PROVE  /\ v \in Nat /\ v * PAGE_SIZE \in Nat
         /\ vpn2(v * PAGE_SIZE) \in Index /\ vpn1(v * PAGE_SIZE) \in Index
         /\ vpn0(v * PAGE_SIZE) \in Index
<1>1. v \in Nat /\ v * PAGE_SIZE \in Nat
  BY PageWalkAssumption DEF VPages, PAGE_SIZE
<1> QED  BY <1>1, Digits

\* All words of a page are mapped alike.
LEMMA WalkOfPage ==
  ASSUME NEW m, NEW r, NEW va \in Nat
  PROVE  Walk(m, r, va) = Walk(m, r, (va \div PAGE_SIZE) * PAGE_SIZE)
<1> DEFINE v == va \div Radix
<1>1. Radix \in Nat \ {0} /\ PAGE_SIZE = Radix
  BY Layout
<1>2. v \in Nat
  BY <1>1, Quotient
<1> HIDE DEF v
<1>3. (v * Radix) \div Radix = v /\ v * Radix \in Nat
  BY <1>1, <1>2, ProductQuotient
<1>4. /\ vpn0(va) = vpn0(v * Radix) /\ vpn1(va) = vpn1(v * Radix)
      /\ vpn2(va) = vpn2(v * Radix)
  BY <1>3, Digits DEF v
<1>5. Walk(m, r, va) = Walk(m, r, v * Radix)
  BY <1>4, WalkByIndex
<1> QED  BY <1>1, <1>5 DEF v

\* The walks of all spaces stay the same.
SamePages(m, m2, at) ==
  \A x \in Nat, q \in PhysPages : at[q] = RootAt(x) =>
    \A w \in VPages : Walk(m2, q, w * PAGE_SIZE) = Walk(m, q, w * PAGE_SIZE)

LEMMA SameByPage ==
  ASSUME NEW m, NEW m2, NEW at, SameWalks(m, m2, PhysPages, Nat, at)
  PROVE  SamePages(m, m2, at)
BY WalkByIndex, PageIndices DEF SameWalks, SamePages

\* What a call of map_page for page v of space s, whose root is r, leaves
\* behind: it has failed, or only the walk of that page has changed.
OnePageMapped(m, n, at, at2, s, r, v, leaf) ==
  /\ Tree(n, PhysPages, Nat, at2)
  /\ Kept(m, n.mem, PhysPages, at, at2)
  /\ n.down => SamePages(m, n.mem, at)
  /\ ~ n.down =>
       /\ Walk(n.mem, r, v * PAGE_SIZE) = leaf
       /\ \A x \in Nat, q \in PhysPages, w \in VPages :
            at[q] = RootAt(x) /\ (x # s \/ w # v) =>
              Walk(n.mem, q, w * PAGE_SIZE) = Walk(m, q, w * PAGE_SIZE)

\* map_page called with a page that is in range.
LEMMA MapsOnePage ==
  ASSUME NEW at, NEW st, Tree(st, PhysPages, Nat, at), ~ st.down,
         NEW r \in PhysPages, NEW s \in Nat, at[r] = RootAt(s),
         NEW v \in VPages, NEW p \in PhysPages, NEW flags \in SUBSET Flags
  PROVE  \E at2 : OnePageMapped(st.mem, map_page(st, r, v * PAGE_SIZE, p * PAGE_SIZE, flags),
                               at, at2, s, r, v, [ppn |-> p, flags |-> flags \cup {"V"}])
<1> DEFINE va == v * PAGE_SIZE
           pa == p * PAGE_SIZE
           n == map_page(st, r, va, pa, flags)
           pte == [ppn |-> p, flags |-> flags \cup {"V"}]
<1>1. va \in Nat /\ vpn2(va) \in Index /\ vpn1(va) \in Index /\ vpn0(va) \in Index
  BY PageIndices
<1>2. MakePTE(pa, flags) = pte
  BY MadePTE DEF PhysPages
<1>3. MakePTE(pa, flags) \in Words
  <2>1. flags \cup {"V"} \in SUBSET Flags /\ p \in Nat
    BY Layout DEF Flags, PhysPages
  <2> QED  BY <1>2, <2>1 DEF Words
<1> HIDE DEF va, pa
<1>4. PICK at2 : PageMapped(st, n, PhysPages, Nat, at, at2, r, s, va, pa, flags)
  BY <1>1, <1>3, MapPageMaps
<1> HIDE DEF n, pte
<1>5. n.down => SamePages(st.mem, n.mem, at)
  BY <1>4, SameByPage DEF PageMapped
<1>6. ASSUME ~ n.down, NEW x \in Nat, NEW q \in PhysPages, NEW w \in VPages,
             at[q] = RootAt(x), x # s \/ w # v
      PROVE  Walk(n.mem, q, w * PAGE_SIZE) = Walk(st.mem, q, w * PAGE_SIZE)
  <2> DEFINE a == vpn2(w * PAGE_SIZE)
             b == vpn1(w * PAGE_SIZE)
             c == vpn0(w * PAGE_SIZE)
  <2>1. a \in Index /\ b \in Index /\ c \in Index
    BY PageIndices
  <2>2. x # s \/ a # vpn2(va) \/ b # vpn1(va) \/ c # vpn0(va)
    BY <1>6, OnePage DEF va, VPages
  <2>3. /\ Walk(n.mem, q, w * PAGE_SIZE) = WalkAt(n.mem, q, a, b, c)
        /\ Walk(st.mem, q, w * PAGE_SIZE) = WalkAt(st.mem, q, a, b, c)
    BY WalkByIndex
  <2> HIDE DEF a, b, c
  <2> QED  BY <1>4, <1>6, <2>1, <2>2, <2>3 DEF PageMapped, OneWalk, OtherWalks
<1>7. ~ n.down => Walk(n.mem, r, va) = pte
  BY <1>2, <1>4, WalkByIndex DEF PageMapped, OneWalk
<1>8. n = map_page(st, r, v * PAGE_SIZE, p * PAGE_SIZE, flags)
  BY DEF n, va, pa
<1>9. OnePageMapped(st.mem, n, at, at2, s, r, v, pte)
  BY <1>4, <1>5, <1>6, <1>7 DEF OnePageMapped, PageMapped, va
<1> QED  BY <1>8, <1>9 DEF pte

-----------------------------------------------------------------------------
(* What stays when another page is mapped.                                  *)

DataStays(at, at2) ==
  \A p \in PhysPages : \A x, k : at[p] = DataAt(x, k) => at2[p] = DataAt(x, k)

LEMMA PageStays ==
  ASSUME NEW leaf, NEW at, NEW at2, NEW s, NEW v, NEW K, NEW V, NEW U,
         CoversPage(leaf, at, s, v, K, V, U), DataStays(at, at2)
  PROVE  CoversPage(leaf, at2, s, v, K, V, U)
<1> DEFINE p == leaf.ppn
<1>1. ASSUME NEW k, p \in PhysPages, at[p] = DataAt(s, k) PROVE at2[p] = DataAt(s, k)
  BY <1>1 DEF DataStays
<1> QED  BY <1>1 DEF CoversPage

LEMMA CoversStays ==
  ASSUME NEW m, NEW m2, NEW at, NEW at2, NEW s, NEW r, NEW K, NEW V, NEW U,
         Covers(m, at, s, r, K, V, U), DataStays(at, at2),
         \A w \in VPages : Walk(m2, r, w * PAGE_SIZE) = Walk(m, r, w * PAGE_SIZE)
  PROVE  Covers(m2, at2, s, r, K, V, U)
BY PageStays DEF Covers

\* One more page of the kernel, one more device, one more page of the image.
LEMMA CoversKernel ==
  ASSUME NEW m, NEW m2, NEW at, NEW at2, NEW s, NEW r, NEW K \in Nat,
         Covers(m, at, s, r, K, 0, 0), DataStays(at, at2),
         \A w \in VPages : w # K => Walk(m2, r, w * PAGE_SIZE) = Walk(m, r, w * PAGE_SIZE),
         Walk(m2, r, K * PAGE_SIZE) = [ppn |-> K, flags |-> {"V", "R", "W", "X"}]
  PROVE  Covers(m2, at2, s, r, K + 1, 0, 0)
<1>1. ASSUME NEW v \in VPages, NEW leaf, leaf = Walk(m2, r, v * PAGE_SIZE)
      PROVE  CoversPage(leaf, at2, s, v, K + 1, 0, 0)
  <2>1. ~ (v \in Virtio..(Virtio + 0 - 1)) /\ ~ (v \in UserBase..(UserBase + 0 - 1))
    BY Layout
  <2>2. CASE v = K
    <3>1. leaf = [ppn |-> v, flags |-> {"V", "R", "W", "X"}]
      BY <1>1, <2>2
    <3> QED  BY <2>1, <3>1 DEF CoversPage
  <2>3. CASE v # K
    <3>1. v \in KernelBase..(K + 1 - 1) => v \in KernelBase..(K - 1)
      BY <2>3, Layout, PageIndices
    <3>2. CoversPage(leaf, at, s, v, K, 0, 0)
      BY <1>1, <2>3 DEF Covers
    <3>3. CoversPage(leaf, at2, s, v, K, 0, 0)
      BY <3>2, PageStays
    <3> QED  BY <3>1, <3>3 DEF CoversPage
  <2> QED  BY <2>2, <2>3
<1> QED  BY <1>1 DEF Covers

LEMMA CoversDevice ==
  ASSUME NEW m, NEW m2, NEW at, NEW at2, NEW s, NEW r, NEW V \in Nat,
         Covers(m, at, s, r, FreeRamEnd, V, 0), DataStays(at, at2), V < NumDevices,
         \A w \in VPages : w # Virtio + V =>
           Walk(m2, r, w * PAGE_SIZE) = Walk(m, r, w * PAGE_SIZE),
         Walk(m2, r, (Virtio + V) * PAGE_SIZE) =
           [ppn |-> Virtio + V, flags |-> {"V", "R", "W"}]
  PROVE  Covers(m2, at2, s, r, FreeRamEnd, V + 1, 0)
<1>1. ASSUME NEW v \in VPages, NEW leaf, leaf = Walk(m2, r, v * PAGE_SIZE)
      PROVE  CoversPage(leaf, at2, s, v, FreeRamEnd, V + 1, 0)
  <2>1. ~ (v \in UserBase..(UserBase + 0 - 1))
    BY Layout
  <2>2. CASE v = Virtio + V
    <3>1. leaf = [ppn |-> v, flags |-> {"V", "R", "W"}]
      BY <1>1, <2>2
    <3>2. ~ (v \in KernelBase..(FreeRamEnd - 1))
      BY <2>2, Layout
    <3> QED  BY <2>1, <3>1, <3>2 DEF CoversPage
  <2>3. CASE v # Virtio + V
    <3>1. v \in Virtio..(Virtio + (V + 1) - 1) => v \in Virtio..(Virtio + V - 1)
      BY <2>3, Layout, PageIndices
    <3>2. CoversPage(leaf, at, s, v, FreeRamEnd, V, 0)
      BY <1>1, <2>3 DEF Covers
    <3>3. CoversPage(leaf, at2, s, v, FreeRamEnd, V, 0)
      BY <3>2, PageStays
    <3> QED  BY <3>1, <3>3 DEF CoversPage
  <2> QED  BY <2>2, <2>3
<1> QED  BY <1>1 DEF Covers

LEMMA CoversUser ==
  ASSUME NEW m, NEW m2, NEW at, NEW at2, NEW s, NEW r, NEW U \in Nat, NEW p \in PhysPages,
         Covers(m, at, s, r, FreeRamEnd, NumDevices, U), DataStays(at, at2),
         UserBase + U < Virtio,
         \A w \in VPages : w # UserBase + U =>
           Walk(m2, r, w * PAGE_SIZE) = Walk(m, r, w * PAGE_SIZE),
         Walk(m2, r, (UserBase + U) * PAGE_SIZE) =
           [ppn |-> p, flags |-> {"V", "U", "R", "W", "X"}],
         at2[p] = DataAt(s, U)
  PROVE  Covers(m2, at2, s, r, FreeRamEnd, NumDevices, U + 1)
<1>1. ASSUME NEW v \in VPages, NEW leaf, leaf = Walk(m2, r, v * PAGE_SIZE)
      PROVE  CoversPage(leaf, at2, s, v, FreeRamEnd, NumDevices, U + 1)
  <2>1. CASE v = UserBase + U
    <3>1. leaf = [ppn |-> p, flags |-> {"V", "U", "R", "W", "X"}]
      BY <1>1, <2>1
    <3>2. /\ ~ (v \in KernelBase..(FreeRamEnd - 1)) /\ ~ (v \in Virtio..(Virtio + NumDevices - 1))
          /\ v - UserBase = U /\ v \in UserBase..(UserBase + (U + 1) - 1)
      BY <2>1, Layout
    <3> QED  BY <3>1, <3>2 DEF CoversPage
  <2>2. CASE v # UserBase + U
    <3>1. v \in UserBase..(UserBase + (U + 1) - 1) <=> v \in UserBase..(UserBase + U - 1)
      BY <2>2, Layout, PageIndices
    <3>2. CoversPage(leaf, at, s, v, FreeRamEnd, NumDevices, U)
      BY <1>1, <2>2 DEF Covers
    <3>3. CoversPage(leaf, at2, s, v, FreeRamEnd, NumDevices, U)
      BY <3>2, PageStays
    <3> QED  BY <3>1, <3>3 DEF CoversPage
  <2> QED  BY <2>1, <2>2
<1> QED  BY <1>1 DEF Covers

\* What the pages map_page takes do to the rest of the invariant.
LEMMA KeptStays ==
  ASSUME NEW m, NEW m2, NEW at, NEW at2, Kept(m, m2, PhysPages, at, at2)
  PROVE  /\ DataStays(at, at2)
         /\ HeapOnly(at) => HeapOnly(at2)
         /\ Loaded(m, at) => Loaded(m2, at2)
         /\ \A p \in PhysPages : \A x : at[p] = RootAt(x) => at2[p] = RootAt(x)
<1>1. \A p \in PhysPages : \A x, k : at[p] = DataAt(x, k) => at2[p] = DataAt(x, k)
  BY PlacesDiffer DEF Kept
<1>2. \A p \in PhysPages : \A x, k : at2[p] = DataAt(x, k) => at[p] = DataAt(x, k)
  BY PlacesDiffer DEF Kept
<1>3. \A p \in PhysPages : at2[p] = Free => at[p] = Free
  BY PlacesDiffer DEF Kept
<1>4. \A p \in PhysPages : \A x : at[p] = RootAt(x) => at2[p] = RootAt(x)
  BY PlacesDiffer DEF Kept
<1>5. HeapOnly(at) => HeapOnly(at2)
  BY <1>2, <1>3 DEF HeapOnly
<1>6. Loaded(m, at) => Loaded(m2, at2)
  BY <1>2 DEF Loaded, Kept
<1> QED  BY <1>1, <1>4, <1>5, <1>6 DEF DataStays

LEMMA CompleteStays ==
  ASSUME NEW tb, NEW m, NEW m2, NEW at, NEW at2, Complete(tb, m, at), DataStays(at, at2),
         \A p \in PhysPages : \A x : at[p] = RootAt(x) => at2[p] = RootAt(x),
         \A i \in 1..Len(tb), w \in VPages :
           Walk(m2, tb[i], w * PAGE_SIZE) = Walk(m, tb[i], w * PAGE_SIZE)
  PROVE  Complete(tb, m2, at2)
<1> SUFFICES ASSUME NEW i \in 1..Len(tb)
             PROVE  /\ tb[i] \in PhysPages /\ at2[tb[i]] = RootAt(i)
                    /\ \E U \in Nat :
                         /\ HoldsImage(U, i)
                         /\ Covers(m2, at2, i, tb[i], FreeRamEnd, NumDevices, U)
  BY DEF Complete
<1>1. tb[i] \in PhysPages /\ at2[tb[i]] = RootAt(i)
  BY DEF Complete
<1>2. PICK U \in Nat : /\ HoldsImage(U, i)
                       /\ Covers(m, at, i, tb[i], FreeRamEnd, NumDevices, U)
  BY DEF Complete
<1>3. Covers(m2, at2, i, tb[i], FreeRamEnd, NumDevices, U)
  BY <1>2, CoversStays
<1> QED  BY <1>1, <1>2, <1>3

-----------------------------------------------------------------------------
(* The steps.                                                              *)

LEMMA ProcessInit == Init => ProcessInv
<1> SUFFICES ASSUME Init PROVE ProcessInv
  OBVIOUS
<1> DEFINE at == [p \in PhysPages |-> IF p \in HeapRange THEN Free ELSE DataAt(0, 0)]
           P == {p \in PhysPages : p \in 1..(PpnLimit - 1)}
<1>1. /\ IsPlacing(at, PhysPages)
      /\ \A p \in PhysPages : at[p] = IF p \in HeapRange THEN Free ELSE DataAt(0, 0)
  BY DEF IsPlacing
<1> HIDE DEF at
<1>2. HeapOnly(at)
  BY <1>1, PlacesDiffer, OnePlace DEF HeapOnly
<1>3. Loaded(mem, at)
  BY <1>1, PlacesDiffer, OnePlace DEF Loaded
<1>4. OtherWord \in Words
  BY Layout DEF OtherWord, Words, Flags
<1>5. mem \in [PhysPages -> [Index -> Words]]
  BY <1>4 DEF Init, PhysPages
<1>6. Tables(mem, PhysPages, Nat, at)
  <2>1. \A p \in PhysPages : \A x, i, j :
          at[p] # RootAt(x) /\ at[p] # MidAt(x, i) /\ at[p] # LowAt(x, i, j)
    BY <1>1, PlacesDiffer
  <2> QED  BY <1>1, <1>5, <2>1 DEF Tables
<1>7. avail = HeapOrder /\ HeapOrder \in Seq(HeapRange)
  BY LayoutAssumption DEF Init, HeapRange
<1>8. \A p \in HeapRange : p \in P /\ p \in PhysPages
  BY Layout DEF HeapRange, PhysPages
<1>9. \A k \in 1..Len(avail) : avail[k] \in HeapRange
  BY <1>7, ElementOfSeq
<1>10. avail \in Seq(P)
  <2> HIDE DEF P
  <2>1. Len(avail) \in Nat /\ avail = [k \in 1..Len(avail) |-> avail[k]]
    BY <1>7, LenProperties, SeqDef
  <2> QED  BY <1>8, <1>9, <2>1, IsASeq
<1>11. FreePages(avail, PhysPages, at)
  BY <1>1, <1>7, <1>8, <1>9, <1>10, LayoutAssumption DEF FreePages
<1>12. Tree(Memory, PhysPages, Nat, at)
  BY <1>6, <1>11 DEF Tree, Memory, Init
<1>13. tables = << >> /\ phase = "root" /\ cursor = 0 /\ down = FALSE
  BY DEF Init
<1>14. Complete(tables, mem, at)
  BY <1>13 DEF Complete
<1>15. tables \in Seq(PhysPages)
  BY <1>13
<1> QED  BY <1>2, <1>3, <1>12, <1>13, <1>14, <1>15 DEF ProcessInv, Building

\* What a call of map_page for the process that is being built leaves behind.
MappedForNew(m, n, at, at2, tb, r, v, leaf) ==
  /\ Tree(n, PhysPages, Nat, at2) /\ HeapOnly(at2) /\ Complete(tb, n.mem, at2)
  /\ DataStays(at, at2) /\ at2[r] = RootAt(Len(tb) + 1)
  /\ Loaded(m, at) => Loaded(n.mem, at2)
  /\ ~ n.down =>
       /\ Walk(n.mem, r, v * PAGE_SIZE) = leaf
       /\ \A w \in VPages : w # v => Walk(n.mem, r, w * PAGE_SIZE) = Walk(m, r, w * PAGE_SIZE)

LEMMA MapForNew ==
  ASSUME NEW st, NEW at, Tree(st, PhysPages, Nat, at), ~ st.down, HeapOnly(at),
         NEW tb \in Seq(PhysPages), Complete(tb, st.mem, at),
         NEW r \in PhysPages, at[r] = RootAt(Len(tb) + 1),
         NEW v \in VPages, NEW p \in PhysPages, NEW flags \in SUBSET Flags
  PROVE  \E at2 : MappedForNew(st.mem, map_page(st, r, v * PAGE_SIZE, p * PAGE_SIZE, flags),
                               at, at2, tb, r, v, [ppn |-> p, flags |-> flags \cup {"V"}])
<1> DEFINE s == Len(tb) + 1
           n == map_page(st, r, v * PAGE_SIZE, p * PAGE_SIZE, flags)
           leaf == [ppn |-> p, flags |-> flags \cup {"V"}]
<1>1. Len(tb) \in Nat /\ s \in Nat /\ \A i \in 1..Len(tb) : i \in Nat /\ i # s
  BY LenProperties
<1>2. at[r] = RootAt(s)
  OBVIOUS
<1> HIDE DEF s
<1>3. PICK at2 : OnePageMapped(st.mem, n, at, at2, s, r, v, leaf)
  BY <1>1, <1>2, MapsOnePage
<1> HIDE DEF n
<1>4. /\ DataStays(at, at2) /\ HeapOnly(at2)
      /\ Loaded(st.mem, at) => Loaded(n.mem, at2)
      /\ \A q \in PhysPages : \A x : at[q] = RootAt(x) => at2[q] = RootAt(x)
  BY <1>3, KeptStays DEF OnePageMapped
<1>5. ASSUME NEW i \in 1..Len(tb), NEW w \in VPages
      PROVE  Walk(n.mem, tb[i], w * PAGE_SIZE) = Walk(st.mem, tb[i], w * PAGE_SIZE)
  <2>1. tb[i] \in PhysPages /\ at[tb[i]] = RootAt(i) /\ i \in Nat /\ i # s
    BY <1>1 DEF Complete
  <2>2. CASE n.down
    BY <1>3, <2>1, <2>2 DEF SamePages, OnePageMapped
  <2>3. CASE ~ n.down
    BY <1>3, <2>1, <2>3 DEF OnePageMapped
  <2> QED  BY <2>2, <2>3
<1>6. Complete(tb, n.mem, at2)
  BY <1>4, <1>5, CompleteStays
<1>7. at2[r] = RootAt(s)
  BY <1>2, <1>4
<1>8. ASSUME ~ n.down, NEW w \in VPages, w # v
      PROVE  Walk(n.mem, r, w * PAGE_SIZE) = Walk(st.mem, r, w * PAGE_SIZE)
  BY <1>1, <1>2, <1>3, <1>8 DEF OnePageMapped
<1> HIDE DEF leaf
<1>9. MappedForNew(st.mem, n, at, at2, tb, r, v, leaf)
  BY <1>3, <1>4, <1>6, <1>7, <1>8 DEF s, OnePageMapped, MappedForNew
<1> QED  BY <1>9 DEF n, leaf

LEMMA InvParts ==
  ASSUME ProcessInv
  PROVE  /\ cursor \in Nat /\ tables \in Seq(PhysPages) /\ Len(tables) \in Nat
         /\ Memory.mem = mem /\ Memory.avail = avail /\ Memory.down = down
BY LenProperties DEF ProcessInv, Memory

LEMMA MapKernelStep == ProcessInv /\ MapKernel => ProcessInv'
<1> SUFFICES ASSUME ProcessInv, MapKernel PROVE ProcessInv'
  OBVIOUS
<1> DEFINE r == root \div PAGE_SIZE
           s == Len(tables) + 1
           fl == {"R", "W", "X"}
           n == map_page(Memory, r, cursor * PAGE_SIZE, cursor * PAGE_SIZE, fl)
<1>1. PICK at : /\ Tree(Memory, PhysPages, Nat, at) /\ HeapOnly(at)
                /\ Complete(tables, mem, at)
                /\ ~ down => Building(s, r, mem, at, phase, cursor)
                /\ phase # "run" \/ cursor = 0 => Loaded(mem, at)
  BY DEF ProcessInv
<1>2. /\ ~ down /\ phase = "kernel" /\ cursor < FreeRamEnd
      /\ mem' = n.mem /\ avail' = n.avail /\ down' = n.down
      /\ cursor' = cursor + 1 /\ phase' = phase /\ root' = root /\ tables' = tables
  BY DEF MapKernel, Become
<1>3. cursor \in Nat /\ cursor \in VPages /\ cursor \in PhysPages
  BY <1>2, InvParts, Layout DEF VPages, PhysPages
<1>4. /\ r \in PhysPages /\ at[r] = RootAt(s) /\ Covers(mem, at, s, r, cursor, 0, 0)
      /\ Loaded(mem, at)
  BY <1>1, <1>2 DEF Building
<1>5. fl \in SUBSET Flags /\ fl \cup {"V"} = {"V", "R", "W", "X"}
  BY DEF Flags
<1> HIDE DEF r, fl
<1>6. Memory.mem = mem /\ ~ Memory.down /\ tables \in Seq(PhysPages)
  BY <1>2, InvParts
<1>7. PICK at2 :
        MappedForNew(mem, n, at, at2, tables, r, cursor, [ppn |-> cursor, flags |-> fl \cup {"V"}])
  BY <1>1, <1>3, <1>4, <1>5, <1>6, MapForNew
<1> HIDE DEF n, s
<1>8. ~ n.down => Covers(n.mem, at2, s, r, cursor + 1, 0, 0)
  BY <1>3, <1>4, <1>5, <1>7, CoversKernel DEF MappedForNew
<1>9. ~ n.down => Building(s, r, n.mem, at2, "kernel", cursor + 1)
  BY <1>4, <1>7, <1>8 DEF Building, s, MappedForNew
<1>10. Memory' = n /\ n.down \in BOOLEAN
  BY <1>2, <1>7 DEF Memory, Tree, MappedForNew
<1>11. /\ Tree(Memory', PhysPages, Nat, at2) /\ HeapOnly(at2)
       /\ Complete(tables', mem', at2)
       /\ ~ down' => Building(Len(tables') + 1, root' \div PAGE_SIZE, mem', at2, phase', cursor')
       /\ Loaded(mem', at2)
  BY <1>2, <1>4, <1>7, <1>9, <1>10 DEF r, s, MappedForNew
<1>12. /\ phase' \in {"root", "kernel", "device", "user", "run"} /\ cursor' \in Nat
       /\ tables' \in Seq(PhysPages) /\ down' \in BOOLEAN
  BY <1>2, <1>3, <1>6, <1>10
<1> QED  BY <1>11, <1>12 DEF ProcessInv

LEMMA MapDeviceStep == ProcessInv /\ MapDevice => ProcessInv'
<1> SUFFICES ASSUME ProcessInv, MapDevice PROVE ProcessInv'
  OBVIOUS
<1> DEFINE r == root \div PAGE_SIZE
           s == Len(tables) + 1
           fl == {"R", "W"}
           v == Virtio + cursor
           n == map_page(Memory, r, v * PAGE_SIZE, v * PAGE_SIZE, fl)
<1>1. PICK at : /\ Tree(Memory, PhysPages, Nat, at) /\ HeapOnly(at)
                /\ Complete(tables, mem, at)
                /\ ~ down => Building(s, r, mem, at, phase, cursor)
                /\ phase # "run" \/ cursor = 0 => Loaded(mem, at)
  BY DEF ProcessInv
<1>2. /\ ~ down /\ phase = "device" /\ cursor < NumDevices
      /\ mem' = n.mem /\ avail' = n.avail /\ down' = n.down
      /\ cursor' = cursor + 1 /\ phase' = phase /\ root' = root /\ tables' = tables
  BY DEF MapDevice, Become
<1>3. cursor \in Nat /\ v \in VPages /\ v \in PhysPages
  BY <1>2, InvParts, Layout DEF VPages, PhysPages
<1>4. /\ r \in PhysPages /\ at[r] = RootAt(s) /\ Covers(mem, at, s, r, FreeRamEnd, cursor, 0)
      /\ Loaded(mem, at)
  BY <1>1, <1>2 DEF Building
<1>5. fl \in SUBSET Flags /\ fl \cup {"V"} = {"V", "R", "W"} /\ v = Virtio + cursor
  BY DEF Flags
<1> HIDE DEF r, fl, v
<1>6. Memory.mem = mem /\ ~ Memory.down /\ tables \in Seq(PhysPages)
  BY <1>2, InvParts
<1>7. PICK at2 :
        MappedForNew(mem, n, at, at2, tables, r, v, [ppn |-> v, flags |-> fl \cup {"V"}])
  BY <1>1, <1>3, <1>4, <1>5, <1>6, MapForNew
<1> HIDE DEF n, s
<1>8. ~ n.down => Covers(n.mem, at2, s, r, FreeRamEnd, cursor + 1, 0)
  BY <1>2, <1>3, <1>4, <1>5, <1>7, CoversDevice DEF MappedForNew
<1>9. ~ n.down => Building(s, r, n.mem, at2, "device", cursor + 1)
  BY <1>4, <1>7, <1>8 DEF Building, s, MappedForNew
<1>10. Memory' = n /\ n.down \in BOOLEAN
  BY <1>2, <1>7 DEF Memory, Tree, MappedForNew
<1>11. /\ Tree(Memory', PhysPages, Nat, at2) /\ HeapOnly(at2)
       /\ Complete(tables', mem', at2)
       /\ ~ down' => Building(Len(tables') + 1, root' \div PAGE_SIZE, mem', at2, phase', cursor')
       /\ Loaded(mem', at2)
  BY <1>2, <1>4, <1>7, <1>9, <1>10 DEF r, s, MappedForNew
<1>12. /\ phase' \in {"root", "kernel", "device", "user", "run"} /\ cursor' \in Nat
       /\ tables' \in Seq(PhysPages) /\ down' \in BOOLEAN
  BY <1>2, <1>3, <1>6, <1>10
<1> QED  BY <1>11, <1>12 DEF ProcessInv

\* A loop of create_process ends: it has come to its last page.
LEMMA NextLoopStep == ProcessInv /\ NextLoop => ProcessInv'
<1> SUFFICES ASSUME ProcessInv, NextLoop PROVE ProcessInv'
  OBVIOUS
<1> DEFINE r == root \div PAGE_SIZE
           s == Len(tables) + 1
<1>1. PICK at : /\ Tree(Memory, PhysPages, Nat, at) /\ HeapOnly(at)
                /\ Complete(tables, mem, at)
                /\ ~ down => Building(s, r, mem, at, phase, cursor)
                /\ phase # "run" \/ cursor = 0 => Loaded(mem, at)
  BY DEF ProcessInv
<1>2. /\ ~ down /\ cursor' = 0 /\ Memory' = Memory /\ mem' = mem /\ down' = down
      /\ root' = root /\ tables' = tables
      /\ \/ phase = "kernel" /\ cursor >= FreeRamEnd /\ phase' = "device"
         \/ phase = "device" /\ cursor >= NumDevices /\ phase' = "user"
  BY DEF NextLoop, Memory
<1>3. cursor \in Nat
  BY InvParts
<1> HIDE DEF r, s
<1>4. Loaded(mem, at) /\ Building(s, r, mem, at, phase, cursor)
  BY <1>1, <1>2
<1>5. CASE phase = "kernel"
  <2>1. Covers(mem, at, s, r, cursor, 0, 0) /\ cursor >= FreeRamEnd /\ phase' = "device"
    BY <1>2, <1>4, <1>5 DEF Building
  <2>2. \A v \in VPages : v \in KernelBase..(FreeRamEnd - 1) => v \in KernelBase..(cursor - 1)
    BY <1>3, <2>1, Layout
  <2>3. Covers(mem, at, s, r, FreeRamEnd, 0, 0)
    BY <2>1, <2>2 DEF Covers, CoversPage
  <2> QED  BY <1>4, <1>5, <2>1, <2>3, <1>1, <1>2 DEF Building, ProcessInv, r, s
<1>6. CASE phase = "device"
  <2>1. Covers(mem, at, s, r, FreeRamEnd, cursor, 0) /\ cursor >= NumDevices /\ phase' = "user"
    BY <1>2, <1>4, <1>6 DEF Building
  <2>2. \A v \in VPages : v \in Virtio..(Virtio + NumDevices - 1) =>
          v \in Virtio..(Virtio + cursor - 1)
    BY <1>3, <2>1, Layout
  <2>3. Covers(mem, at, s, r, FreeRamEnd, NumDevices, 0)
    BY <2>1, <2>2 DEF Covers, CoversPage
  <2> QED  BY <1>4, <1>6, <2>1, <2>3, <1>1, <1>2 DEF Building, Reached, ProcessInv, r, s
<1> QED  BY <1>2, <1>5, <1>6

\* create_process returns: the new process is complete.
LEMMA CreatedStep == ProcessInv /\ Created => ProcessInv'
<1> SUFFICES ASSUME ProcessInv, Created PROVE ProcessInv'
  OBVIOUS
<1> DEFINE r == root \div PAGE_SIZE
           s == Len(tables) + 1
<1>1. PICK at : /\ Tree(Memory, PhysPages, Nat, at) /\ HeapOnly(at)
                /\ Complete(tables, mem, at)
                /\ ~ down => Building(s, r, mem, at, phase, cursor)
                /\ phase # "run" \/ cursor = 0 => Loaded(mem, at)
  BY DEF ProcessInv
<1>2. /\ ~ down /\ phase = "user" /\ cursor * PAGE_SIZE >= image_size
      /\ Memory' = Memory /\ mem' = mem /\ down' = down
      /\ tables' = Append(tables, r) /\ cursor' = 0
      /\ phase' \in {"run", "root"}
  BY DEF Created, Memory, mvars
<1>3. cursor \in Nat /\ tables \in Seq(PhysPages) /\ Len(tables) \in Nat
  BY InvParts
<1>4. /\ r \in PhysPages /\ at[r] = RootAt(s)
      /\ Covers(mem, at, s, r, FreeRamEnd, NumDevices, cursor) /\ Loaded(mem, at)
      /\ Reached(cursor, s)
  BY <1>1, <1>2 DEF Building
<1>5. HoldsImage(cursor, s)
  BY <1>2, <1>4 DEF image_size, HoldsImage
<1>6. /\ tables' \in Seq(PhysPages) /\ Len(tables') = s /\ tables'[s] = r
      /\ \A i \in 1..Len(tables) : tables'[i] = tables[i]
      /\ \A i \in 1..s : i = s \/ i \in 1..Len(tables)
  <2> HIDE DEF r
  <2>1. tables' \in Seq(PhysPages) /\ Len(tables') = Len(tables) + 1
    BY <1>2, <1>3, <1>4, AppendProperties
  <2>2. tables'[s] = r /\ \A i \in 1..Len(tables) : tables'[i] = tables[i]
    BY <1>2, <1>3, <1>4, AppendProperties
  <2> QED  BY <1>3, <2>1, <2>2
<1> HIDE DEF r, s
<1>7. Complete(tables', mem, at)
  <2> SUFFICES ASSUME NEW i \in 1..s
               PROVE  /\ tables'[i] \in PhysPages /\ at[tables'[i]] = RootAt(i)
                      /\ \E U \in Nat :
                           /\ HoldsImage(U, i)
                           /\ Covers(mem, at, i, tables'[i], FreeRamEnd, NumDevices, U)
    BY <1>6 DEF Complete
  <2>1. CASE i = s
    BY <1>3, <1>4, <1>5, <1>6, <2>1
  <2>2. CASE i \in 1..Len(tables)
    BY <1>1, <1>6, <2>2 DEF Complete
  <2> QED  BY <1>6, <2>1, <2>2
<1> QED  BY <1>1, <1>2, <1>4, <1>6, <1>7 DEF ProcessInv, Building

Put(f, p, x) == [f EXCEPT ![p] = x]

\* What a page of process s is taken for: its root, or a page of its image.
TakenFor(s, place, page) ==
  \/ page = ZeroPage /\ place = RootAt(s)
  \/ \E k \in Nat : place = DataAt(s, k) /\ page = ImagePage(s, k)

\* The page p is kalloc's, has been filled, and is at that place now.
PageTaken(p, place, page, m1, at, at1) ==
  /\ Kalloc(Memory) = [mem |-> Put(mem, p, ZeroPage), avail |-> Tail(avail), down |-> FALSE]
  /\ p \in PhysPages /\ at[p] = Free /\ at1[p] = place /\ m1[p] = page
  /\ Put(Put(mem, p, ZeroPage), p, page) = m1
  /\ Tree([mem |-> m1, avail |-> Tail(avail), down |-> FALSE], PhysPages, Nat, at1)
  /\ SamePages(mem, m1, at)
  /\ HeapOnly(at1) /\ DataStays(at, at1)
  /\ \A q \in PhysPages : \A x : at[q] = RootAt(x) => at1[q] = RootAt(x)
  /\ Loaded(mem, at) => Loaded(m1, at1)

LEMMA TakePage ==
  ASSUME NEW at, Tree(Memory, PhysPages, Nat, at), HeapOnly(at), ~ down, avail # << >>,
         NEW page \in [Index -> Words], NEW place, NEW s \in Nat \ {0},
         TakenFor(s, place, page)
  PROVE  PageTaken(Head(avail), place, page, Put(mem, Head(avail), page), at,
                   Put(at, Head(avail), place))
<1> DEFINE p == Head(avail)
           m1 == Put(mem, p, page)
           at1 == Put(at, p, place)
<1>1. Memory.mem = mem /\ Memory.avail = avail /\ ~ Memory.down
  BY DEF Memory
<1>2. /\ Kalloc(Memory) = [mem |-> Put(mem, p, ZeroPage), avail |-> Tail(avail), down |-> FALSE]
      /\ p \in PhysPages /\ at[p] = Free
  BY <1>1, KallocTakes DEF Put
<1>3. /\ Tables(mem, PhysPages, Nat, at) /\ FreePages(avail, PhysPages, at)
      /\ IsPlacing(at, PhysPages) /\ mem \in [PhysPages -> [Index -> Words]]
  BY <1>1 DEF Tree, Tables
<1>4. FreePages(Tail(avail), PhysPages, at1)
  BY <1>3, FewerFreePages DEF Put
<1> HIDE DEF p
<1>5. /\ IsPlacing(at1, PhysPages) /\ at1[p] = place
      /\ \A q \in PhysPages : q # p => at1[q] = at[q]
  BY <1>2, <1>3 DEF IsPlacing, Put
<1>6. /\ m1 \in [PhysPages -> [Index -> Words]] /\ m1[p] = page
      /\ \A q \in PhysPages : q # p => m1[q] = mem[q]
      /\ Put(Put(mem, p, ZeroPage), p, page) = m1
  BY <1>2, <1>3 DEF Put
<1> HIDE DEF m1, at1
<1>7. m1[p] = ZeroPage \/ IsData(at1[p])
  BY <1>5, <1>6 DEF TakenFor, IsData
<1>8. Tables(m1, PhysPages, Nat, at1) /\ SameWalks(mem, m1, PhysPages, Nat, at)
  <2>1. OnlyPage(p, PhysPages, mem, m1, at, at1)
    BY <1>5, <1>6 DEF OnlyPage
  <2>2. IsPlacing(at1, PhysPages) /\ m1 \in [PhysPages -> [Index -> Words]]
    BY <1>5, <1>6
  <2> QED  BY <1>2, <1>3, <1>7, <2>1, <2>2, OtherPage
<1>9. Tree([mem |-> m1, avail |-> Tail(avail), down |-> FALSE], PhysPages, Nat, at1)
  BY <1>4, <1>8 DEF Tree
<1>10. SamePages(mem, m1, at)
  BY <1>8, SameByPage
<1>11. place # Free /\ \A x, k : place = DataAt(x, k) => x = s /\ page = ImagePage(s, k)
  BY PlacesDiffer, OnePlace DEF TakenFor
<1>12. HeapOnly(at1)
  BY <1>2, <1>5, <1>11 DEF HeapOnly
<1>13. DataStays(at, at1) /\ \A q \in PhysPages : \A x : at[q] = RootAt(x) => at1[q] = RootAt(x)
  BY <1>2, <1>5, PlacesDiffer DEF DataStays
<1>14. Loaded(mem, at) => Loaded(m1, at1)
  BY <1>5, <1>6, <1>11 DEF Loaded
<1>15. PageTaken(p, place, page, m1, at, at1)
  BY <1>2, <1>5, <1>6, <1>9, <1>10, <1>12, <1>13, <1>14 DEF PageTaken
<1> QED  BY <1>15 DEF p, m1, at1

\* The roots of complete processes are walked as before.
LEMMA CompleteSame ==
  ASSUME NEW tb \in Seq(PhysPages), NEW m, NEW m2, NEW at, NEW at2,
         Complete(tb, m, at), SamePages(m, m2, at), DataStays(at, at2),
         \A q \in PhysPages : \A x : at[q] = RootAt(x) => at2[q] = RootAt(x)
  PROVE  Complete(tb, m2, at2)
<1>1. ASSUME NEW i \in 1..Len(tb), NEW w \in VPages
      PROVE  Walk(m2, tb[i], w * PAGE_SIZE) = Walk(m, tb[i], w * PAGE_SIZE)
  <2>1. tb[i] \in PhysPages /\ at[tb[i]] = RootAt(i) /\ i \in Nat
    BY LenProperties DEF Complete
  <2> QED  BY <2>1 DEF SamePages
<1> QED  BY <1>1, CompleteStays

\* kalloc has no page: the kernel is down, and nothing else has changed.
LEMMA OutOfPages ==
  ASSUME NEW at, Tree(Memory, PhysPages, Nat, at), avail = << >>
  PROVE  Kalloc(Memory) = [mem |-> mem, avail |-> avail, down |-> TRUE]
BY DEF Kalloc, Memory

LEMMA AllocRootStep == ProcessInv /\ AllocRoot => ProcessInv'
<1> SUFFICES ASSUME ProcessInv, AllocRoot PROVE ProcessInv'
  OBVIOUS
<1>1. PICK at : /\ Tree(Memory, PhysPages, Nat, at) /\ HeapOnly(at)
                /\ Complete(tables, mem, at)
                /\ phase # "run" \/ cursor = 0 => Loaded(mem, at)
  BY DEF ProcessInv
<1>2. /\ ~ down /\ phase = "root" /\ phase' = "kernel" /\ cursor' = KernelBase
      /\ tables' = tables
      /\ root' = IF avail = << >> THEN NULL ELSE Head(avail) * PAGE_SIZE
      /\ mem' = Kalloc(Memory).mem /\ avail' = Kalloc(Memory).avail
      /\ down' = Kalloc(Memory).down
  BY DEF AllocRoot, Become
<1>3. /\ tables \in Seq(PhysPages) /\ Len(tables) \in Nat /\ KernelBase \in Nat
      /\ Loaded(mem, at)
  BY <1>1, <1>2, InvParts, Layout
<1>4. CASE avail = << >>
  <2>1. mem' = mem /\ avail' = avail /\ down' = TRUE
    BY <1>1, <1>2, <1>4, OutOfPages
  <2>2. Tree(Memory', PhysPages, Nat, at)
    BY <1>1, <2>1 DEF Tree, Memory
  <2> QED  BY <1>1, <1>2, <1>3, <2>1, <2>2 DEF ProcessInv
<1>5. CASE avail # << >>
  <2> DEFINE p == Head(avail)
             s == Len(tables) + 1
             m1 == Put(mem, p, ZeroPage)
             at1 == Put(at, p, RootAt(s))
  <2>1. ZeroPage \in [Index -> Words] /\ s \in Nat \ {0} /\ TakenFor(s, RootAt(s), ZeroPage)
    BY <1>3 DEF ZeroPage, ZeroWord, Words, Flags, TakenFor
  <2> HIDE DEF s
  <2>2. PageTaken(p, RootAt(s), ZeroPage, m1, at, at1)
    BY <1>1, <1>2, <1>5, <2>1, TakePage
  <2> HIDE DEF p, at1
  <2>3. /\ Kalloc(Memory) = [mem |-> m1, avail |-> Tail(avail), down |-> FALSE]
        /\ p \in PhysPages /\ at1[p] = RootAt(s) /\ m1[p] = ZeroPage
        /\ Tree([mem |-> m1, avail |-> Tail(avail), down |-> FALSE], PhysPages, Nat, at1)
        /\ SamePages(mem, m1, at)
        /\ HeapOnly(at1) /\ DataStays(at, at1)
        /\ \A q \in PhysPages : \A x : at[q] = RootAt(x) => at1[q] = RootAt(x)
        /\ Loaded(mem, at) => Loaded(m1, at1)
    BY <2>2 DEF PageTaken
  <2> HIDE DEF m1
  <2>4. Memory' = [mem |-> m1, avail |-> Tail(avail), down |-> FALSE] /\ mem' = m1
        /\ down' = FALSE
    BY <1>2, <2>3 DEF Memory
  <2>5. Complete(tables, m1, at1)
    BY <1>1, <1>3, <2>3, CompleteSame
  <2>6. root' \div PAGE_SIZE = p
    <3>1. root' = p * PAGE_SIZE /\ PAGE_SIZE \in Nat \ {0} /\ p \in Nat
      BY <1>2, <1>5, <2>3, Layout DEF p, PhysPages
    <3> QED  BY <3>1, ProductQuotient
  <2>7. Covers(m1, at1, s, p, KernelBase, 0, 0)
    <3> SUFFICES ASSUME NEW v \in VPages
                 PROVE  CoversPage(Walk(m1, p, v * PAGE_SIZE), at1, s, v, KernelBase, 0, 0)
      BY DEF Covers
    <3>1. Walk(m1, p, v * PAGE_SIZE) = Unmapped
      BY <2>3, PageIndices, WalkByIndex, EmptyRoot
    <3>2. /\ ~ (v \in KernelBase..(KernelBase - 1)) /\ ~ (v \in Virtio..(Virtio + 0 - 1))
          /\ ~ (v \in UserBase..(UserBase + 0 - 1))
      BY Layout
    <3> QED  BY <3>1, <3>2 DEF CoversPage, Unmapped
  <2>8. Building(s, p, m1, at1, "kernel", KernelBase)
    BY <2>3, <2>7 DEF Building
  <2>9. Building(Len(tables') + 1, root' \div PAGE_SIZE, mem', at1, phase', cursor')
    BY <1>2, <2>4, <2>6, <2>8 DEF s
  <2> QED  BY <1>2, <1>3, <2>3, <2>4, <2>5, <2>9 DEF ProcessInv
<1> QED  BY <1>4, <1>5

\* The words of an image are data like any other.
LEMMA ImagePageWords ==
  ASSUME NEW s, NEW k \in Nat
  PROVE  ImagePage(s, k) \in [Index -> Words]
<1>1. k * PAGE_SIZE \in Nat /\ ZeroWord \in Words
  BY Layout DEF ZeroWord, Words, Flags
<1> DEFINE o == k * PAGE_SIZE
<1> HIDE DEF o
<1>2. \A i \in Index : ImageWord(o + i) \in Words
  BY <1>1 DEF o, ImageWord, Words, Flags, Index
<1> QED  BY <1>1, <1>2 DEF ImagePage, o

\* The page of the image at cursor lies between USER_BASE and the devices.
LEMMA UserPageRange ==
  ASSUME NEW s \in Nat, NEW k \in Nat, k * PAGE_SIZE < SizeOf(s)
  PROVE  /\ UserBase + k < Virtio /\ UserBase + k \in VPages
         /\ UserBase * PAGE_SIZE + k * PAGE_SIZE = (UserBase + k) * PAGE_SIZE
<1> DEFINE v == UserBase + k
<1>1. /\ UserBase \in Nat /\ PAGE_SIZE \in Nat \ {0} /\ Virtio \in Nat
  BY Layout
<1>2. UserBase * PAGE_SIZE + k * PAGE_SIZE = v * PAGE_SIZE
  BY <1>1
<1>3. v * PAGE_SIZE < Virtio * PAGE_SIZE
  <2>1. UserBase * PAGE_SIZE \in Nat /\ k * PAGE_SIZE \in Nat /\ Virtio * PAGE_SIZE \in Nat
    BY <1>1
  <2> DEFINE z == SizeOf(s)
  <2>2. z \in Nat /\ (0 < z => UserBase * PAGE_SIZE + z <= Virtio * PAGE_SIZE)
        /\ k * PAGE_SIZE < z
    BY Sizes
  <2> HIDE DEF z
  <2> QED  BY <1>2, <2>1, <2>2
<1>4. v < Virtio
  <2> SUFFICES ASSUME ~ (v < Virtio) PROVE FALSE
    OBVIOUS
  <2>1. v \in Nat /\ v >= Virtio
    BY <1>1
  <2> HIDE DEF v
  <2>2. CASE v = Virtio
    BY <1>1, <1>3, <2>2
  <2>3. CASE Virtio < v
    <3>1. PAGE_SIZE * Virtio + PAGE_SIZE <= PAGE_SIZE * v
      BY <1>1, <2>1, <2>3, ProductGrows
    <3>2. PAGE_SIZE * Virtio = Virtio * PAGE_SIZE /\ PAGE_SIZE * v = v * PAGE_SIZE
      BY <1>1, <2>1
    <3>3. Virtio * PAGE_SIZE \in Nat /\ v * PAGE_SIZE \in Nat
      BY <1>1, <2>1
    <3> QED  BY <1>1, <1>3, <3>1, <3>2, <3>3
  <2> QED  BY <1>1, <2>1, <2>2, <2>3
<1>5. v \in VPages
  BY <1>1, <1>4, Layout DEF VPages
<1> QED  BY <1>2, <1>4, <1>5

\* A page of the memory map_page works on is written.
Filled(st, p, x) == [st EXCEPT !.mem[p] = x]

LEMMA FilledPage ==
  ASSUME NEW m, NEW a, NEW p, NEW x
  PROVE  Filled([mem |-> m, avail |-> a, down |-> FALSE], p, x) =
           [mem |-> Put(m, p, x), avail |-> a, down |-> FALSE]
<1>1. ASSUME NEW d
      PROVE  Filled([mem |-> m, avail |-> a, down |-> d], p, x) =
               [mem |-> Put(m, p, x), avail |-> a, down |-> d]
  BY DEF Filled, Put
<1> QED  BY <1>1, Zenon

LEMMA MapUserStep == ProcessInv /\ MapUser => ProcessInv'
<1> SUFFICES ASSUME ProcessInv, MapUser PROVE ProcessInv'
  OBVIOUS
<1> DEFINE r == root \div PAGE_SIZE
           s == Len(tables) + 1
           off == cursor * PAGE_SIZE
           fl == {"U", "R", "W", "X"}
           v == UserBase + cursor
           got == Kalloc(Memory)
           page == Head(avail)
           filled == [got EXCEPT !.mem[page] = CopyImage(off)]
           n == IF got.down THEN got
                ELSE map_page(filled, r, UserBase * PAGE_SIZE + off, page * PAGE_SIZE, fl)
<1>1. PICK at : /\ Tree(Memory, PhysPages, Nat, at) /\ HeapOnly(at)
                /\ Complete(tables, mem, at)
                /\ ~ down => Building(s, r, mem, at, phase, cursor)
                /\ phase # "run" \/ cursor = 0 => Loaded(mem, at)
  BY DEF ProcessInv
<1>2. /\ ~ down /\ phase = "user" /\ off < image_size
      /\ mem' = n.mem /\ avail' = n.avail /\ down' = n.down
      /\ cursor' = cursor + 1 /\ phase' = phase /\ root' = root /\ tables' = tables
  BY DEF MapUser, Become
<1>3. cursor \in Nat /\ tables \in Seq(PhysPages) /\ Len(tables) \in Nat /\ s \in Nat \ {0}
  BY InvParts
<1>4. /\ r \in PhysPages /\ at[r] = RootAt(s)
      /\ Covers(mem, at, s, r, FreeRamEnd, NumDevices, cursor) /\ Loaded(mem, at)
  BY <1>1, <1>2 DEF Building
<1>5. cursor * PAGE_SIZE < SizeOf(s) /\ CopyImage(off) = ImagePage(s, cursor)
  BY <1>2 DEF image_size, CopyImage, ImagePage
<1>6. v < Virtio /\ v \in VPages /\ UserBase * PAGE_SIZE + off = v * PAGE_SIZE
  BY <1>3, <1>5, UserPageRange
<1>7. CASE avail = << >>
  <2>1. got = [mem |-> mem, avail |-> avail, down |-> TRUE]
    BY <1>1, <1>7, OutOfPages
  <2>2. mem' = mem /\ avail' = avail /\ down' = TRUE
    BY <1>2, <2>1
  <2>3. Tree(Memory', PhysPages, Nat, at)
    BY <1>1, <2>2 DEF Tree, Memory
  <2>4. phase' = "user" /\ cursor' \in Nat /\ tables' = tables
    BY <1>2, <1>3
  <2> QED  BY <1>1, <1>3, <1>4, <2>2, <2>3, <2>4 DEF ProcessInv
<1>8. CASE avail # << >>
  <2> DEFINE m1 == Put(mem, page, ImagePage(s, cursor))
             at1 == Put(at, page, DataAt(s, cursor))
             st == [mem |-> m1, avail |-> Tail(avail), down |-> FALSE]
             n1 == map_page(st, r, v * PAGE_SIZE, page * PAGE_SIZE, fl)
  <2>1. ImagePage(s, cursor) \in [Index -> Words] /\ TakenFor(s, DataAt(s, cursor), ImagePage(s, cursor))
    BY <1>3, ImagePageWords DEF TakenFor
  <2> HIDE DEF s, r, off, v
  <2>2. PageTaken(page, DataAt(s, cursor), ImagePage(s, cursor), m1, at, at1)
    BY <1>1, <1>2, <1>3, <1>8, <2>1, TakePage
  <2> HIDE DEF page, at1
  <2>3. /\ got = [mem |-> Put(mem, page, ZeroPage), avail |-> Tail(avail), down |-> FALSE]
        /\ page \in PhysPages /\ at1[page] = DataAt(s, cursor)
        /\ Put(Put(mem, page, ZeroPage), page, ImagePage(s, cursor)) = m1
        /\ Tree(st, PhysPages, Nat, at1)
        /\ SamePages(mem, m1, at)
        /\ HeapOnly(at1) /\ DataStays(at, at1)
        /\ \A q \in PhysPages : \A x : at[q] = RootAt(x) => at1[q] = RootAt(x)
        /\ Loaded(m1, at1)
    BY <1>4, <2>2 DEF PageTaken
  <2>4. filled = st
    <3> DEFINE m0 == Put(mem, page, ZeroPage)
    <3>1. got = [mem |-> m0, avail |-> Tail(avail), down |-> FALSE]
      BY <2>3
    <3>2. Put(m0, page, CopyImage(off)) = m1
      BY <1>5, <2>3
    <3>3. filled = Filled(got, page, CopyImage(off))
      BY DEF Filled
    <3> HIDE DEF m0, m1, got, filled
    <3> DEFINE c == CopyImage(off)
               a == Tail(avail)
    <3>4. st = [mem |-> m1, avail |-> a, down |-> FALSE]
      OBVIOUS
    <3> HIDE DEF st, page, c, a
    <3>5. Filled([mem |-> m0, avail |-> a, down |-> FALSE], page, c) =
            [mem |-> Put(m0, page, c), avail |-> a, down |-> FALSE]
      BY FilledPage, Zenon
    <3>6. filled = [mem |-> Put(m0, page, c), avail |-> a, down |-> FALSE]
      BY <3>1, <3>3, <3>5 DEF a, c
    <3> QED  BY <3>2, <3>4, <3>6 DEF c
  <2>5. n = n1
    <3>1. ~ got.down
      BY <2>3
    <3> HIDE DEF got, filled, st
    <3> QED  BY <1>6, <2>4, <3>1
  <2> HIDE DEF n
  <2>6. st.mem = m1 /\ ~ st.down
    OBVIOUS
  <2>7. Complete(tables, m1, at1)
    BY <1>1, <1>3, <2>3, CompleteSame
  <2>8. Covers(m1, at1, s, r, FreeRamEnd, NumDevices, cursor) /\ at1[r] = RootAt(s)
    <3>1. \A w \in VPages : Walk(m1, r, w * PAGE_SIZE) = Walk(mem, r, w * PAGE_SIZE)
      BY <1>3, <1>4, <2>3 DEF SamePages
    <3> QED  BY <1>4, <2>3, <3>1, CoversStays
  <2>9. fl \in SUBSET Flags /\ fl \cup {"V"} = {"V", "U", "R", "W", "X"}
    BY DEF Flags
  <2> HIDE DEF st, m1, fl
  <2>10. at1[r] = RootAt(Len(tables) + 1)
    BY <2>8 DEF s
  <2>11. PICK at2 :
           MappedForNew(m1, n1, at1, at2, tables, r, v,
                        [ppn |-> page, flags |-> fl \cup {"V"}])
    <3>1. /\ Tree(st, PhysPages, Nat, at1) /\ ~ st.down /\ HeapOnly(at1)
          /\ Complete(tables, st.mem, at1) /\ page \in PhysPages
      BY <2>3, <2>6, <2>7
    <3>2. \E at2 : MappedForNew(st.mem, n1, at1, at2, tables, r, v,
                                [ppn |-> page, flags |-> fl \cup {"V"}])
      BY <1>3, <1>4, <1>6, <2>9, <2>10, <3>1, MapForNew
    <3> QED  BY <2>6, <3>2
  <2> HIDE DEF n1
  <2>12. at2[page] = DataAt(s, cursor)
    BY <2>3, <2>11 DEF DataStays, MappedForNew
  <2>13. ~ n1.down => Covers(n1.mem, at2, s, r, FreeRamEnd, NumDevices, cursor + 1)
    <3>1. ASSUME ~ n1.down
          PROVE  /\ \A w \in VPages : w # UserBase + cursor =>
                      Walk(n1.mem, r, w * PAGE_SIZE) = Walk(m1, r, w * PAGE_SIZE)
                 /\ Walk(n1.mem, r, (UserBase + cursor) * PAGE_SIZE) =
                      [ppn |-> page, flags |-> {"V", "U", "R", "W", "X"}]
      BY <2>9, <2>11, <3>1 DEF v, MappedForNew
    <3>2. UserBase + cursor < Virtio
      BY <1>6 DEF v
    <3>3. DataStays(at1, at2)
      BY <2>11 DEF MappedForNew
    <3>4. page \in PhysPages /\ Covers(m1, at1, s, r, FreeRamEnd, NumDevices, cursor)
      BY <2>3, <2>8
    <3> QED  BY <1>3, <2>12, <3>1, <3>2, <3>3, <3>4, CoversUser
  <2>14. ~ n1.down => Building(s, r, n1.mem, at2, "user", cursor + 1)
    <3>1. Reached(cursor + 1, s)
      <4> DEFINE c == cursor + 1
      <4>1. c - 1 = cursor
        BY <1>3
      <4> HIDE DEF c
      <4>2. (c - 1) * PAGE_SIZE < SizeOf(s)
        BY <1>5, <4>1
      <4>3. Reached(c, s)
        BY <4>2 DEF Reached
      <4> QED  BY <4>3 DEF c
    <3> QED  BY <1>4, <2>11, <2>13, <3>1 DEF Building, s, MappedForNew
  <2>15. Memory' = n1 /\ n1.down \in BOOLEAN
    BY <1>2, <2>5, <2>11 DEF Memory, Tree, MappedForNew
  <2>16. /\ Tree(Memory', PhysPages, Nat, at2) /\ HeapOnly(at2)
         /\ Complete(tables', mem', at2)
         /\ ~ down' => Building(Len(tables') + 1, root' \div PAGE_SIZE, mem', at2, phase', cursor')
         /\ Loaded(mem', at2)
    BY <1>2, <2>3, <2>5, <2>11, <2>14, <2>15 DEF r, s, MappedForNew
  <2>17. /\ phase' \in {"root", "kernel", "device", "user", "run"} /\ cursor' \in Nat
         /\ tables' \in Seq(PhysPages) /\ down' \in BOOLEAN
    BY <1>2, <1>3, <2>5, <2>15
  <2> QED  BY <2>16, <2>17 DEF ProcessInv
<1> QED  BY <1>7, <1>8

\* A quotient of a product's range.
LEMMA QuotientBelow ==
  ASSUME NEW n \in Nat \ {0}, NEW N \in Nat, NEW x \in Nat, x < N * n
  PROVE  x \div n < N
<1> DEFINE q == x \div n
           r == x % n
<1>1. q \in Nat /\ r \in 0..(n - 1) /\ x = n * q + r
  BY Quotient
<1> HIDE DEF q, r
<1>2. N * n = n * N /\ n * N \in Nat /\ n * q \in Nat
  BY <1>1
<1>3. CASE N < q
  <2>1. n * N + n <= n * q
    BY <1>1, <1>3, ProductGrows
  <2> QED  BY <1>1, <1>2, <2>1
<1>4. CASE N = q
  BY <1>1, <1>2, <1>4
<1> QED  BY <1>1, <1>3, <1>4 DEF q

\* The page of an address, and the word in it.
LEMMA PageOfAddr ==
  ASSUME NEW va \in VAddrs
  PROVE  va \in Nat /\ va \div PAGE_SIZE \in VPages /\ va % PAGE_SIZE \in Index
<1> DEFINE N == Radix * Radix * Radix
           n == PAGE_SIZE
<1>1. N \in Nat /\ n \in Nat \ {0} /\ n = Radix
  BY Layout
<1>2. VAddrs = 0..(N * n - 1) /\ VPages = 0..(N - 1) /\ Index = 0..(n - 1)
  BY <1>1 DEF VAddrs, VPages, Index
<1> HIDE DEF N, n
<1>3. N * n \in Nat
  BY <1>1
<1>4. va \in Nat /\ va < N * n
  BY <1>2, <1>3
<1>5. va \div n < N /\ va \div n \in Nat /\ va % n \in 0..(n - 1)
  BY <1>1, <1>4, Quotient, QuotientBelow
<1>6. va \div n \in VPages /\ va % n \in Index
  BY <1>1, <1>2, <1>5
<1> QED  BY <1>4, <1>6 DEF n

\* The leaves user code can use are data of its own process.
LEMMA UserLeaf ==
  ASSUME NEW tb \in Seq(PhysPages), NEW m, NEW at, Complete(tb, m, at),
         NEW i \in 1..Len(tb), NEW v \in VPages,
         "U" \in Walk(m, tb[i], v * PAGE_SIZE).flags
  PROVE  /\ Walk(m, tb[i], v * PAGE_SIZE).ppn \in PhysPages
         /\ \E k : at[Walk(m, tb[i], v * PAGE_SIZE).ppn] = DataAt(i, k)
<1>1. PICK U \in Nat : Covers(m, at, i, tb[i], FreeRamEnd, NumDevices, U)
  BY DEF Complete
<1>2. CoversPage(Walk(m, tb[i], v * PAGE_SIZE), at, i, v, FreeRamEnd, NumDevices, U)
  BY <1>1 DEF Covers
<1> QED  BY <1>2 DEF CoversPage

\* User code stores into data of its process: no walk changes.
LEMMA UserStoreStep ==
  ASSUME ProcessInv, NEW p \in Programs, NEW va \in VAddrs, UserStore(p, va)
  PROVE  ProcessInv'
<1> DEFINE leaf == Walk(mem, tables[p], va)
           q == leaf.ppn
           k == va % PAGE_SIZE
<1>1. PICK at : /\ Tree(Memory, PhysPages, Nat, at) /\ HeapOnly(at)
                /\ Complete(tables, mem, at)
  BY DEF ProcessInv
<1>2. /\ ~ down /\ phase = "run" /\ phase' = phase /\ cursor' = cursor + 1
      /\ avail' = avail /\ down' = down /\ tables' = tables
      /\ "U" \in leaf.flags
      /\ mem' = [mem EXCEPT ![q][k] = OtherWord]
  BY DEF UserStore
<1>3. cursor \in Nat /\ tables \in Seq(PhysPages) /\ Len(tables) \in Nat
  BY InvParts
<1>4. p \in 1..Len(tables)
  BY <1>3 DEF Programs
<1>5. k \in Index /\ va \in Nat /\ va \div PAGE_SIZE \in VPages
  BY PageOfAddr
<1>6. leaf = Walk(mem, tables[p], (va \div PAGE_SIZE) * PAGE_SIZE)
  BY <1>5, WalkOfPage
<1>7. q \in PhysPages /\ IsData(at[q])
  BY <1>1, <1>2, <1>3, <1>4, <1>5, <1>6, UserLeaf DEF IsData
<1>8. Tables(mem, PhysPages, Nat, at) /\ mem \in [PhysPages -> [Index -> Words]]
      /\ FreePages(avail, PhysPages, at) /\ IsPlacing(at, PhysPages)
  BY <1>1 DEF Tree, Tables, Memory
<1>9. OtherWord \in Words
  BY Layout DEF OtherWord, Words, Flags
<1> HIDE DEF q, k
<1>10. mem' \in [PhysPages -> [Index -> Words]] /\ \A t \in PhysPages : t # q => mem'[t] = mem[t]
  BY <1>2, <1>5, <1>7, <1>8, <1>9
<1>11. Tables(mem', PhysPages, Nat, at) /\ SameWalks(mem, mem', PhysPages, Nat, at)
  <2>1. OnlyPage(q, PhysPages, mem, mem', at, at)
    BY <1>10 DEF OnlyPage
  <2> QED  BY <1>7, <1>8, <1>10, <2>1, OtherPage
<1>12. SamePages(mem, mem', at)
  BY <1>11, SameByPage
<1>13. Complete(tables, mem', at)
  BY <1>1, <1>3, <1>12, CompleteSame DEF DataStays
<1>14. Tree(Memory', PhysPages, Nat, at)
  <2>1. down' \in BOOLEAN
    BY <1>2 DEF ProcessInv
  <2> QED  BY <1>2, <1>8, <1>11, <2>1 DEF Tree, Memory
<1>15. cursor' \in Nat /\ cursor' # 0 /\ phase' = "run" /\ down' \in BOOLEAN
  BY <1>2, <1>3 DEF ProcessInv
<1>16. ~ down' => Building(Len(tables') + 1, root' \div PAGE_SIZE, mem', at, phase', cursor')
  BY <1>15 DEF Building
<1> QED  BY <1>1, <1>2, <1>3, <1>13, <1>14, <1>15, <1>16 DEF ProcessInv

LEMMA ProcessStep == ProcessInv /\ [Next]_vars => ProcessInv'
<1>1. ProcessInv /\ UNCHANGED vars => ProcessInv'
  BY DEF ProcessInv, vars, Memory
<1> QED
  BY <1>1, AllocRootStep, MapKernelStep, MapDeviceStep, MapUserStep, NextLoopStep, CreatedStep,
     UserStoreStep DEF Next, Done

\* In every state the tables are trees and each process has what its loops have
\* mapped so far, on pages of its own.
THEOREM Invariance == Spec => []ProcessInv
<1> QED  BY ProcessInit, ProcessStep, PTL DEF Spec

-----------------------------------------------------------------------------
(* The properties.                                                         *)

LEMMA LeafIs ==
  ASSUME NEW i, NEW v
  PROVE  LeafOf(i, v) = Walk(mem, tables[i], v * PAGE_SIZE)
BY DEF LeafOf

\* The pages user code reaches are data of its own process, from the heap.
LEMMA UserPagesOwned ==
  ASSUME NEW at, HeapOnly(at), Complete(tables, mem, at), tables \in Seq(PhysPages),
         NEW i \in 1..Len(tables), NEW p \in UserPages(i)
  PROVE  p \in PhysPages /\ p \in HeapRange /\ \E k : at[p] = DataAt(i, k)
<1>1. PICK v \in VPages : "U" \in LeafOf(i, v).flags /\ p = LeafOf(i, v).ppn
  BY DEF UserPages
<1>2. p \in PhysPages /\ \E k : at[p] = DataAt(i, k)
  BY <1>1, LeafIs, UserLeaf
<1>3. i \in Nat \ {0}
  BY LenProperties
<1> QED  BY <1>2, <1>3 DEF HeapOnly

LEMMA Isolates == ProcessInv => Isolation
<1> SUFFICES ASSUME ProcessInv PROVE Isolation
  OBVIOUS
<1>1. PICK at : /\ Tree(Memory, PhysPages, Nat, at) /\ HeapOnly(at)
                /\ Complete(tables, mem, at)
  BY DEF ProcessInv
<1>2. /\ Tables(mem, PhysPages, Nat, at) /\ FreePages(avail, PhysPages, at)
      /\ tables \in Seq(PhysPages) /\ Len(tables) \in Nat
  BY <1>1, InvParts DEF Tree
<1>3. ASSUME NEW i \in 1..Len(tables), NEW p \in UserPages(i)
      PROVE  p \in PhysPages /\ p \in HeapRange /\ \E k : at[p] = DataAt(i, k)
  BY <1>1, <1>2, <1>3, UserPagesOwned
<1>4. ASSUME NEW i \in 1..Len(tables), NEW p \in UserPages(i)
      PROVE  p \in FreeRam..(FreeRamEnd - 1) /\ \A k \in 1..Len(avail) : avail[k] # p
  <2>1. p \in HeapRange /\ at[p] # Free
    BY <1>3, <1>4, PlacesDiffer
  <2> QED  BY <1>2, <2>1 DEF HeapRange, FreePages
<1>5. ASSUME NEW i \in 1..Len(tables), NEW j \in 1..Len(tables)
      PROVE  UserPages(i) \cap TablePages(mem, tables[j]) = {}
  <2> SUFFICES ASSUME NEW p \in UserPages(i), p \in TablePages(mem, tables[j]) PROVE FALSE
    OBVIOUS
  <2>1. PICK k : at[p] = DataAt(i, k)
    BY <1>3, <1>5
  <2>2. tables[j] \in PhysPages /\ at[tables[j]] = RootAt(j) /\ j \in Nat
    BY <1>1, <1>5 DEF Complete
  <2>3. \/ at[p] = RootAt(j)
        \/ \E a \in Index : at[p] = MidAt(j, a)
        \/ \E a, b \in Index : at[p] = LowAt(j, a, b)
    BY <1>2, <2>2, TablePagesOf
  <2> QED  BY <2>1, <2>3, PlacesDiffer
<1>6. ASSUME NEW i \in 1..Len(tables), NEW j \in 1..Len(tables), i # j
      PROVE  UserPages(i) \cap UserPages(j) = {}
  <2> SUFFICES ASSUME NEW p \in UserPages(i), p \in UserPages(j) PROVE FALSE
    OBVIOUS
  <2>1. PICK k : at[p] = DataAt(i, k)
    BY <1>3, <1>6
  <2>2. PICK l : at[p] = DataAt(j, l)
    BY <1>3, <1>6
  <2> QED  BY <1>6, <2>1, <2>2, OnePlace
<1> QED  BY <1>4, <1>5, <1>6 DEF Isolation

LEMMA KernelMapped == ProcessInv => KernelEverywhere
<1> SUFFICES ASSUME ProcessInv, NEW i \in 1..Len(tables)
             PROVE  /\ \A v \in KernelBase..(FreeRamEnd - 1) :
                         LeafOf(i, v) = [ppn |-> v, flags |-> {"V", "R", "W", "X"}]
                    /\ \A v \in Virtio..(Virtio + NumDevices - 1) :
                         LeafOf(i, v) = [ppn |-> v, flags |-> {"V", "R", "W"}]
  BY DEF KernelEverywhere
<1>1. PICK at : Complete(tables, mem, at)
  BY DEF ProcessInv
<1>2. PICK U \in Nat : Covers(mem, at, i, tables[i], FreeRamEnd, NumDevices, U)
  BY <1>1 DEF Complete
<1>3. ASSUME NEW v \in VPages
      PROVE  CoversPage(LeafOf(i, v), at, i, v, FreeRamEnd, NumDevices, U)
  BY <1>2, LeafIs DEF Covers
<1>4. /\ \A v \in KernelBase..(FreeRamEnd - 1) : v \in VPages
      /\ \A v \in Virtio..(Virtio + NumDevices - 1) : v \in VPages
  BY Layout DEF VPages
<1> QED  BY <1>3, <1>4 DEF CoversPage

\* The pages the loop over the image has mapped are the pages it needs.
LEMMA PagesCounted ==
  ASSUME NEW s \in Nat, NEW U \in Nat, HoldsImage(U, s)
  PROVE  PageCount(s) = U
<1> DEFINE n == PAGE_SIZE
           z == SizeOf(s)
           top == z + n - 1
           q == top \div n
           t == top % n
<1>1. n \in Nat \ {0} /\ z \in Nat
  BY Layout, Sizes
<1>2. U * n >= z /\ (U = 0 \/ (U - 1) * n < z)
  BY DEF HoldsImage, Reached
<1>3. PageCount(s) = q
  BY DEF PageCount
<1> HIDE DEF n, z
<1>4. top \in Nat /\ top = z + n - 1
  BY <1>1
<1> HIDE DEF top
<1>5. q \in Nat /\ t \in 0..(n - 1) /\ top = n * q + t
  BY <1>1, <1>4, Quotient
<1>6. q < U + 1
  <2> DEFINE N == U + 1
  <2>1. N \in Nat /\ N * n = U * n + n /\ U * n \in Nat
    BY <1>1
  <2> HIDE DEF N
  <2>2. top < N * n
    BY <1>1, <1>2, <1>4, <2>1
  <2>3. q < N
    BY <1>1, <1>4, <2>1, <2>2, QuotientBelow
  <2> QED  BY <2>3 DEF N
<1> HIDE DEF q, t
<1>7. ASSUME q < U PROVE FALSE
  <2>1. n * q + n <= n * U
    BY <1>1, <1>5, <1>7, ProductGrows
  <2>2. n * U \in Nat /\ n * q \in Nat /\ (U - 1) * n = n * U - n
    BY <1>1, <1>5
  <2>3. (U - 1) * n < z
    BY <1>2, <1>5, <1>7
  <2> QED  BY <1>1, <1>4, <1>5, <2>1, <2>2, <2>3
<1>8. q = U
  BY <1>5, <1>6, <1>7
<1> QED  BY <1>3, <1>8

\* The word at off of the pages of an image is in page k of it, and page k is
\* behind page UserBase + k.
LEMMA ImageOffset ==
  ASSUME NEW s \in Nat, NEW U \in Nat, HoldsImage(U, s), NEW off \in 0..(U * PAGE_SIZE - 1)
  PROVE  LET k == off \div PAGE_SIZE
             va == UserBase * PAGE_SIZE + off
         IN  /\ k \in Nat /\ k < U /\ k * PAGE_SIZE < SizeOf(s) /\ off \in Nat
             /\ off = k * PAGE_SIZE + (off % PAGE_SIZE) /\ off % PAGE_SIZE \in Index
             /\ va \in Nat /\ va \div PAGE_SIZE = UserBase + k
             /\ va % PAGE_SIZE = off % PAGE_SIZE
<1> DEFINE n == PAGE_SIZE
           z == SizeOf(s)
           k == off \div n
           o == off % n
           va == UserBase * n + off
<1>1. n \in Nat \ {0} /\ z \in Nat /\ UserBase \in Nat /\ Index = 0..(n - 1)
  BY Layout, Sizes DEF Index
<1>2. U = 0 \/ (U - 1) * n < z
  BY DEF HoldsImage, Reached
<1>3. off \in 0..(U * n - 1)
  OBVIOUS
<1> HIDE DEF n, z
<1>4. U * n \in Nat /\ off \in Nat /\ off < U * n
  BY <1>1, <1>3
<1>5. k \in Nat /\ o \in 0..(n - 1) /\ off = n * k + o
  BY <1>1, <1>4, Quotient
<1>6. k < U
  BY <1>1, <1>4, QuotientBelow
<1> HIDE DEF k, o
<1>7. n * k \in Nat /\ n * k = k * n
  BY <1>1, <1>5
<1>8. k * n < z
  <2> DEFINE W == U - 1
  <2>1. W \in Nat /\ W * n < z /\ k <= W
    BY <1>2, <1>5, <1>6
  <2> HIDE DEF W
  <2>2. CASE k = W
    BY <2>1, <2>2
  <2>3. CASE k < W
    <3>1. n * k + n <= n * W
      BY <1>1, <1>5, <2>1, <2>3, ProductGrows
    <3>2. n * W = W * n /\ n * W \in Nat
      BY <1>1, <2>1
    <3> QED  BY <1>1, <1>7, <2>1, <3>1, <3>2
  <2> QED  BY <1>5, <2>1, <2>2, <2>3
<1>9. va = n * (UserBase + k) + o /\ va \in Nat
  <2>1. n * (UserBase + k) = UserBase * n + n * k /\ UserBase * n \in Nat
    BY <1>1, <1>5
  <2> QED  BY <1>4, <1>5, <1>7, <2>1
<1> HIDE DEF va
<1>10. va \div n = UserBase + k /\ va % n = o
  <2> DEFINE v == UserBase + k
             w == va \div n
             x == va % n
  <2>1. w \in Nat /\ x \in 0..(n - 1) /\ va = n * w + x
    BY <1>1, <1>9, Quotient
  <2>2. v \in Nat /\ va = n * v + o
    BY <1>1, <1>5, <1>9
  <2> HIDE DEF v, w, x
  <2>3. n * w + x = n * v + o
    BY <2>1, <2>2
  <2>4. w = v /\ x = o
    BY <1>1, <1>5, <2>1, <2>2, <2>3, OneQuotient
  <2> QED  BY <2>4 DEF v, w, x
<1> QED  BY <1>1, <1>4, <1>5, <1>6, <1>7, <1>8, <1>9, <1>10 DEF n, z, k, o, va

LEMMA ImagesInPlace == ProcessInv => ImageLoaded
<1> SUFFICES ASSUME ProcessInv, phase # "run" \/ cursor = 0, NEW i \in 1..Len(tables)
             PROVE  /\ \A v \in VPages : "U" \in LeafOf(i, v).flags <=>
                         v \in UserBase..(UserBase + PageCount(i) - 1)
                    /\ \A off \in 0..(PageCount(i) * PAGE_SIZE - 1) :
                         /\ {"R", "W", "X"} \subseteq
                              Walk(mem, tables[i], UserBase * PAGE_SIZE + off).flags
                         /\ Load(i, UserBase * PAGE_SIZE + off) =
                              IF off < SizeOf(i) THEN ImageWord(off) ELSE ZeroWord
  BY DEF ImageLoaded
<1>1. PICK at : Complete(tables, mem, at) /\ Loaded(mem, at)
  BY DEF ProcessInv
<1>2. i \in Nat \ {0}
  BY InvParts
<1>3. PICK U \in Nat : /\ HoldsImage(U, i)
                       /\ Covers(mem, at, i, tables[i], FreeRamEnd, NumDevices, U)
  BY <1>1 DEF Complete
<1>4. PageCount(i) = U
  BY <1>2, <1>3, PagesCounted
<1>5. ASSUME NEW v \in VPages
      PROVE  "U" \in LeafOf(i, v).flags <=> v \in UserBase..(UserBase + U - 1)
  <2>1. CoversPage(LeafOf(i, v), at, i, v, FreeRamEnd, NumDevices, U)
    BY <1>3, LeafIs DEF Covers
  <2> QED  BY <2>1 DEF CoversPage
<1>6. ASSUME NEW off \in 0..(U * PAGE_SIZE - 1)
      PROVE  /\ {"R", "W", "X"} \subseteq Walk(mem, tables[i], UserBase * PAGE_SIZE + off).flags
             /\ Load(i, UserBase * PAGE_SIZE + off) =
                  IF off < SizeOf(i) THEN ImageWord(off) ELSE ZeroWord
  <2> DEFINE k == off \div PAGE_SIZE
             o == off % PAGE_SIZE
             va == UserBase * PAGE_SIZE + off
             leaf == Walk(mem, tables[i], va)
  <2>1. /\ k \in Nat /\ k < U /\ k * PAGE_SIZE < SizeOf(i) /\ off \in Nat
        /\ off = k * PAGE_SIZE + o /\ o \in Index
        /\ va \in Nat /\ va \div PAGE_SIZE = UserBase + k /\ va % PAGE_SIZE = o
    BY <1>2, <1>3, ImageOffset
  <2>2. leaf = Walk(mem, tables[i], (va \div PAGE_SIZE) * PAGE_SIZE)
    BY <2>1, WalkOfPage
  <2> HIDE DEF k, o, va
  <2>3. leaf = Walk(mem, tables[i], (UserBase + k) * PAGE_SIZE)
    BY <2>1, <2>2
  <2>4. UserBase + k \in VPages
    BY <1>2, <2>1, UserPageRange
  <2>5. CoversPage(leaf, at, i, UserBase + k, FreeRamEnd, NumDevices, U)
    BY <1>3, <2>3, <2>4 DEF Covers
  <2> HIDE DEF leaf
  <2>6. /\ leaf.flags = {"V", "U", "R", "W", "X"} /\ leaf.ppn \in PhysPages
        /\ at[leaf.ppn] = DataAt(i, k)
    <3> DEFINE v == UserBase + k
    <3>1. v \in UserBase..(UserBase + U - 1) /\ v - UserBase = k
      BY <1>3, <2>1, Layout
    <3> HIDE DEF v
    <3>2. CoversPage(leaf, at, i, v, FreeRamEnd, NumDevices, U)
      BY <2>5 DEF v
    <3> QED  BY <3>1, <3>2 DEF CoversPage
  <2>7. mem[leaf.ppn] = ImagePage(i, k)
    BY <1>1, <1>2, <2>1, <2>6 DEF Loaded
  <2>8. ImagePage(i, k)[o] = IF off < SizeOf(i) THEN ImageWord(off) ELSE ZeroWord
    BY <2>1 DEF ImagePage
  <2>9. Load(i, va) = mem[leaf.ppn][o]
    BY <2>1 DEF Load, leaf
  <2> QED  BY <2>6, <2>7, <2>8, <2>9 DEF leaf, va
<1> QED  BY <1>4, <1>5, <1>6

\* For every layout, number of programs and image: user code reaches no page of
\* another program, no page table and no page kalloc may hand out again, while
\* create_process builds address spaces and whatever user code stores.
THEOREM ProgramsIsolated == Spec => []Isolation
<1> QED  BY Invariance, Isolates, PTL

\* For every layout and number of processes: each one create_process has made
\* maps the kernel and the devices to themselves, without U, for good.
THEOREM KernelMappedEverywhere == Spec => []KernelEverywhere
<1> QED  BY Invariance, KernelMapped, PTL

\* For every layout and all image sizes: a process starts with its image at
\* USER_BASE, zeros up to the end of its last page, and no other page that user
\* mode may use.
THEOREM ImagesLoaded == Spec => []ImageLoaded
<1> QED  BY Invariance, ImagesInPlace, PTL
=============================================================================
