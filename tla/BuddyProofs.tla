---------------------------- MODULE BuddyProofs -----------------------------
(***************************************************************************)
(* Machine-checked facts about BuddyAllocator, for every heap, alignment,  *)
(* MAX_ORDER and page size: what its free lists hold, that what could be   *)
(* merged has been merged, and that the allocator implements PageHeap.     *)
(***************************************************************************)
EXTENDS BuddyAllocator, FiniteSetTheorems, SequenceTheorems, TLAPS

-----------------------------------------------------------------------------
(* order_for_pages.                                                        *)

\* A set of numbers that is not empty has a smallest element.
LEMMA LeastElement ==
  ASSUME NEW T \in SUBSET Nat, T # {}
  PROVE  \E x \in T : \A y \in T : x <= y
<1>1. PICK x \in T : \A y \in T : ~ (<<y, x>> \in OpToRel(<, Nat))
  BY NatLessThanWellFounded, WFMin, Zenon
<1>2. ASSUME NEW y \in T PROVE x <= y
  <2> DEFINE Less == {ss \in Nat \X Nat : ss[1] < ss[2]}
  <2>1. Less = OpToRel(<, Nat)
    BY DEF OpToRel
  <2>2. ~ (<<y, x>> \in Less)
    BY <1>1, <1>2, <2>1, Zenon
  <2> QED  BY <2>2
<1> QED  BY <1>2

\* The loop of order_for_pages ends with an order, MAX_ORDER + 1 when no block
\* is large enough; a block of an order up to MAX_ORDER has room for the pages.
LEMMA OrderForPages ==
  ASSUME NEW n \in Nat
  PROVE  /\ order_for_pages(n) \in 0..(MaxOrder + 1)
         /\ order_for_pages(n) \in Orders => BlockPages[order_for_pages(n)] >= n
<1> DEFINE T == {o \in 0..(MaxOrder + 1) : BlockPages[o] >= n \/ o = MaxOrder + 1}
           Good(o) == /\ BlockPages[o] >= n \/ o = MaxOrder + 1
                      /\ \A k \in 0..(MaxOrder + 1) : k < o => BlockPages[k] < n
<1>1. T \in SUBSET Nat /\ T # {}
  BY MaxOrderAssumption
<1>2. PICK x \in T : \A y \in T : x <= y
  BY <1>1, LeastElement, Zenon
<1>3. \A k \in 0..(MaxOrder + 1) : BlockPages[k] \in Nat
  BY BlockPagesAssumption
<1>4. x \in 0..(MaxOrder + 1) /\ Good(x)
  BY <1>2, <1>3, MaxOrderAssumption
<1>5. order_for_pages(n) = CHOOSE o \in 0..(MaxOrder + 1) : Good(o)
  BY DEF order_for_pages
<1>6. order_for_pages(n) \in 0..(MaxOrder + 1) /\ Good(order_for_pages(n))
  <2> HIDE DEF Good
  <2> QED  BY <1>4, <1>5, Zenon
<1> QED  BY <1>6, MaxOrderAssumption DEF Orders

\* kfree_size recovers from the size in bytes the page count kalloc was given.
LEMMA PagesOfBytes ==
  ASSUME NEW n \in Nat, NEW bytes \in BytesOf(n)
  PROVE  (bytes + PageSize - 1) \div PageSize = n
<1> DEFINE x == bytes + PageSize - 1
           q == x \div PageSize
<1>1. PageSize \in Nat /\ PageSize > 0
  BY HeapAssumption
<1>2. CASE n = 0
  <2>1. bytes = 0  BY <1>2 DEF BytesOf
  <2> QED  BY <1>1, <1>2, <2>1
<1>3. CASE n > 0
  <2>1. bytes \in Int /\ (n - 1) * PageSize + 1 <= bytes /\ bytes <= n * PageSize
    BY <1>1, <1>3 DEF BytesOf
  <2>2. n * PageSize <= x /\ x < n * PageSize + PageSize
    BY <1>1, <2>1
  <2>3. q \in Int /\ q * PageSize <= x /\ x < q * PageSize + PageSize
    BY <1>1, <2>1
  <2> HIDE DEF x, q
  <2>4. n * PageSize < q * PageSize + PageSize /\ q * PageSize < n * PageSize + PageSize
    BY <1>1, <2>1, <2>2, <2>3 DEF x
  <2>5. n = q
    BY <1>1, <2>3, <2>4
  <2> QED  BY <2>5 DEF q, x
<1> QED  BY <1>2, <1>3

-----------------------------------------------------------------------------
(* The free lists as sets of blocks.                                       *)

Lists == [Orders -> Seq(Nat)]

\* What it means for a block to be on a list.
LEMMA ListedMember ==
  ASSUME NEW fl, NEW a, NEW o
  PROVE  <<a, o>> \in Listed(fl) <=> o \in Orders /\ \E i \in 1..Len(fl[o]) : fl[o][i] = a
<1>1. ASSUME <<a, o>> \in Listed(fl)
      PROVE  o \in Orders /\ \E i \in 1..Len(fl[o]) : fl[o][i] = a
  <2>1. PICK p \in Orders : \E i \in 1..Len(fl[p]) : <<a, o>> = <<fl[p][i], p>>
    BY <1>1, Zenon DEF Listed
  <2>2. PICK i \in 1..Len(fl[p]) : <<a, o>> = <<fl[p][i], p>>
    BY <2>1
  <2>3. a = fl[p][i] /\ o = p
    BY <2>2
  <2> QED  BY <2>3, Zenon
<1>2. ASSUME o \in Orders, NEW i \in 1..Len(fl[o]), fl[o][i] = a
      PROVE  <<a, o>> \in Listed(fl)
  <2>1. <<fl[o][i], o>> \in {<<fl[o][j], o>> : j \in 1..Len(fl[o])}
    BY Zenon
  <2>2. <<fl[o][i], o>> \in Listed(fl)
    BY <1>2, <2>1, Zenon DEF Listed
  <2> QED  BY <1>2, <2>2, Zenon
<1> QED  BY <1>1, <1>2, Zenon

\* Every listed block is a pair of a page and an order.
LEMMA ListedType ==
  ASSUME NEW fl \in Lists, NEW x \in Listed(fl)
  PROVE  x \in Nat \X Orders
<1>1. PICK o \in Orders : \E i \in 1..Len(fl[o]) : x = <<fl[o][i], o>>
  BY Zenon DEF Listed
<1>2. fl[o] \in Seq(Nat)
  BY DEF Lists
<1> QED  BY <1>1, <1>2

\* A sequence with one more element in front.
LEMMA PutFirst ==
  ASSUME NEW s \in Seq(Nat), NEW a \in Nat
  PROVE  /\ <<a>> \o s \in Seq(Nat)
         /\ Len(<<a>> \o s) = Len(s) + 1
         /\ (<<a>> \o s)[1] = a
         /\ \A i \in 1..Len(s) : (<<a>> \o s)[i + 1] = s[i]
<1> DEFINE f == <<a>>
           t == f \o s
<1>1. f \in Seq(Nat) /\ Len(f) = 1 /\ f[1] = a /\ Len(s) \in Nat
  OBVIOUS
<1> HIDE DEF f
<1>2. /\ t \in Seq(Nat) /\ Len(t) = Len(f) + Len(s)
      /\ \A k \in 1..(Len(f) + Len(s)) : t[k] = IF k <= Len(f) THEN f[k] ELSE s[k - Len(f)]
  BY <1>1, ConcatProperties
<1> HIDE DEF t
<1>3. t[1] = a /\ Len(t) = Len(s) + 1
  BY <1>1, <1>2
<1>4. ASSUME NEW i \in 1..Len(s) PROVE t[i + 1] = s[i]
  <2> DEFINE k == i + 1
  <2>1. k \in 1..(Len(f) + Len(s)) /\ ~ (k <= Len(f)) /\ k - Len(f) = i
    BY <1>1
  <2> HIDE DEF k
  <2>2. t[k] = s[i]
    BY <1>2, <2>1
  <2> QED  BY <2>2 DEF k
<1> QED  BY <1>2, <1>3, <1>4 DEF f, t

\* Linking a block at the head of a list adds that block and nothing else.
LEMMA PushLists ==
  ASSUME NEW fl \in Lists, NEW o \in Orders, NEW a \in Nat
  PROVE  /\ Push(fl, o, a) \in Lists
         /\ Push(fl, o, a)[o] # << >>
         /\ Listed(Push(fl, o, a)) = Listed(fl) \cup {<<a, o>>}
         /\ ListedOnce(fl) /\ <<a, o>> \notin Listed(fl) => ListedOnce(Push(fl, o, a))
<1> DEFINE g == Push(fl, o, a)
<1>1. fl[o] \in Seq(Nat)
  BY DEF Lists
<1>2. /\ g \in Lists
      /\ g[o] = <<a>> \o fl[o]
      /\ \A k \in Orders : k # o => g[k] = fl[k]
  BY <1>1 DEF Push, Lists
<1>3. /\ Len(g[o]) = Len(fl[o]) + 1
      /\ g[o][1] = a
      /\ \A i \in 1..Len(fl[o]) : g[o][i + 1] = fl[o][i]
  <2>1. g[o] = <<a>> \o fl[o]
    BY <1>2
  <2> HIDE DEF g
  <2> QED  BY <1>1, <2>1, PutFirst
<1>4. \A i \in 2..Len(g[o]) : i - 1 \in 1..Len(fl[o]) /\ g[o][i] = fl[o][i - 1]
  BY <1>1, <1>3
<1>5. g[o] # << >>
  BY <1>1, <1>3
<1>6. ASSUME NEW b, NEW k
      PROVE  <<b, k>> \in Listed(g) <=> <<b, k>> \in Listed(fl) \cup {<<a, o>>}
  <2>1. CASE k # o
    BY <1>2, <2>1, ListedMember
  <2>2. CASE k = o
    <3>1. ASSUME NEW i \in 1..Len(g[o]), g[o][i] = b
          PROVE  b = a \/ \E j \in 1..Len(fl[o]) : fl[o][j] = b
      <4>1. CASE i = 1  BY <1>3, <3>1, <4>1
      <4>2. CASE i # 1
        <5>1. i \in 2..Len(g[o])  BY <1>1, <1>3, <4>2
        <5> QED  BY <1>4, <3>1, <5>1
      <4> QED  BY <4>1, <4>2
    <3>2. 1 \in 1..Len(g[o]) /\ \A j \in 1..Len(fl[o]) : j + 1 \in 1..Len(g[o])
      BY <1>1, <1>3
    <3>3. (\E i \in 1..Len(g[o]) : g[o][i] = b)
            <=> b = a \/ \E j \in 1..Len(fl[o]) : fl[o][j] = b
      BY <1>3, <3>1, <3>2
    <3> HIDE DEF g
    <3> QED  BY <2>2, <3>3, ListedMember
  <2> QED  BY <2>1, <2>2
<1>7. Listed(g) = Listed(fl) \cup {<<a, o>>}
  <2>1. \A x \in Listed(g) : \E b, k : x = <<b, k>>
    BY Zenon DEF Listed
  <2>2. \A x \in Listed(fl) : \E b, k : x = <<b, k>>
    BY Zenon DEF Listed
  <2> HIDE DEF g
  <2>3. ASSUME NEW x \in Listed(g) PROVE x \in Listed(fl) \cup {<<a, o>>}
    BY <1>6, <2>1, <2>3
  <2>4. ASSUME NEW x \in Listed(fl) \cup {<<a, o>>} PROVE x \in Listed(g)
    BY <1>6, <2>2, <2>4
  <2> QED  BY <2>3, <2>4, Zenon
<1>8. ASSUME ListedOnce(fl), <<a, o>> \notin Listed(fl)
      PROVE  ListedOnce(g)
  <2>1. \A i \in 1..Len(fl[o]) : fl[o][i] # a
    BY <1>8, ListedMember
  <2> SUFFICES ASSUME NEW k \in Orders,
                      NEW i \in 1..Len(g[k]), NEW j \in 1..Len(g[k]), g[k][i] = g[k][j]
               PROVE  i = j
    BY DEF ListedOnce
  <2>2. CASE k # o
    BY <1>2, <1>8, <2>2 DEF ListedOnce
  <2>3. CASE k = o
    <3>1. \A m, n \in 1..Len(fl[o]) : fl[o][m] = fl[o][n] => m = n
      BY <1>8 DEF ListedOnce
    <3> HIDE DEF g
    <3>2. CASE i = 1 /\ j # 1
      <4>1. j \in 2..Len(g[o])  BY <1>1, <1>3, <2>3, <3>2
      <4> QED  BY <1>3, <1>4, <2>1, <2>3, <3>2, <4>1
    <3>3. CASE j = 1 /\ i # 1
      <4>1. i \in 2..Len(g[o])  BY <1>1, <1>3, <2>3, <3>3
      <4> QED  BY <1>3, <1>4, <2>1, <2>3, <3>3, <4>1
    <3>4. CASE i # 1 /\ j # 1
      <4>1. i \in 2..Len(g[o]) /\ j \in 2..Len(g[o])  BY <1>1, <1>3, <2>3, <3>4
      <4>2. i - 1 = j - 1  BY <1>4, <2>3, <3>1, <4>1
      <4> QED  BY <4>1, <4>2
    <3> QED  BY <3>2, <3>3, <3>4
  <2> QED  BY <2>2, <2>3
<1> QED  BY <1>2, <1>5, <1>7, <1>8

\* Unlinking the i-th block of a list removes that block and nothing else.
LEMMA UnlinkLists ==
  ASSUME NEW fl \in Lists, ListedOnce(fl), NEW o \in Orders, NEW i \in 1..Len(fl[o])
  PROVE  LET g == [fl EXCEPT ![o] = Unlink(fl[o], i)]
         IN  /\ g \in Lists
             /\ Listed(g) = Listed(fl) \ {<<fl[o][i], o>>}
             /\ ListedOnce(g)
<1> DEFINE s == fl[o]
           t == Unlink(s, i)
           g == [fl EXCEPT ![o] = t]
<1>1. s \in Seq(Nat) /\ Len(s) \in Nat /\ i \in 1..Len(s)
  BY DEF Lists
<1>2. /\ t \in Seq(Nat)
      /\ Len(t) = Len(s) - 1 /\ Len(t) \in Nat
      /\ \A j \in 1..Len(t) : t[j] = IF j < i THEN s[j] ELSE s[j + 1]
  <2>1. \A j \in 1..(Len(s) - 1) : s[j] \in Nat /\ s[j + 1] \in Nat
    BY <1>1
  <2>2. t \in [1..(Len(s) - 1) -> Nat]
    BY <2>1 DEF Unlink
  <2>3. Len(s) - 1 \in Nat
    BY <1>1
  <2>4. t \in Seq(Nat) /\ Len(t) = Len(s) - 1 /\ Len(t) \in Nat
    <3> HIDE DEF t, s
    <3> QED  BY <2>2, <2>3
  <2> QED  BY <2>4 DEF Unlink
<1>3. g \in Lists /\ g[o] = t /\ \A k \in Orders : k # o => g[k] = fl[k]
  <2> HIDE DEF t
  <2> QED  BY <1>2 DEF Lists
<1>4. \A m, n \in 1..Len(s) : s[m] = s[n] => m = n
  BY DEF ListedOnce
<1>5. \A j \in 1..Len(t) :
        /\ j \in 1..Len(s) /\ j + 1 \in 1..Len(s)
        /\ j < i => t[j] = s[j]
        /\ j >= i => t[j] = s[j + 1]
  <2> HIDE DEF t, s
  <2> QED  BY <1>1, <1>2
<1>6. ASSUME NEW b, NEW k
      PROVE  <<b, k>> \in Listed(g) <=> <<b, k>> \in Listed(fl) \ {<<s[i], o>>}
  <2>1. CASE k # o
    <3> HIDE DEF g, s
    <3> QED  BY <1>3, <2>1, ListedMember
  <2>2. CASE k = o
    <3> HIDE DEF t, s
    <3>1. ASSUME NEW j \in 1..Len(t), t[j] = b
          PROVE  b # s[i] /\ \E m \in 1..Len(s) : s[m] = b
      <4>1. PICK m \in 1..Len(s) : m # i /\ t[j] = s[m]
        <5>1. j \in 1..Len(s) /\ j + 1 \in 1..Len(s)
          BY <1>5
        <5>2. CASE j < i
          <6>1. t[j] = s[j] /\ j # i
            BY <1>1, <1>5, <5>2
          <6> QED  BY <5>1, <6>1
        <5>3. CASE j >= i
          <6>1. t[j] = s[j + 1] /\ j + 1 # i
            BY <1>1, <1>5, <5>3
          <6> QED  BY <5>1, <6>1
        <5> QED  BY <1>1, <5>1, <5>2, <5>3
      <4> QED  BY <1>1, <1>4, <3>1, <4>1
    <3>2. ASSUME NEW m \in 1..Len(s), s[m] = b, b # s[i]
          PROVE  \E j \in 1..Len(t) : t[j] = b
      <4>1. CASE m < i
        <5>1. m \in 1..Len(t)  BY <1>1, <1>2, <4>1
        <5> QED  BY <1>1, <1>2, <1>5, <3>2, <4>1, <5>1
      <4>2. CASE m > i
        <5>1. PICK j \in 1..Len(t) : j >= i /\ j + 1 = m
          <6>1. m - 1 \in 1..Len(t) /\ m - 1 >= i /\ (m - 1) + 1 = m
            BY <1>1, <1>2, <4>2
          <6> QED  BY <6>1
        <5>2. t[j] = IF j < i THEN s[j] ELSE s[j + 1]
          BY <1>2, <5>1
        <5>3. t[j] = s[j + 1]
          BY <1>1, <1>2, <5>1, <5>2
        <5> QED  BY <3>2, <5>1, <5>3
      <4>3. m # i  BY <3>2
      <4> QED  BY <1>1, <4>1, <4>2, <4>3
    <3>3. (\E j \in 1..Len(t) : t[j] = b) <=> b # s[i] /\ \E m \in 1..Len(s) : s[m] = b
      BY <3>1, <3>2
    <3>4. <<b, k>> \in Listed(g) <=> \E j \in 1..Len(t) : t[j] = b
      <4> HIDE DEF g
      <4> QED  BY <1>3, <2>2, ListedMember
    <3>5. <<b, k>> \in Listed(fl) <=> \E m \in 1..Len(s) : s[m] = b
      BY <2>2, ListedMember DEF s
    <3> HIDE DEF g
    <3> QED  BY <2>2, <3>3, <3>4, <3>5
  <2> QED  BY <2>1, <2>2
<1>7. Listed(g) = Listed(fl) \ {<<s[i], o>>}
  <2>1. \A x \in Listed(g) : \E b, k : x = <<b, k>>
    BY Zenon DEF Listed
  <2>2. \A x \in Listed(fl) : \E b, k : x = <<b, k>>
    BY Zenon DEF Listed
  <2> HIDE DEF g
  <2>3. ASSUME NEW x \in Listed(g) PROVE x \in Listed(fl) \ {<<s[i], o>>}
    BY <1>6, <2>1, <2>3
  <2>4. ASSUME NEW x \in Listed(fl) \ {<<s[i], o>>} PROVE x \in Listed(g)
    BY <1>6, <2>2, <2>4
  <2> QED  BY <2>3, <2>4, Zenon
<1>8. ListedOnce(g)
  <2> SUFFICES ASSUME NEW k \in Orders,
                      NEW m \in 1..Len(g[k]), NEW n \in 1..Len(g[k]), g[k][m] = g[k][n]
               PROVE  m = n
    BY DEF ListedOnce
  <2>1. CASE k # o
    <3> HIDE DEF g
    <3> QED  BY <1>3, <2>1 DEF ListedOnce
  <2>2. CASE k = o
    <3>1. m \in 1..Len(t) /\ n \in 1..Len(t) /\ t[m] = t[n]
      BY <1>3, <2>2
    <3> HIDE DEF g, t, s
    <3>2. /\ m \in 1..Len(s) /\ m + 1 \in 1..Len(s)
          /\ t[m] = IF m < i THEN s[m] ELSE s[m + 1]
      BY <1>2, <1>5, <3>1
    <3>3. /\ n \in 1..Len(s) /\ n + 1 \in 1..Len(s)
          /\ t[n] = IF n < i THEN s[n] ELSE s[n + 1]
      BY <1>2, <1>5, <3>1
    <3>4. (IF m < i THEN m ELSE m + 1) = (IF n < i THEN n ELSE n + 1)
      BY <1>4, <3>1, <3>2, <3>3
    <3> QED  BY <1>1, <3>2, <3>3, <3>4
  <2> QED  BY <2>1, <2>2
<1> HIDE DEF g
<1> QED  BY <1>3, <1>7, <1>8 DEF g

\* Taking the first block off a list removes that block and nothing else.
LEMMA PopLists ==
  ASSUME NEW fl \in Lists, ListedOnce(fl), NEW o \in Orders, fl[o] # << >>
  PROVE  /\ Pop(fl, o) \in Lists
         /\ <<Head(fl[o]), o>> \in Listed(fl)
         /\ Listed(Pop(fl, o)) = Listed(fl) \ {<<Head(fl[o]), o>>}
         /\ ListedOnce(Pop(fl, o))
<1> DEFINE s == fl[o]
<1>1. s \in Seq(Nat) /\ s # << >>
  BY DEF Lists
<1>2. 1 \in 1..Len(s) /\ s[1] = Head(s)
  <2> HIDE DEF s
  <2> QED  BY <1>1
<1>3. Tail(s) = Unlink(s, 1)
  <2>1. Unlink(s, 1) = [j \in 1..(Len(s) - 1) |-> s[j + 1]]
    BY <1>1 DEF Unlink
  <2> HIDE DEF s
  <2> QED  BY <1>1, <2>1
<1>4. Pop(fl, o) = [fl EXCEPT ![o] = Unlink(fl[o], 1)]
  BY <1>3 DEF Pop, Lists
<1>5. <<Head(s), o>> \in Listed(fl)
  BY <1>2, ListedMember
<1>6. LET g == [fl EXCEPT ![o] = Unlink(fl[o], 1)]
      IN  /\ g \in Lists
          /\ Listed(g) = Listed(fl) \ {<<fl[o][1], o>>}
          /\ ListedOnce(g)
  BY <1>2, UnlinkLists
<1> QED  BY <1>2, <1>4, <1>5, <1>6

-----------------------------------------------------------------------------
(* The inductive invariant.                                                *)

Inv == TypeOK /\ CallState /\ NoSharedPage /\ NoLeak

\* Facts about the lengths of blocks that every step below uses.
LEMMA BlockLength ==
  /\ Orders = 0..MaxOrder
  /\ MaxOrder \in Nat
  /\ \A o \in Orders : BlockPages[o] \in Nat /\ BlockPages[o] >= 1
  /\ \A o \in Orders : o > 0 => /\ o - 1 \in Orders
                               /\ BlockPages[o] = 2 * BlockPages[o - 1]
  /\ \A o \in Orders : o < MaxOrder => /\ o + 1 \in Orders
                                      /\ BlockPages[o + 1] = 2 * BlockPages[o]
<1>1. \A o \in Orders : BlockPages[o] \in Nat /\ BlockPages[o] >= 1
  BY MaxOrderAssumption, BlockPagesAssumption DEF Orders
<1>2. ASSUME NEW o \in Orders, o > 0
      PROVE  o - 1 \in Orders /\ BlockPages[o] = 2 * BlockPages[o - 1]
  <2>1. o - 1 \in Orders /\ (o - 1) + 1 = o
    BY <1>2, MaxOrderAssumption DEF Orders
  <2>2. BlockPages[(o - 1) + 1] = 2 * BlockPages[o - 1]
    BY <2>1, BlockPagesAssumption
  <2> QED  BY <2>1, <2>2
<1>3. ASSUME NEW o \in Orders, o < MaxOrder
      PROVE  o + 1 \in Orders /\ BlockPages[o + 1] = 2 * BlockPages[o]
  BY <1>3, MaxOrderAssumption, BlockPagesAssumption DEF Orders
<1> QED  BY <1>1, <1>2, <1>3, MaxOrderAssumption DEF Orders

\* Flipping the bit of weight block_size moves an address by one block.
LEMMA BuddyAddr ==
  ASSUME NEW a \in Nat, NEW o \in Orders
  PROVE  buddy_addr(a, o) = a + BlockPages[o] \/ buddy_addr(a, o) = a - BlockPages[o]
  BY DEF buddy_addr

\* Every block is a pair of a page and an order.
LEMMA BlocksType ==
  ASSUME Inv
  PROVE  /\ free_lists \in Lists
         /\ \A x \in Blocks : x \in Nat \X Orders
<1>1. free_lists \in Lists
  BY DEF Inv, TypeOK, Lists
<1>2. \A x \in FreeBlocks : x \in Nat \X Orders
  BY <1>1, ListedType DEF FreeBlocks
<1>3. \A x \in LiveBlocks : x \in Nat \X Orders
  BY DEF Inv, TypeOK, CallState, LiveBlocks, BlockOf
<1>4. \A x \in HandBlocks : x \in Nat \X Orders
  BY DEF Inv, TypeOK, CallState, HandBlocks
<1> QED  BY <1>1, <1>2, <1>3, <1>4 DEF Blocks

\* The empty lists init_memory starts from.
LEMMA InitInv == Init => Inv
<1> SUFFICES ASSUME Init PROVE Inv
  OBVIOUS
<1>1. FreeBlocks = {}
  <2>1. \A o \in Orders : Len(free_lists[o]) = 0
    BY DEF Init
  <2>2. ASSUME NEW x \in FreeBlocks PROVE FALSE
    <3>1. PICK o \in Orders : \E i \in 1..Len(free_lists[o]) : x = <<free_lists[o][i], o>>
      BY <2>2, Zenon DEF FreeBlocks, Listed
    <3> QED  BY <2>1, <3>1
  <2> QED  BY <2>2, Zenon
<1>2. LiveBlocks = {} /\ HandBlocks = {}
  BY DEF Init, LiveBlocks, HandBlocks
<1>3. TypeOK
  <2>1. << >> \in Seq(Nat)
    OBVIOUS
  <2> QED  BY <2>1, BlockLength, HeapAssumption DEF Init, TypeOK
<1>4. CallState
  BY <1>1, BlockLength, HeapAssumption DEF Init, CallState, HeapEnd
<1>5. NoSharedPage
  <2>1. ListedOnce(free_lists)
    BY DEF Init, ListedOnce
  <2> QED  BY <1>1, <1>2, <2>1 DEF Init, NoSharedPage, OneOwner, Blocks
<1>6. NoLeak
  BY HeapAssumption DEF Init, NoLeak, Heap, HeapEnd
<1> QED  BY <1>3, <1>4, <1>5, <1>6 DEF Inv

\* Linking the next block of the heap.
LEMMA InitBlockInv == Inv /\ InitBlock => Inv'
<1> SUFFICES ASSUME Inv, InitBlock PROVE Inv'
  OBVIOUS
<1> DEFINE x == <<addr, order>>
<1>1. /\ order \in Orders /\ addr \in Nat /\ total_pages \in Nat
      /\ BlockPages[order] \in Nat /\ BlockPages[order] >= 1
      /\ HeapStart <= addr /\ addr + total_pages = HeapEnd
      /\ \A y \in FreeBlocks : y[1] + BlockPages[y[2]] <= addr
      /\ live = {} /\ LiveBlocks = {} /\ HandBlocks = {}
      /\ total_pages >= BlockPages[order]
      /\ HeapStart \in Nat /\ HeapEnd \in Nat
  BY BlockLength, HeapAssumption
     DEF Inv, InitBlock, CallState, TypeOK, LiveBlocks, HandBlocks, HeapEnd
<1>2. /\ free_lists \in Lists /\ ListedOnce(free_lists)
      /\ \A y \in FreeBlocks : y \in Nat \X Orders
  BY BlocksType DEF Inv, NoSharedPage, Blocks
<1>3. x \notin FreeBlocks
  BY <1>1
<1>4. /\ free_lists' \in Lists
      /\ FreeBlocks' = FreeBlocks \cup {x}
      /\ ListedOnce(free_lists')
  BY <1>1, <1>2, <1>3, PushLists DEF FreeBlocks, InitBlock
<1>5. LiveBlocks' = {} /\ HandBlocks' = {}
  BY <1>1 DEF LiveBlocks, HandBlocks, InitBlock
<1>6. TypeOK'
  <2>1. addr' \in Nat /\ total_pages' \in Nat
    BY <1>1 DEF InitBlock
  <2> QED  BY <1>4, <2>1 DEF TypeOK, Inv, InitBlock, Lists
<1>7. CallState'
  <2>1. /\ HeapStart <= addr' /\ addr' + total_pages' = HeapEnd
        /\ addr' = x[1] + BlockPages[x[2]]
    BY <1>1 DEF InitBlock
  <2>2. ASSUME NEW y \in FreeBlocks' PROVE y[1] + BlockPages[y[2]] <= addr'
    <3>1. CASE y = x
      BY <1>1, <2>1, <3>1
    <3>2. CASE y \in FreeBlocks
      <4>1. y[1] \in Nat /\ BlockPages[y[2]] \in Nat /\ y[1] + BlockPages[y[2]] <= addr
        BY <1>1, <1>2, <3>2, BlockLength
      <4> QED  BY <1>1, <4>1 DEF InitBlock
    <3> QED  BY <1>4, <2>2, <3>1, <3>2
  <2> QED  BY <1>1, <2>1, <2>2 DEF CallState, InitBlock
<1>8. NoSharedPage'
  <2>1. \A y \in FreeBlocks : Inside(y) /\ Apart(x, y) /\ Apart(y, x)
    BY <1>1 DEF Inv, NoSharedPage, Blocks, Inside, Apart
  <2>2. Inside(x)
    BY <1>1 DEF Inside
  <2>3. \A y, z \in FreeBlocks : y # z => Apart(y, z)
    BY DEF Inv, NoSharedPage, Blocks
  <2>4. Blocks' = FreeBlocks \cup {x}
    BY <1>4, <1>5 DEF Blocks
  <2> HIDE DEF x
  <2>5. OneOwner'
    BY <1>1, <1>5 DEF OneOwner, InitBlock
  <2>6. \A y \in Blocks' : Inside(y)
    BY <2>1, <2>2, <2>4, Zenon
  <2>7. \A y, z \in Blocks' : y # z => Apart(y, z)
    BY <2>1, <2>3, <2>4, Zenon
  <2> QED  BY <1>4, <2>5, <2>6, <2>7 DEF NoSharedPage, Inside, Apart
<1>9. NoLeak'
  <2> SUFFICES ASSUME NEW p \in Heap
               PROVE  (\E y \in Blocks' : p \in PagesOf(y)) \/ p >= addr'
    BY DEF NoLeak, InitBlock, PagesOf
  <2>1. CASE \E y \in Blocks : p \in PagesOf(y)
    BY <1>1, <1>4, <2>1 DEF Blocks
  <2>2. CASE p >= addr
    <3>1. CASE p < addr + BlockPages[order]
      <4>1. p \in PagesOf(x)
        BY <1>1, <2>2, <3>1 DEF PagesOf, Heap
      <4>2. x \in Blocks'
        BY <1>4 DEF Blocks
      <4> QED  BY <4>1, <4>2
    <3>2. CASE p >= addr + BlockPages[order]
      BY <3>2 DEF InitBlock
    <3> QED  BY <1>1, <3>1, <3>2 DEF Heap
  <2> QED  BY <2>1, <2>2 DEF Inv, NoLeak
<1> QED  BY <1>6, <1>7, <1>8, <1>9 DEF Inv

\* A step that leaves every block where it is keeps the heap partitioned.
LEMMA SameBlocks ==
  ASSUME Inv, UNCHANGED <<free_lists, live>>, HandBlocks' = HandBlocks, pc # "init"
  PROVE  NoSharedPage' /\ NoLeak'
<1>1. /\ FreeBlocks' = FreeBlocks /\ LiveBlocks' = LiveBlocks /\ Blocks' = Blocks
      /\ ListedOnce(free_lists') /\ OneOwner'
  BY DEF FreeBlocks, LiveBlocks, Blocks, ListedOnce, OneOwner, Inv, NoSharedPage
<1>2. NoSharedPage'
  BY <1>1 DEF Inv, NoSharedPage, Inside, Apart
<1>3. NoLeak'
  BY <1>1 DEF Inv, NoLeak, PagesOf
<1> QED  BY <1>2, <1>3

\* A step that moves blocks between their owners keeps the heap partitioned.
LEMMA SameBlockSet ==
  ASSUME Inv, Blocks' = Blocks, ListedOnce(free_lists'), OneOwner', pc # "init"
  PROVE  NoSharedPage' /\ NoLeak'
<1>1. NoSharedPage'
  BY DEF Inv, NoSharedPage, Inside, Apart
<1>2. NoLeak'
  BY DEF Inv, NoLeak, PagesOf
<1> QED  BY <1>1, <1>2

\* Going on to the next smaller order, or ending: then no page is left over.
LEMMA InitNextOrderInv == Inv /\ InitNextOrder => Inv'
<1> SUFFICES ASSUME Inv, InitNextOrder PROVE Inv'
  OBVIOUS
<1>1. /\ order \in Orders /\ addr \in Nat /\ total_pages \in Nat
      /\ addr + total_pages = HeapEnd /\ live = {}
      /\ total_pages < BlockPages[order]
      /\ HandBlocks = {}
  BY DEF Inv, InitNextOrder, CallState, TypeOK, HandBlocks
<1>2. /\ free_lists' = free_lists /\ live' = live /\ HandBlocks' = {}
      /\ pc' \in {"init", "ready"}
  BY <1>1 DEF InitNextOrder, Return, HandBlocks
<1>3. /\ FreeBlocks' = FreeBlocks /\ LiveBlocks' = LiveBlocks /\ Blocks' = Blocks
      /\ ListedOnce(free_lists') /\ OneOwner'
  BY <1>1, <1>2 DEF FreeBlocks, LiveBlocks, Blocks, ListedOnce, OneOwner, Inv, NoSharedPage
<1>4. NoSharedPage'
  BY <1>3 DEF Inv, NoSharedPage, Inside, Apart
<1>5. CASE order > 0 /\ order' = order - 1 /\ UNCHANGED <<pc, curr_order, addr, npages, total_pages>>
  <2>1. order' \in Orders
    BY <1>1, <1>5, BlockLength
  <2>2. TypeOK'
    BY <1>2, <1>5, <2>1, BlockLength DEF Inv, TypeOK
  <2>3. CallState'
    BY <1>2, <1>3, <1>5, <2>1 DEF Inv, CallState, InitNextOrder
  <2>4. NoLeak'
    BY <1>3, <1>5 DEF Inv, NoLeak, PagesOf
  <2> QED  BY <1>4, <2>2, <2>3, <2>4 DEF Inv
<1>6. CASE order = 0 /\ Return /\ UNCHANGED total_pages
  <2>1. total_pages = 0 /\ addr = HeapEnd
    BY <1>1, <1>6, BlockPagesAssumption, HeapAssumption DEF HeapEnd
  <2>2. \A p \in Heap : ~ (p >= addr)
    BY <2>1, HeapAssumption DEF Heap, HeapEnd
  <2>3. TypeOK'
    BY <1>2, <1>6, BlockLength, HeapAssumption DEF Inv, TypeOK, Return, NULL
  <2>4. CallState'
    BY <1>1, <1>2, <1>6 DEF CallState, Return
  <2>5. NoLeak'
    BY <1>3, <2>2 DEF Inv, NoLeak, PagesOf
  <2> QED  BY <1>4, <2>3, <2>4, <2>5 DEF Inv
<1> QED  BY <1>5, <1>6 DEF InitNextOrder

\* kalloc_order finds no block.
LEMMA KallocNoneInv == ASSUME NEW n \in 0..MaxReq PROVE Inv /\ KallocNone(n) => Inv'
<1> SUFFICES ASSUME Inv, KallocNone(n) PROVE Inv'
  OBVIOUS
<1>1. HandBlocks' = HandBlocks
  BY DEF KallocNone, HandBlocks, NULL
<1>2. order' = order_for_pages(n) /\ order' \in 0..(MaxOrder + 1)
  BY OrderForPages, HeapAssumption DEF KallocNone
<1>3. TypeOK'
  BY <1>2 DEF Inv, TypeOK, KallocNone, NULL
<1>4. CallState'
  BY <1>2 DEF Inv, CallState, KallocNone, NULL
<1>5. NoSharedPage' /\ NoLeak'
  BY <1>1, SameBlocks DEF KallocNone
<1> QED  BY <1>3, <1>4, <1>5 DEF Inv

\* kalloc_order finds the list to take a block from.
LEMMA KallocFindInv == ASSUME NEW n \in 0..MaxReq PROVE Inv /\ KallocFind(n) => Inv'
<1> SUFFICES ASSUME Inv, KallocFind(n) PROVE Inv'
  OBVIOUS
<1>1. HandBlocks' = HandBlocks
  BY DEF KallocFind, HandBlocks
<1>2. /\ order' = order_for_pages(n) /\ curr_order' \in Orders
      /\ order' <= curr_order' /\ free_lists[curr_order'] # << >>
      /\ order' \in 0..(MaxOrder + 1)
  BY OrderForPages, HeapAssumption DEF KallocFind
<1>3. order' \in Orders
  BY <1>2, BlockLength
<1>4. TypeOK'
  BY <1>2 DEF Inv, TypeOK, KallocFind
<1>5. CallState'
  BY <1>2, <1>3 DEF Inv, CallState, KallocFind
<1>6. NoSharedPage' /\ NoLeak'
  BY <1>1, SameBlocks DEF KallocFind
<1> QED  BY <1>4, <1>5, <1>6 DEF Inv

\* A block is replaced by its two halves.
LEMMA SplitInv == Inv /\ Split => Inv'
<1> SUFFICES ASSUME Inv, Split PROVE Inv'
  OBVIOUS
<1> DEFINE c == curr_order
           block == Head(free_lists[c])
           buddy2 == block + BlockPages[c - 1]
           x == <<block, c>>
           y == <<block, c - 1>>
           z == <<buddy2, c - 1>>
           f1 == Pop(free_lists, c)
           f2 == Push(f1, c - 1, buddy2)
           f3 == Push(f2, c - 1, block)
<1>1. /\ pc = "split" /\ order \in Orders /\ order < c /\ c \in Orders
      /\ free_lists[c] # << >>
      /\ free_lists \in Lists /\ ListedOnce(free_lists)
  BY BlocksType DEF Inv, TypeOK, CallState, Split, NoSharedPage
<1>2. /\ c > 0 /\ c - 1 \in Orders /\ order <= c - 1
      /\ BlockPages[c - 1] \in Nat /\ BlockPages[c - 1] >= 1
      /\ BlockPages[c] = 2 * BlockPages[c - 1]
      /\ c # c - 1
  BY <1>1, BlockLength
<1>3. /\ f1 \in Lists /\ x \in FreeBlocks /\ ListedOnce(f1)
      /\ Listed(f1) = FreeBlocks \ {x}
  BY <1>1, PopLists DEF FreeBlocks
<1>4. block \in Nat /\ buddy2 \in Nat
  <2>1. x \in Nat \X Orders
    BY <1>3, BlocksType DEF Blocks
  <2> QED  BY <1>2, <2>1
<1>5. \A b \in Blocks : b \in Nat \X Orders /\ BlockPages[b[2]] \in Nat /\ BlockPages[b[2]] >= 1
  BY BlocksType, BlockLength
<1>6. x \in Blocks /\ \A b \in Blocks : b # x => Apart(b, x)
  BY <1>3 DEF Inv, NoSharedPage, Blocks
<1>7. Inside(x)
  BY <1>6 DEF Inv, NoSharedPage
<1>8. /\ Inside(y) /\ Inside(z) /\ Apart(y, z) /\ Apart(z, y) /\ y # z
      /\ \A b \in Blocks : b # x => Apart(b, y) /\ Apart(b, z) /\ Apart(y, b) /\ Apart(z, b)
  <2>1. Inside(y) /\ Inside(z)
    BY <1>2, <1>4, <1>7, HeapAssumption DEF Inside, HeapEnd
  <2>2. Apart(y, z) /\ Apart(z, y) /\ y # z
    BY <1>2, <1>4 DEF Apart
  <2>3. ASSUME NEW b \in Blocks, b # x
        PROVE  Apart(b, y) /\ Apart(b, z) /\ Apart(y, b) /\ Apart(z, b)
    <3>1. b[1] \in Nat /\ BlockPages[b[2]] \in Nat
      BY <1>5
    <3>2. Apart(b, x)
      BY <1>6, <2>3
    <3> QED  BY <1>2, <1>4, <3>1, <3>2 DEF Apart
  <2> QED  BY <2>1, <2>2, <2>3
<1>9. y \notin Blocks \ {x} /\ z \notin Blocks \ {x}
  <2>1. ~ Apart(y, y) /\ ~ Apart(z, z)
    BY <1>2, <1>4 DEF Apart
  <2> QED  BY <1>8, <2>1
<1>10. y # x /\ z # x
  BY <1>2
<1>11. /\ f3 \in Lists /\ f3[c - 1] # << >> /\ ListedOnce(f3)
       /\ Listed(f3) = (FreeBlocks \ {x}) \cup {y, z}
  <2>1. z \notin Listed(f1)
    BY <1>3, <1>9 DEF Blocks
  <2>2. f2 \in Lists /\ ListedOnce(f2) /\ Listed(f2) = (FreeBlocks \ {x}) \cup {z}
    <3> HIDE DEF f1, block, buddy2
    <3> QED  BY <1>2, <1>3, <1>4, <2>1, PushLists
  <2>3. y \notin Listed(f2)
    BY <1>8, <1>9, <2>2 DEF Blocks
  <2> HIDE DEF f2, block
  <2> QED  BY <1>2, <1>4, <2>2, <2>3, PushLists
<1>12. /\ free_lists' = f3 /\ curr_order' = c - 1
       /\ UNCHANGED <<pc, order, addr, total_pages, npages, live>>
  BY DEF Split
<1> HIDE DEF f3, f2, f1, block, buddy2
<1>13. /\ FreeBlocks' = (FreeBlocks \ {x}) \cup {y, z}
       /\ LiveBlocks' = LiveBlocks /\ HandBlocks' = HandBlocks /\ HandBlocks = {}
  BY <1>1, <1>11, <1>12 DEF FreeBlocks, LiveBlocks, HandBlocks
<1>14. x \notin LiveBlocks
  BY <1>3 DEF Inv, NoSharedPage, OneOwner
<1>15. Blocks' = (Blocks \ {x}) \cup {y, z}
  BY <1>13, <1>14 DEF Blocks
<1>16. TypeOK'
  BY <1>2, <1>11, <1>12 DEF Inv, TypeOK, Lists
<1>17. CallState'
  BY <1>1, <1>2, <1>11, <1>12 DEF Inv, CallState
<1>18. NoSharedPage'
  <2> HIDE DEF x, y, z
  <2>1. OneOwner'
    <3>1. FreeBlocks' \cap LiveBlocks' = {}
      BY <1>9, <1>13, <1>14 DEF Inv, NoSharedPage, OneOwner, Blocks
    <3> QED  BY <1>12, <1>13, <3>1 DEF Inv, NoSharedPage, OneOwner
  <2>2. \A b \in Blocks' : Inside(b)
    BY <1>8, <1>15 DEF Inv, NoSharedPage
  <2>3. \A a, b \in Blocks' : a # b => Apart(a, b)
    BY <1>8, <1>15 DEF Inv, NoSharedPage
  <2> QED  BY <1>11, <1>12, <2>1, <2>2, <2>3 DEF NoSharedPage, Inside, Apart
<1>19. NoLeak'
  <2> SUFFICES ASSUME NEW p \in Heap
               PROVE  \E b \in Blocks' : p \in PagesOf(b)
    BY DEF NoLeak, PagesOf
  <2>1. PICK b \in Blocks : p \in PagesOf(b)
    BY <1>1 DEF Inv, NoLeak
  <2>2. CASE b = x
    <3>1. p \in PagesOf(y) \/ p \in PagesOf(z)
      BY <1>2, <1>4, <2>1, <2>2 DEF PagesOf, buddy2
    <3> QED  BY <1>15, <3>1
  <2>3. CASE b # x
    BY <1>15, <2>1, <2>3
  <2> QED  BY <2>2, <2>3
<1> QED  BY <1>16, <1>17, <1>18, <1>19 DEF Inv

\* kalloc_order takes the first block off its list.
LEMMA TakeInv == Inv /\ Take => Inv'
<1> SUFFICES ASSUME Inv, Take PROVE Inv'
  OBVIOUS
<1> DEFINE block == Head(free_lists[order])
           x == <<block, order>>
<1>1. /\ pc = "split" /\ order \in Orders /\ order = order_for_pages(npages)
      /\ free_lists[order] # << >>
      /\ free_lists \in Lists /\ ListedOnce(free_lists)
      /\ free_lists' = Pop(free_lists, order) /\ addr' = block /\ pc' = "memset"
      /\ UNCHANGED <<order, curr_order, total_pages, npages, live>>
  BY BlocksType DEF Inv, TypeOK, CallState, Take, NoSharedPage
<1>2. /\ free_lists' \in Lists /\ ListedOnce(free_lists')
      /\ x \in FreeBlocks /\ FreeBlocks' = FreeBlocks \ {x}
  BY <1>1, PopLists DEF FreeBlocks
<1>3. x \in Nat \X Orders /\ Inside(x)
  BY <1>2, BlocksType DEF Blocks, Inv, NoSharedPage
<1>4. block \in Nat /\ block # NULL
  BY <1>3, HeapAssumption DEF Inside, NULL
<1>5. HandBlocks = {} /\ HandBlocks' = {x} /\ LiveBlocks' = LiveBlocks
  BY <1>1, <1>4 DEF HandBlocks, LiveBlocks
<1> HIDE DEF x
<1>6. Blocks' = Blocks
  BY <1>2, <1>5 DEF Blocks
<1>7. OneOwner'
  BY <1>1, <1>2, <1>5 DEF Inv, NoSharedPage, OneOwner
<1>8. NoSharedPage' /\ NoLeak'
  BY <1>1, <1>2, <1>6, <1>7, SameBlockSet
<1>9. TypeOK'
  BY <1>1, <1>2, <1>4 DEF Inv, TypeOK, Lists
<1>10. CallState'
  BY <1>1, <1>4 DEF Inv, CallState
<1> QED  BY <1>8, <1>9, <1>10 DEF Inv

\* kalloc hands the block to its caller.
LEMMA KallocReturnInv == Inv /\ KallocReturn => Inv'
<1> SUFFICES ASSUME Inv, KallocReturn PROVE Inv'
  OBVIOUS
<1>1. /\ pc = "memset" /\ pc' = "ready" /\ order' = 0 /\ curr_order' = 0
      /\ addr' = NULL /\ npages' = 0 /\ HandBlocks' = {}
      /\ UNCHANGED <<free_lists, total_pages>>
      /\ order = order_for_pages(npages)
      /\ npages \in 0..MaxReq
  BY DEF KallocReturn, Return, HandBlocks, Inv, CallState, TypeOK
<1>2. CASE addr = NULL
  <2>1. live' = live /\ HandBlocks = {}
    BY <1>1, <1>2 DEF KallocReturn, HandBlocks
  <2>2. NoSharedPage' /\ NoLeak'
    BY <1>1, <2>1, SameBlocks
  <2>3. TypeOK'
    BY <1>1, <2>1, BlockLength, HeapAssumption DEF Inv, TypeOK, NULL
  <2>4. CallState'
    BY <1>1, <2>1 DEF Inv, CallState
  <2> QED  BY <2>2, <2>3, <2>4 DEF Inv
<1>3. CASE addr # NULL
  <2> DEFINE b == <<addr, npages>>
             x == <<addr, order>>
  <2>1. live' = live \cup {b} /\ HandBlocks = {x} /\ BlockOf(b) = x
    BY <1>1, <1>3 DEF KallocReturn, HandBlocks, BlockOf
  <2>2. LiveBlocks' = LiveBlocks \cup {x} /\ FreeBlocks' = FreeBlocks
    BY <1>1, <2>1 DEF LiveBlocks, FreeBlocks
  <2>3. Blocks' = Blocks
    BY <1>1, <2>1, <2>2 DEF Blocks
  <2>4. addr \in Nat /\ order \in Orders /\ BlockPages[order] \in Nat /\ BlockPages[order] >= 1
    BY <1>1, <1>3, BlockLength DEF Inv, TypeOK, CallState
  <2>5. ASSUME NEW c \in live PROVE c[1] # addr
    <3> DEFINE y == BlockOf(c)
    <3>1. y \in LiveBlocks /\ x \in HandBlocks
      BY <2>1 DEF LiveBlocks
    <3>2. y # x
      BY <2>1, <3>1 DEF Inv, NoSharedPage, OneOwner
    <3>3. Apart(y, x) /\ y \in Nat \X Orders
      BY <3>1, <3>2, BlocksType DEF Inv, NoSharedPage, Blocks
    <3>4. BlockPages[y[2]] \in Nat /\ BlockPages[y[2]] >= 1
      BY <3>3, BlockLength
    <3>5. y[1] # addr
      BY <2>4, <3>3, <3>4 DEF Apart
    <3> QED  BY <3>5 DEF BlockOf
  <2>6. OneOwner'
    <3>1. \A c, d \in live' : c[1] = d[1] => c = d
      BY <2>1, <2>5 DEF Inv, NoSharedPage, OneOwner
    <3> QED  BY <1>1, <2>1, <2>2, <3>1 DEF Inv, NoSharedPage, OneOwner
  <2>7. NoSharedPage' /\ NoLeak'
    BY <1>1, <2>3, <2>6, SameBlockSet DEF Inv, NoSharedPage
  <2>8. TypeOK'
    BY <1>1, <2>1, <2>4, BlockLength, HeapAssumption DEF Inv, TypeOK, NULL
  <2>9. CallState'
    BY <1>1, <2>1, <2>4 DEF Inv, CallState
  <2> QED  BY <2>7, <2>8, <2>9 DEF Inv
<1> QED  BY <1>2, <1>3

\* The store to page 0.
LEMMA MemsetFaultInv == Inv /\ MemsetFault => Inv'
<1> SUFFICES ASSUME Inv, MemsetFault PROVE Inv'
  OBVIOUS
<1>1. HandBlocks' = HandBlocks
  BY DEF MemsetFault, HandBlocks
<1>2. NoSharedPage' /\ NoLeak'
  BY <1>1, SameBlocks DEF MemsetFault
<1>3. TypeOK' /\ CallState'
  BY DEF Inv, TypeOK, CallState, MemsetFault
<1> QED  BY <1>2, <1>3 DEF Inv

\* kfree_order takes the caller's block in hand when it is told its order.
LEMMA kfree_orderInv ==
  ASSUME NEW b \in live, NEW o, o = order_for_pages(b[2])
  PROVE  Inv /\ kfree_order(b, o) => Inv'
<1> SUFFICES ASSUME Inv, kfree_order(b, o) PROVE Inv'
  OBVIOUS
<1> DEFINE x == BlockOf(b)
<1>1. /\ pc = "ready" /\ pc' = "merge" /\ live' = live \ {b} /\ o \in Orders
      /\ addr' = b[1] /\ order' = o /\ x = <<b[1], o>> /\ b[1] \in Nat
      /\ UNCHANGED <<free_lists, curr_order, total_pages, npages>>
  BY DEF kfree_order, Inv, CallState, TypeOK, BlockOf
<1>2. HandBlocks = {} /\ HandBlocks' = {x} /\ FreeBlocks' = FreeBlocks
  BY <1>1 DEF HandBlocks, FreeBlocks
<1>3. \A c \in live : c # b => BlockOf(c) # x
  BY DEF Inv, NoSharedPage, OneOwner, BlockOf
<1>4. LiveBlocks' = LiveBlocks \ {x} /\ x \in LiveBlocks
  <2> HIDE DEF x
  <2>1. \A y : y \in LiveBlocks' <=> \E c \in live : c # b /\ y = BlockOf(c)
    BY <1>1 DEF LiveBlocks
  <2>2. \A y : y \in LiveBlocks <=> \E c \in live : y = BlockOf(c)
    BY DEF LiveBlocks
  <2>3. x = BlockOf(b)
    BY DEF x
  <2> QED  BY <1>3, <2>1, <2>2, <2>3, Zenon
<1> HIDE DEF x
<1>5. Blocks' = Blocks
  BY <1>2, <1>4 DEF Blocks
<1>6. OneOwner'
  BY <1>1, <1>2, <1>4 DEF Inv, NoSharedPage, OneOwner
<1>7. NoSharedPage' /\ NoLeak'
  BY <1>1, <1>5, <1>6, SameBlockSet DEF Inv, NoSharedPage
<1>8. TypeOK'
  BY <1>1, BlockLength DEF Inv, TypeOK
<1>9. CallState'
  BY <1>1 DEF Inv, CallState
<1> QED  BY <1>7, <1>8, <1>9 DEF Inv

\* Two neighbours of length L become one block: what was apart from both is
\* apart from it.
LEMMA ApartFromBoth ==
  ASSUME NEW a \in Nat, NEW n \in Nat, NEW u \in Nat, NEW w \in Nat, NEW L \in Nat,
         n >= 1, w = u + L, a + n <= u \/ u + L <= a, a + n <= w \/ w + L <= a
  PROVE  a + n <= u \/ u + 2 * L <= a
OBVIOUS

\* The block in hand and its buddy become one block of the next order.
LEMMA MergeInv == Inv /\ Merge => Inv'
<1> SUFFICES ASSUME Inv, Merge PROVE Inv'
  OBVIOUS
<1> DEFINE o == order
           buddy == buddy_addr(addr, o)
           list == free_lists[o]
           x == <<addr, o>>
           y == <<buddy, o>>
           z == <<addr', o + 1>>
<1>1. /\ pc = "merge" /\ pc' = pc /\ o \in Orders /\ o < MaxOrder /\ addr \in Nat
      /\ order' = o + 1 /\ addr' = IF addr < buddy THEN addr ELSE buddy
      /\ UNCHANGED <<curr_order, total_pages, npages, live>>
      /\ free_lists \in Lists /\ ListedOnce(free_lists)
  BY BlocksType DEF Inv, TypeOK, CallState, Merge, NoSharedPage
<1>2. PICK i \in 1..Len(list) :
        /\ list[i] = buddy
        /\ free_lists' = [free_lists EXCEPT ![o] = Unlink(list, i)]
  BY DEF Merge
<1>3. /\ free_lists' \in Lists /\ ListedOnce(free_lists')
      /\ FreeBlocks' = FreeBlocks \ {y}
  BY <1>1, <1>2, UnlinkLists DEF FreeBlocks
<1>4. y \in FreeBlocks
  BY <1>1, <1>2, ListedMember DEF FreeBlocks
<1>5. HandBlocks = {x} /\ HandBlocks' = {z} /\ LiveBlocks' = LiveBlocks
  BY <1>1 DEF HandBlocks, LiveBlocks
<1>6. buddy \in Nat
  <2>1. y \in Nat \X Orders
    BY <1>4, BlocksType DEF Blocks
  <2> QED  BY <2>1
<1>7. /\ o + 1 \in Orders /\ BlockPages[o + 1] = 2 * BlockPages[o]
      /\ BlockPages[o] \in Nat /\ BlockPages[o] >= 1
  BY <1>1, BlockLength
<1>8. addr' \in Nat /\ \/ addr' = addr /\ buddy = addr + BlockPages[o]
                       \/ addr' = buddy /\ addr = buddy + BlockPages[o]
  BY <1>1, <1>6, <1>7, BuddyAddr
<1> HIDE DEF buddy, list
<1>9. x \in Blocks /\ y \in Blocks /\ x # y
  BY <1>4, <1>5, <1>7, <1>8 DEF Blocks
<1>10. \A b \in Blocks : b[1] \in Nat /\ BlockPages[b[2]] \in Nat /\ BlockPages[b[2]] >= 1
  BY BlocksType, BlockLength
<1>11. Inside(z)
  <2>1. Inside(x) /\ Inside(y)
    BY <1>9 DEF Inv, NoSharedPage
  <2> QED  BY <1>1, <1>6, <1>7, <1>8, <2>1, HeapAssumption DEF Inside, HeapEnd
<1>12. ASSUME NEW b \in Blocks, b # x, b # y
       PROVE  Apart(b, z) /\ Apart(z, b) /\ b # z
  <2>1. Apart(b, x) /\ Apart(b, y)
    BY <1>9, <1>12 DEF Inv, NoSharedPage
  <2>2. b[1] \in Nat /\ BlockPages[b[2]] \in Nat /\ BlockPages[b[2]] >= 1
    BY <1>10
  <2>3. Apart(b, z) /\ Apart(z, b)
    <3> DEFINE a == b[1]
               n == BlockPages[b[2]]
               L == BlockPages[o]
    <3>1. /\ a + n <= addr \/ addr + L <= a
          /\ a + n <= buddy \/ buddy + L <= a
      BY <2>1 DEF Apart
    <3>2. a \in Nat /\ n \in Nat /\ n >= 1 /\ L \in Nat /\ addr \in Nat
      BY <1>1, <1>7, <2>2
    <3> HIDE DEF a, n, L
    <3>3. a + n <= addr' \/ addr' + 2 * L <= a
      <4>1. CASE addr' = addr /\ buddy = addr + L
        BY <1>6, <3>1, <3>2, <4>1, ApartFromBoth
      <4>2. CASE addr' = buddy /\ addr = buddy + L
        BY <1>6, <3>1, <3>2, <4>2, ApartFromBoth
      <4> QED  BY <1>8, <4>1, <4>2 DEF L
    <3> QED  BY <1>7, <3>3 DEF Apart, a, n, L
  <2>4. ~ Apart(z, z)
    BY <1>7, <1>8 DEF Apart
  <2> QED  BY <2>3, <2>4
<1>13. y \notin LiveBlocks /\ x \notin LiveBlocks /\ x \notin FreeBlocks
  BY <1>4, <1>5 DEF Inv, NoSharedPage, OneOwner
<1>14. Blocks' = (Blocks \ {x, y}) \cup {z}
  <2> HIDE DEF x, y, z
  <2> QED  BY <1>3, <1>5, <1>9, <1>13 DEF Blocks
<1>15. TypeOK'
  <2>1. /\ pc' = "merge" /\ order' = o + 1
        /\ UNCHANGED <<curr_order, total_pages, npages, live>>
    BY <1>1
  <2>2. o + 1 \in 0..(MaxOrder + 1)
    BY <1>7, MaxOrderAssumption DEF Orders
  <2>3. free_lists' \in [Orders -> Seq(Nat)] /\ addr' \in Nat /\ TypeOK
    BY <1>3, <1>8 DEF Lists, Inv
  <2>4. /\ curr_order' \in Orders /\ total_pages' \in Nat /\ npages' \in 0..MaxReq
        /\ live' \subseteq Nat \X (0..MaxReq)
    BY <2>1, <2>3 DEF TypeOK
  <2> HIDE DEF o
  <2> QED  BY <2>1, <2>2, <2>3, <2>4 DEF TypeOK
<1>16. CallState'
  BY <1>1, <1>7 DEF Inv, CallState
<1>17. NoSharedPage'
  <2> HIDE DEF x, y, z
  <2>1. z \notin FreeBlocks' /\ z \notin LiveBlocks'
    BY <1>3, <1>5, <1>12, <1>13 DEF Blocks
  <2>2. OneOwner'
    BY <1>1, <1>3, <1>5, <2>1 DEF Inv, NoSharedPage, OneOwner
  <2>3. \A b \in Blocks' : Inside(b)
    BY <1>11, <1>14 DEF Inv, NoSharedPage
  <2>4. \A a, b \in Blocks' : a # b => Apart(a, b)
    BY <1>12, <1>14 DEF Inv, NoSharedPage
  <2> QED  BY <1>3, <2>2, <2>3, <2>4 DEF NoSharedPage, Inside, Apart
<1>18. NoLeak'
  <2> SUFFICES ASSUME NEW p \in Heap
               PROVE  \E b \in Blocks' : p \in PagesOf(b)
    BY DEF NoLeak, PagesOf
  <2>1. PICK b \in Blocks : p \in PagesOf(b)
    BY <1>1 DEF Inv, NoLeak
  <2>2. CASE b = x \/ b = y
    <3>1. p \in PagesOf(z)
      <4> DEFINE L == BlockPages[o]
      <4>1. p \in addr..(addr + L - 1) \/ p \in buddy..(buddy + L - 1)
        BY <2>1, <2>2 DEF PagesOf
      <4>2. L \in Nat /\ addr \in Nat
        BY <1>1, <1>7
      <4> HIDE DEF L
      <4>3. \/ addr' = addr /\ buddy = addr + L
            \/ addr' = buddy /\ addr = buddy + L
        BY <1>8 DEF L
      <4>4. p \in addr'..(addr' + 2 * L - 1)
        BY <1>6, <4>1, <4>2, <4>3
      <4> QED  BY <1>7, <4>4 DEF PagesOf, L
    <3> QED  BY <1>14, <3>1
  <2>3. CASE b # x /\ b # y
    BY <1>14, <2>1, <2>3
  <2> QED  BY <2>2, <2>3
<1> QED  BY <1>15, <1>16, <1>17, <1>18 DEF Inv

\* The block in hand goes to the head of its list.
LEMMA InsertInv == Inv /\ Insert => Inv'
<1> SUFFICES ASSUME Inv, Insert PROVE Inv'
  OBVIOUS
<1> DEFINE x == <<addr, order>>
<1>1. /\ pc = "merge" /\ pc' = "ready" /\ order \in Orders /\ addr \in Nat
      /\ free_lists' = Push(free_lists, order, addr)
      /\ order' = 0 /\ curr_order' = 0 /\ addr' = NULL /\ npages' = 0
      /\ UNCHANGED <<total_pages, live>>
      /\ free_lists \in Lists /\ ListedOnce(free_lists)
  BY BlocksType DEF Inv, TypeOK, CallState, Insert, Return, NoSharedPage
<1>2. HandBlocks = {x} /\ HandBlocks' = {} /\ LiveBlocks' = LiveBlocks
  BY <1>1 DEF HandBlocks, LiveBlocks
<1>3. x \notin FreeBlocks /\ x \notin LiveBlocks
  BY <1>2 DEF Inv, NoSharedPage, OneOwner
<1>4. /\ free_lists' \in Lists /\ ListedOnce(free_lists')
      /\ FreeBlocks' = FreeBlocks \cup {x}
  BY <1>1, <1>3, PushLists DEF FreeBlocks
<1>5. Blocks' = Blocks
  BY <1>2, <1>4 DEF Blocks
<1> HIDE DEF x
<1>6. OneOwner'
  BY <1>1, <1>2, <1>3, <1>4 DEF Inv, NoSharedPage, OneOwner
<1>7. NoSharedPage' /\ NoLeak'
  BY <1>1, <1>4, <1>5, <1>6, SameBlockSet
<1>8. TypeOK'
  BY <1>1, <1>4, BlockLength, HeapAssumption DEF Inv, TypeOK, Lists, NULL
<1>9. CallState'
  BY <1>1 DEF Inv, CallState
<1> QED  BY <1>7, <1>8, <1>9 DEF Inv

\* No step of the allocator or of its callers breaks the invariant.
LEMMA NextInv == Inv /\ [Next]_vars => Inv'
<1> SUFFICES ASSUME Inv, [Next]_vars PROVE Inv'
  OBVIOUS
<1>1. ASSUME NEW n \in 0..MaxReq, KallocNone(n) \/ KallocFind(n) PROVE Inv'
  BY <1>1, KallocNoneInv, KallocFindInv
<1>2. ASSUME NEW b \in live, KfreeOrder(b) PROVE Inv'
  BY <1>2, kfree_orderInv DEF KfreeOrder
<1>3. ASSUME NEW b \in live, NEW bytes \in BytesOf(b[2]), KfreeSize(b, bytes) PROVE Inv'
  <2>1. b[2] \in Nat
    BY HeapAssumption DEF Inv, TypeOK
  <2>2. (bytes + PageSize - 1) \div PageSize = b[2]
    BY <2>1, PagesOfBytes
  <2>3. kfree_order(b, order_for_pages(b[2]))
    BY <1>3, <2>2 DEF KfreeSize
  <2> QED  BY <2>3, kfree_orderInv
<1>4. CASE UNCHANGED vars
  <2>1. FreeBlocks' = FreeBlocks /\ LiveBlocks' = LiveBlocks /\ HandBlocks' = HandBlocks
    BY <1>4 DEF FreeBlocks, LiveBlocks, HandBlocks, vars
  <2>2. Blocks' = Blocks /\ OneOwner' /\ ListedOnce(free_lists')
    BY <1>4, <2>1 DEF Blocks, OneOwner, Inv, NoSharedPage, vars
  <2>3. NoSharedPage'
    BY <2>2 DEF Inv, NoSharedPage, Inside, Apart
  <2>4. NoLeak'
    BY <1>4, <2>2 DEF Inv, NoLeak, PagesOf, vars
  <2>5. TypeOK' /\ CallState'
    BY <1>4, <2>1 DEF Inv, TypeOK, CallState, vars
  <2> QED  BY <2>3, <2>4, <2>5 DEF Inv
<1>5. CASE Step
  BY <1>5, InitBlockInv, InitNextOrderInv, SplitInv, TakeInv, KallocReturnInv,
     MemsetFaultInv, MergeInv, InsertInv DEF Step
<1> QED  BY <1>1, <1>2, <1>3, <1>4, <1>5 DEF Next, Call, Panicked

\* The invariant holds in every state of every behaviour.
THEOREM Invariance == Spec => []Inv
<1> QED  BY InitInv, NextInv, PTL DEF Spec

\* The variables of the allocator keep their types.
THEOREM TypeCorrect == Spec => []TypeOK
<1>1. Inv => TypeOK  BY DEF Inv
<1> QED  BY <1>1, Invariance, PTL

\* For every heap, however aligned, no page of it is ever handed out twice,
\* listed as free twice, or listed as free while a caller holds it.
THEOREM NeverShared == Spec => []NoSharedPage
<1>1. Inv => NoSharedPage  BY DEF Inv
<1> QED  BY <1>1, Invariance, PTL

\* For every heap, every page is always in a block that is free, with a
\* caller, or in the hand of the running call.
THEOREM NeverLeaked == Spec => []NoLeak
<1>1. Inv => NoLeak  BY DEF Inv
<1> QED  BY <1>1, Invariance, PTL

\* kalloc clears no page outside the block it has just taken.
THEOREM MemsetStaysInside == Spec => []MemsetInside
<1>1. ASSUME Inv, pc = "memset", addr # NULL
      PROVE  npages <= BlockPages[order]
  <2>1. npages \in Nat /\ order = order_for_pages(npages) /\ order \in Orders
    BY <1>1, HeapAssumption DEF Inv, TypeOK, CallState
  <2>2. BlockPages[order] >= npages
    BY <2>1, OrderForPages
  <2> QED  BY <2>1, <2>2, BlockLength
<1>2. Inv => MemsetInside
  BY <1>1 DEF MemsetInside
<1> QED  BY <1>2, Invariance, PTL

-----------------------------------------------------------------------------
(* Free buddies.                                                           *)

\* The orders at which kfree_order merges.
Merging == 0..(MaxOrder - 1)

\* No two blocks of the list are buddies.
NoPair(list, o) == \A i, j \in 1..Len(list) : list[i] # buddy_addr(list[j], o)

\* init_memory has yet to link a block of a smaller order, and links at most one
\* of each order below MAX_ORDER.
InitAlone ==
  /\ \A o \in Orders : o < order => free_lists[o] = << >>
  /\ \A o \in Merging : o > order => Len(free_lists[o]) \in {0, 1}
  /\ order < MaxOrder =>
       \/ Len(free_lists[order]) = 0 /\ total_pages < 2 * BlockPages[order]
       \/ Len(free_lists[order]) = 1 /\ total_pages < BlockPages[order]

\* kalloc_order is about to take the first block of curr_order, whose buddy may
\* be the second; the lists it came past are empty.
SplitAlone ==
  /\ \A o \in Merging : o # curr_order => NoPair(free_lists[o], o)
  /\ curr_order \in Merging => NoPair(Tail(free_lists[curr_order]), curr_order)
  /\ \A o \in Orders : order <= o /\ o < curr_order => free_lists[o] = << >>

BuddiesInv ==
  /\ pc = "init" => InitAlone
  /\ pc = "split" => SplitAlone
  /\ pc \notin {"init", "split"} => \A o \in Merging : NoPair(free_lists[o], o)

\* Flipping a bit of the address twice gives the address again.
LEMMA BuddyTwice ==
  ASSUME NEW a \in Nat, NEW o \in Orders
  PROVE  /\ buddy_addr(a, o) \in Nat /\ buddy_addr(a, o) # a
         /\ buddy_addr(buddy_addr(a, o), o) = a
<1> DEFINE n == BlockPages[o]
           q == a \div n
<1>1. n \in Nat \ {0}
  BY BlockLength
<1>2. \A b : buddy_addr(b, o) = IF (b \div n) % 2 = 0 THEN b + n ELSE b - n
  BY DEF buddy_addr
<1> HIDE DEF n
<1>3. q \in Nat /\ a >= n * q /\ a < n * q + n
  BY <1>1
<1>4. (a + n) \div n = q + 1
  BY <1>1
<1>5. a >= n => (a - n) \div n = q - 1
  BY <1>1
<1>6. q >= 1 => a >= n
  BY <1>1, <1>3
<1> HIDE DEF q
<1>7. CASE q % 2 = 0
  <2>1. (q + 1) % 2 # 0
    BY <1>3, <1>7
  <2>2. buddy_addr(a, o) = a + n
    BY <1>2, <1>7 DEF q
  <2>3. buddy_addr(a + n, o) = (a + n) - n
    BY <1>4, <1>2, <2>1
  <2> QED  BY <1>1, <2>2, <2>3
<1>8. CASE q % 2 # 0
  <2>1. q >= 1 /\ (q - 1) % 2 = 0
    BY <1>3, <1>8
  <2>2. buddy_addr(a, o) = a - n
    BY <1>2, <1>8 DEF q
  <2>3. buddy_addr(a - n, o) = (a - n) + n
    BY <1>5, <1>6, <1>2, <2>1
  <2> QED  BY <1>1, <1>6, <2>1, <2>2, <2>3
<1> QED  BY <1>7, <1>8

\* A list without a pair stays so when blocks are taken from it.
LEMMA NoPairFewer ==
  ASSUME NEW s, NEW t, NEW o, NoPair(s, o),
         \A i \in 1..Len(t) : \E k \in 1..Len(s) : t[i] = s[k]
  PROVE  NoPair(t, o)
BY DEF NoPair

LEMMA NoPairTail ==
  ASSUME NEW s \in Seq(Nat), s # << >>, NEW o, NoPair(s, o)
  PROVE  NoPair(Tail(s), o)
<1>1. \A i \in 1..Len(Tail(s)) : i + 1 \in 1..Len(s) /\ Tail(s)[i] = s[i + 1]
  OBVIOUS
<1> QED  BY <1>1, NoPairFewer

LEMMA NoPairUnlink ==
  ASSUME NEW s \in Seq(Nat), NEW k \in 1..Len(s), NEW o, NoPair(s, o)
  PROVE  NoPair(Unlink(s, k), o)
<1>1. Len(s) \in Nat /\ Len(Unlink(s, k)) = Len(s) - 1
  BY DEF Unlink
<1>2. ASSUME NEW i \in 1..Len(Unlink(s, k))
      PROVE  \E l \in 1..Len(s) : Unlink(s, k)[i] = s[l]
  <2>1. Unlink(s, k)[i] = IF i < k THEN s[i] ELSE s[i + 1]
    BY <1>1 DEF Unlink
  <2>2. i \in 1..Len(s) /\ i + 1 \in 1..Len(s)
    BY <1>1
  <2> QED  BY <2>1, <2>2
<1> QED  BY <1>2, NoPairFewer

\* A block alone is not its own buddy.
LEMMA NoPairAlone ==
  ASSUME NEW s \in Seq(Nat), Len(s) \in {0, 1}, NEW o \in Orders
  PROVE  NoPair(s, o)
<1> SUFFICES ASSUME NEW i \in 1..Len(s), NEW j \in 1..Len(s)
             PROVE  s[i] # buddy_addr(s[j], o)
  BY DEF NoPair
<1>1. i = j /\ s[i] \in Nat
  <2>1. CASE Len(s) = 0
    BY <2>1
  <2>2. CASE Len(s) = 1
    BY <2>2
  <2> QED  BY <2>1, <2>2
<1> QED  BY <1>1, BuddyTwice

\* A block whose buddy is not in the list is linked.
LEMMA NoPairLink ==
  ASSUME NEW s \in Seq(Nat), NEW a \in Nat, NEW o \in Orders, NoPair(s, o),
         \A i \in 1..Len(s) : s[i] # buddy_addr(a, o)
  PROVE  NoPair(<<a>> \o s, o)
<1> DEFINE t == <<a>> \o s
<1>1. Len(t) = Len(s) + 1 /\ t[1] = a /\ Len(s) \in Nat
  BY PutFirst, LenProperties
<1>2. ASSUME NEW i \in 1..Len(t), i # 1 PROVE i - 1 \in 1..Len(s) /\ t[i] = s[i - 1]
  <2>1. i - 1 \in 1..Len(s) /\ (i - 1) + 1 = i
    BY <1>1, <1>2
  <2>2. \A k \in 1..Len(s) : t[k + 1] = s[k]
    BY PutFirst
  <2> HIDE DEF t
  <2> QED  BY <2>1, <2>2
<1> HIDE DEF t
<1> SUFFICES ASSUME NEW i \in 1..Len(t), NEW j \in 1..Len(t)
             PROVE  t[i] # buddy_addr(t[j], o)
  BY DEF NoPair, t
<1>3. a # buddy_addr(a, o)
  BY BuddyTwice
<1>4. ASSUME NEW k \in 1..Len(s) PROVE a # buddy_addr(s[k], o)
  <2>1. s[k] \in Nat
    OBVIOUS
  <2> QED  BY <1>4, <2>1, BuddyTwice
<1>5. CASE i = 1 /\ j = 1
  BY <1>1, <1>3, <1>5
<1>6. CASE i = 1 /\ j # 1
  BY <1>1, <1>2, <1>4, <1>6
<1>7. CASE i # 1 /\ j = 1
  BY <1>1, <1>2, <1>7
<1>8. CASE i # 1 /\ j # 1
  BY <1>2, <1>8 DEF NoPair
<1> QED  BY <1>5, <1>6, <1>7, <1>8

LEMMA LinkTail ==
  ASSUME NEW s \in Seq(Nat), NEW a \in Nat
  PROVE  Tail(<<a>> \o s) = s
<1> DEFINE t == <<a>> \o s
<1>1. Len(t) = Len(s) + 1 /\ \A i \in 1..Len(s) : t[i + 1] = s[i]
  OBVIOUS
<1>2. t \in Seq(Nat) /\ t # << >>
  OBVIOUS
<1> HIDE DEF t
<1>3. Tail(t) \in Seq(Nat) /\ Len(Tail(t)) = Len(s) /\ \A i \in 1..Len(s) : Tail(t)[i] = s[i]
  BY <1>1, <1>2
<1>4. Tail(t) = s
  BY <1>3, SeqEqual
<1> QED  BY <1>4 DEF t

\* What a link and an unlink at the head do to each list.
LEMMA PushAt ==
  ASSUME NEW fl \in Lists, NEW o \in Orders, NEW a \in Nat
  PROVE  /\ Push(fl, o, a) \in Lists
         /\ Push(fl, o, a)[o] = <<a>> \o fl[o]
         /\ \A k \in Orders : k # o => Push(fl, o, a)[k] = fl[k]
BY PushLists DEF Push, Lists

LEMMA PopAt ==
  ASSUME NEW fl \in Lists, NEW o \in Orders, fl[o] # << >>
  PROVE  /\ Pop(fl, o) \in Lists
         /\ Pop(fl, o)[o] = Tail(fl[o])
         /\ \A k \in Orders : k # o => Pop(fl, o)[k] = fl[k]
BY DEF Pop, Lists

LEMMA MergingOrders == Merging \subseteq Orders /\ \A o \in Merging : o < MaxOrder
BY MaxOrderAssumption DEF Merging, Orders

LEMMA BuddiesInit == Init => BuddiesInv
<1> SUFFICES ASSUME Init PROVE BuddiesInv
  OBVIOUS
<1>1. pc = "init" /\ order = MaxOrder /\ \A o \in Orders : free_lists[o] = << >>
  BY DEF Init
<1>2. InitAlone
  BY <1>1, MergingOrders, MaxOrderAssumption DEF InitAlone, Merging
<1> QED  BY <1>1, <1>2 DEF BuddiesInv

\* Greedy initialization: when a block is linked below MAX_ORDER it is the first
\* of its order, and the pages left are fewer than another.
LEMMA BuddiesInitBlock ==
  ASSUME Inv, BuddiesInv, InitBlock
  PROVE  BuddiesInv'
<1>1. /\ pc = "init" /\ order \in Orders /\ free_lists \in Lists /\ addr \in Nat
      /\ total_pages \in Nat /\ total_pages >= BlockPages[order] /\ InitAlone
  BY DEF InitBlock, Inv, CallState, TypeOK, Lists, BuddiesInv
<1>2. /\ pc' = "init" /\ order' = order /\ total_pages' = total_pages - BlockPages[order]
      /\ free_lists' = Push(free_lists, order, addr)
  BY <1>1 DEF InitBlock
<1>3. /\ free_lists'[order] = <<addr>> \o free_lists[order]
      /\ \A k \in Orders : k # order => free_lists'[k] = free_lists[k]
  BY <1>1, <1>2, PushAt
<1>4. BlockPages[order] \in Nat /\ MaxOrder \in Nat /\ Orders = 0..MaxOrder
  BY <1>1, BlockLength
<1>5. order < MaxOrder => Len(free_lists'[order]) = 1 /\ total_pages' < BlockPages[order]
  <2> SUFFICES ASSUME order < MaxOrder
               PROVE  Len(free_lists'[order]) = 1 /\ total_pages' < BlockPages[order]
    OBVIOUS
  <2>1. Len(free_lists[order]) = 0 /\ total_pages < 2 * BlockPages[order]
    BY <1>1, <1>4 DEF InitAlone
  <2>2. free_lists[order] \in Seq(Nat)
    BY <1>1 DEF Lists
  <2>3. Len(free_lists'[order]) = 1
    BY <1>1, <1>3, <2>1, <2>2
  <2> QED  BY <1>1, <1>2, <1>4, <2>1, <2>3
<1>6. \A o \in Orders : o < order' => free_lists'[o] = << >>
  BY <1>1, <1>2, <1>3, <1>4 DEF InitAlone
<1>7. \A o \in Merging : o > order' => Len(free_lists'[o]) \in {0, 1}
  BY <1>1, <1>2, <1>3, <1>4, MergingOrders DEF InitAlone
<1>8. InitAlone'
  BY <1>2, <1>5, <1>6, <1>7 DEF InitAlone
<1> QED  BY <1>2, <1>8 DEF BuddiesInv

LEMMA BuddiesInitNextOrder ==
  ASSUME Inv, BuddiesInv, InitNextOrder
  PROVE  BuddiesInv'
<1>1. /\ pc = "init" /\ order \in Orders /\ free_lists \in Lists
      /\ total_pages \in Nat /\ total_pages < BlockPages[order] /\ InitAlone
  BY DEF InitNextOrder, Inv, CallState, TypeOK, Lists, BuddiesInv
<1>2. free_lists' = free_lists /\ total_pages' = total_pages
  BY DEF InitNextOrder
<1>3. BlockPages[order] \in Nat /\ MaxOrder \in Nat /\ Orders = 0..MaxOrder
  BY <1>1, BlockLength
<1>4. \A o \in Merging : o >= order => Len(free_lists[o]) \in {0, 1}
  <2> SUFFICES ASSUME NEW o \in Merging, o >= order PROVE Len(free_lists[o]) \in {0, 1}
    OBVIOUS
  <2>1. CASE o > order
    BY <1>1, <2>1 DEF InitAlone
  <2>2. CASE o = order
    <3>1. Len(free_lists[order]) = 0 \/ Len(free_lists[order]) = 1
      BY <1>1, <2>2, MergingOrders DEF InitAlone
    <3> QED  BY <2>2, <3>1, Zenon
  <2> QED  BY <1>1, <1>3, <2>1, <2>2, MergingOrders
<1>5. CASE order > 0 /\ order' = order - 1 /\ pc' = pc
  <2>1. order - 1 \in Orders /\ BlockPages[order] = 2 * BlockPages[order - 1]
    BY <1>1, <1>5, BlockLength
  <2>2. free_lists[order - 1] = << >>
    BY <1>1, <1>3, <2>1 DEF InitAlone
  <2>3. Len(free_lists'[order']) = 0 /\ total_pages' < 2 * BlockPages[order']
    BY <1>1, <1>2, <1>5, <2>1, <2>2
  <2>4. \A o \in Orders : o < order' => free_lists'[o] = << >>
    BY <1>1, <1>2, <1>3, <1>5 DEF InitAlone
  <2>5. \A o \in Merging : o > order' => Len(free_lists'[o]) \in {0, 1}
    BY <1>1, <1>2, <1>3, <1>4, <1>5, MergingOrders
  <2>6. InitAlone'
    BY <2>3, <2>4, <2>5 DEF InitAlone
  <2> QED  BY <1>1, <1>5, <2>6 DEF BuddiesInv
<1>6. CASE order = 0 /\ Return
  <2>1. pc' = "ready"
    BY <1>6 DEF Return
  <2>2. ASSUME NEW o \in Merging PROVE NoPair(free_lists'[o], o)
    <3>1. free_lists[o] \in Seq(Nat) /\ o \in Orders
      BY <1>1, MergingOrders DEF Lists
    <3>2. Len(free_lists[o]) \in {0, 1}
      BY <1>3, <1>4, <1>6, <3>1
    <3> QED  BY <1>2, <3>1, <3>2, NoPairAlone
  <2> QED  BY <2>1, <2>2 DEF BuddiesInv
<1> QED  BY <1>5, <1>6 DEF InitNextOrder

LEMMA BuddiesFind ==
  ASSUME Inv, BuddiesInv, NEW n \in 0..MaxReq, KallocFind(n)
  PROVE  BuddiesInv'
<1>1. /\ pc = "ready" /\ pc' = "split" /\ free_lists' = free_lists /\ curr_order' \in Orders
      /\ free_lists[curr_order'] # << >>
      /\ \A k \in Orders : k >= order' /\ k < curr_order' => free_lists[k] = << >>
  BY DEF KallocFind
<1>2. free_lists \in Lists
  BY DEF Inv, TypeOK, Lists
<1>3. \A o \in Merging : NoPair(free_lists[o], o)
  BY <1>1 DEF BuddiesInv
<1>4. curr_order' \in Merging => NoPair(Tail(free_lists[curr_order']), curr_order')
  <2>1. free_lists[curr_order'] \in Seq(Nat)
    BY <1>1, <1>2 DEF Lists
  <2> QED  BY <1>1, <1>3, <2>1, NoPairTail
<1>5. order' \in 0..(MaxOrder + 1)
  BY OrderForPages, HeapAssumption DEF KallocFind
<1>6. \A o \in Orders : order' <= o /\ o < curr_order' => free_lists'[o] = << >>
  BY <1>1, <1>5, BlockLength
<1>7. SplitAlone'
  BY <1>1, <1>3, <1>4, <1>6 DEF SplitAlone
<1> QED  BY <1>1, <1>7 DEF BuddiesInv

\* The two halves of a block are buddies on one list, until one of them is taken
\* or split in turn.
LEMMA BuddiesSplit ==
  ASSUME Inv, BuddiesInv, Split
  PROVE  BuddiesInv'
<1> DEFINE c == curr_order
           block == Head(free_lists[c])
           half == block + BlockPages[c - 1]
           f1 == Pop(free_lists, c)
           f2 == Push(f1, c - 1, half)
<1>1. /\ pc = "split" /\ pc' = "split" /\ c \in Orders /\ order \in Orders /\ order' = order
      /\ c > order /\ free_lists[c] # << >> /\ free_lists \in Lists /\ SplitAlone
      /\ curr_order' = c - 1
  BY DEF Split, Inv, CallState, TypeOK, Lists, BuddiesInv
<1>2. c - 1 \in Orders /\ c - 1 # c /\ c - 1 \in Merging
  BY <1>1, BlockLength DEF Merging
<1>3. free_lists' = Push(f2, c - 1, block)
  BY DEF Split
<1>4. block \in Nat /\ half \in Nat
  <2>1. free_lists[c] \in Seq(Nat) /\ BlockPages[c - 1] \in Nat
    BY <1>1, <1>2, BlockLength DEF Lists
  <2> QED  BY <1>1, <2>1
<1>5. free_lists[c - 1] = << >>
  BY <1>1, <1>2, BlockLength DEF SplitAlone
<1>6. /\ f1 \in Lists /\ f1[c] = Tail(free_lists[c])
      /\ \A k \in Orders : k # c => f1[k] = free_lists[k]
  BY <1>1, PopAt
<1> HIDE DEF f1, block, half
<1>7. /\ f2 \in Lists /\ f2[c - 1] = <<half>> \o f1[c - 1]
      /\ \A k \in Orders : k # c - 1 => f2[k] = f1[k]
  BY <1>2, <1>4, <1>6, PushAt
<1> HIDE DEF f2
<1>8. /\ free_lists'[c - 1] = <<block>> \o f2[c - 1]
      /\ \A k \in Orders : k # c - 1 => free_lists'[k] = f2[k]
  BY <1>2, <1>3, <1>4, <1>7, PushAt
<1>9. f2[c - 1] \in Seq(Nat) /\ f2[c - 1] = <<half>> \o << >>
  BY <1>2, <1>5, <1>6, <1>7 DEF Lists
<1>10. Tail(free_lists'[c - 1]) = f2[c - 1] /\ Len(f2[c - 1]) \in {0, 1}
  <2>1. Tail(<<block>> \o f2[c - 1]) = f2[c - 1]
    BY <1>4, <1>9, LinkTail
  <2>2. Len(<<half>> \o << >>) = 1
    BY <1>4
  <2>3. Len(f2[c - 1]) = 1
    BY <1>9, <2>2, Zenon
  <2>4. Tail(free_lists'[c - 1]) = f2[c - 1]
    BY <1>8, <2>1, Zenon
  <2> QED  BY <2>3, <2>4
<1>11. NoPair(Tail(free_lists'[c - 1]), c - 1)
  BY <1>2, <1>9, <1>10, NoPairAlone
<1>12. ASSUME NEW o \in Merging, o # c - 1 PROVE NoPair(free_lists'[o], o)
  <2>1. o \in Orders
    BY MergingOrders
  <2>2. CASE o = c
    BY <1>1, <1>6, <1>7, <1>8, <1>12, <2>1, <2>2 DEF SplitAlone
  <2>3. CASE o # c
    BY <1>1, <1>6, <1>7, <1>8, <1>12, <2>1, <2>3 DEF SplitAlone
  <2> QED  BY <2>2, <2>3
<1>13. ASSUME NEW o \in Orders, order <= o, o < c - 1 PROVE free_lists'[o] = << >>
  <2>1. o # c - 1 /\ o # c /\ o < c
    BY <1>1, <1>13, BlockLength
  <2> QED  BY <1>1, <1>6, <1>7, <1>8, <1>13, <2>1 DEF SplitAlone
<1>14. SplitAlone'
  BY <1>1, <1>11, <1>12, <1>13 DEF SplitAlone
<1> QED  BY <1>1, <1>14 DEF BuddiesInv

LEMMA BuddiesTake ==
  ASSUME Inv, BuddiesInv, Take
  PROVE  BuddiesInv'
<1>1. /\ pc = "split" /\ pc' = "memset" /\ order \in Orders /\ curr_order = order
      /\ free_lists[order] # << >> /\ free_lists \in Lists /\ SplitAlone
      /\ free_lists' = Pop(free_lists, order)
  BY DEF Take, Inv, CallState, TypeOK, Lists, BuddiesInv
<1>2. /\ free_lists'[order] = Tail(free_lists[order])
      /\ \A k \in Orders : k # order => free_lists'[k] = free_lists[k]
  BY <1>1, PopAt
<1>3. ASSUME NEW o \in Merging PROVE NoPair(free_lists'[o], o)
  <2>1. CASE o = order
    BY <1>1, <1>2, <2>1 DEF SplitAlone
  <2>2. CASE o # order
    BY <1>1, <1>2, <2>2, MergingOrders DEF SplitAlone
  <2> QED  BY <2>1, <2>2
<1> QED  BY <1>1, <1>3 DEF BuddiesInv

LEMMA BuddiesMerge ==
  ASSUME Inv, BuddiesInv, Merge
  PROVE  BuddiesInv'
<1>1. /\ pc = "merge" /\ pc' = pc /\ order \in Orders /\ free_lists \in Lists
  BY DEF Merge, Inv, CallState, TypeOK, Lists
<1>2. PICK i \in 1..Len(free_lists[order]) :
        free_lists' = [free_lists EXCEPT ![order] = Unlink(free_lists[order], i)]
  BY DEF Merge
<1>3. \A o \in Merging : NoPair(free_lists[o], o)
  BY <1>1 DEF BuddiesInv
<1>4. ASSUME NEW o \in Merging PROVE NoPair(free_lists'[o], o)
  <2>1. o \in Orders
    BY MergingOrders
  <2>2. CASE o = order
    <3>1. free_lists'[o] = Unlink(free_lists[order], i) /\ free_lists[order] \in Seq(Nat)
      BY <1>1, <1>2, <2>2 DEF Lists
    <3> QED  BY <1>3, <2>2, <3>1, NoPairUnlink
  <2>3. CASE o # order
    <3>1. free_lists'[o] = free_lists[o]
      BY <1>1, <1>2, <2>1, <2>3 DEF Lists
    <3> QED  BY <1>3, <3>1
  <2> QED  BY <2>2, <2>3
<1> QED  BY <1>1, <1>4 DEF BuddiesInv

LEMMA BuddiesInsert ==
  ASSUME Inv, BuddiesInv, Insert
  PROVE  BuddiesInv'
<1>1. /\ pc = "merge" /\ pc' = "ready" /\ order \in Orders /\ addr \in Nat
      /\ free_lists \in Lists /\ free_lists' = Push(free_lists, order, addr)
  BY DEF Insert, Return, Inv, CallState, TypeOK, Lists
<1>2. /\ free_lists'[order] = <<addr>> \o free_lists[order]
      /\ \A k \in Orders : k # order => free_lists'[k] = free_lists[k]
  BY <1>1, PushAt
<1>3. \A o \in Merging : NoPair(free_lists[o], o)
  BY <1>1 DEF BuddiesInv
<1>4. ASSUME NEW o \in Merging PROVE NoPair(free_lists'[o], o)
  <2>1. o \in Orders /\ o < MaxOrder
    BY MergingOrders
  <2>2. CASE o = order
    <3>1. free_lists[o] \in Seq(Nat)
      BY <1>1, <2>1 DEF Lists
    <3>2. \A i \in 1..Len(free_lists[o]) : free_lists[o][i] # buddy_addr(addr, o)
      BY <2>1, <2>2 DEF Insert
    <3>3. NoPair(<<addr>> \o free_lists[o], o)
      BY <1>1, <1>3, <2>1, <3>1, <3>2, NoPairLink
    <3> QED  BY <1>2, <2>2, <3>3, Zenon
  <2>3. CASE o # order
    BY <1>2, <1>3, <2>1, <2>3
  <2> QED  BY <2>2, <2>3
<1> QED  BY <1>1, <1>4 DEF BuddiesInv

LEMMA BuddiesStep == Inv /\ BuddiesInv /\ [Next]_vars => BuddiesInv'
<1> SUFFICES ASSUME Inv, BuddiesInv, [Next]_vars PROVE BuddiesInv'
  OBVIOUS
<1>1. ASSUME pc \notin {"init", "split"}, pc' \notin {"init", "split"}, free_lists' = free_lists
      PROVE  BuddiesInv'
  BY <1>1 DEF BuddiesInv
<1>2. ASSUME NEW n \in 0..MaxReq, KallocNone(n) \/ KallocFind(n) PROVE BuddiesInv'
  <2>1. CASE KallocNone(n)
    BY <1>1, <2>1 DEF KallocNone
  <2>2. CASE KallocFind(n)
    BY <2>2, BuddiesFind
  <2> QED  BY <1>2, <2>1, <2>2
<1>3. ASSUME NEW b, NEW o, kfree_order(b, o) PROVE BuddiesInv'
  BY <1>1, <1>3 DEF kfree_order
<1>4. CASE KallocReturn \/ MemsetFault
  BY <1>1, <1>4 DEF KallocReturn, Return, MemsetFault
<1>5. CASE Step
  BY <1>4, <1>5, BuddiesInitBlock, BuddiesInitNextOrder, BuddiesSplit, BuddiesTake,
     BuddiesMerge, BuddiesInsert DEF Step
<1>6. CASE UNCHANGED vars
  BY <1>6 DEF vars, BuddiesInv, InitAlone, SplitAlone
<1>7. CASE Call
  BY <1>2, <1>3, <1>7 DEF Call, KfreeOrder, KfreeSize
<1> QED  BY <1>5, <1>6, <1>7 DEF Next, Panicked

\* Wherever the heap starts and however its pages were asked for and given back,
\* no two free blocks are buddies when a call has returned: init_memory links
\* none, a split leaves one half only, and kfree_order merges to the end.
THEOREM AllMerged == Spec => []NoFreeBuddies
<1>1. BuddiesInv => NoFreeBuddies
  BY DEF BuddiesInv, NoFreeBuddies, NoPair, Merging
<1> QED  BY <1>1, InitInv, NextInv, BuddiesInit, BuddiesStep, PTL DEF Spec

-----------------------------------------------------------------------------
(* The refinement of PageHeap.                                             *)

Held == {<<x[1], BlockPages[x[2]]>> : x \in LiveBlocks}

Refused == IF pc = "fault" THEN npages ELSE 0

\* No block is longer than one of MAX_ORDER.
LEMMA LongestBlock ==
  ASSUME NEW o \in Orders
  PROVE  BlockPages[o] <= BlockPages[MaxOrder]
<1> DEFINE Longer == {d \in Nat : o + d \in Orders /\ BlockPages[o + d] < BlockPages[o]}
<1>1. CASE Longer = {}
  <2>1. MaxOrder - o \in Nat /\ o + (MaxOrder - o) = MaxOrder /\ MaxOrder \in Orders
    BY BlockLength
  <2>2. ~ (BlockPages[MaxOrder] < BlockPages[o])
    BY <1>1, <2>1
  <2>3. BlockPages[MaxOrder] \in Nat /\ BlockPages[o] \in Nat
    BY <2>1, BlockLength
  <2> QED  BY <2>2, <2>3
<1>2. CASE Longer # {}
  <2>1. PICK d \in Longer : \A e \in Longer : d <= e
    BY <1>2, LeastElement
  <2>2. d \in Nat /\ o + d \in Orders /\ o \in Nat /\ BlockPages[o + d] < BlockPages[o]
    BY <2>1, BlockLength
  <2>3. BlockPages[o] \in Nat /\ BlockPages[o + d] \in Nat
    BY <2>2, BlockLength
  <2>4. d # 0
    BY <2>2, <2>3
  <2> DEFINE p == o + (d - 1)
  <2>5. d - 1 \in Nat /\ p \in Orders /\ p < MaxOrder /\ p + 1 = o + d
    BY <2>2, <2>4, BlockLength
  <2>6. ~ (BlockPages[p] < BlockPages[o])
    BY <2>1, <2>2, <2>5
  <2>7. BlockPages[p + 1] = 2 * BlockPages[p] /\ BlockPages[p] \in Nat
    BY <2>5, BlockLength
  <2> QED  BY <2>2, <2>3, <2>5, <2>6, <2>7
<1> QED  BY <1>1, <1>2

\* One page is a block of order 0.
LEMMA OrderForOne == order_for_pages(1) = 0
<1> DEFINE Good(o) == /\ BlockPages[o] >= 1 \/ o = MaxOrder + 1
                      /\ \A k \in 0..(MaxOrder + 1) : k < o => BlockPages[k] < 1
<1>1. BlockPages[0] = 1 /\ 0 \in 0..(MaxOrder + 1)
  BY BlockPagesAssumption, MaxOrderAssumption
<1>2. Good(0)
  BY <1>1, MaxOrderAssumption
<1>3. order_for_pages(1) = CHOOSE o \in 0..(MaxOrder + 1) : Good(o)
  BY DEF order_for_pages
<1> HIDE DEF Good
<1>4. order_for_pages(1) \in 0..(MaxOrder + 1) /\ Good(order_for_pages(1))
  BY <1>1, <1>2, <1>3, Zenon
<1> QED  BY <1>1, <1>4, MaxOrderAssumption DEF Good

\* The runs of pages that PageHeap sees, and what is available.
LEMMA RunOfBlock ==
  ASSUME NEW x \in Nat \X Orders
  PROVE  /\ Abs!Run(<<x[1], BlockPages[x[2]]>>) = PagesOf(x)
         /\ x[1] \in PagesOf(x)
<1>1. BlockPages[x[2]] \in Nat /\ BlockPages[x[2]] >= 1 /\ x[1] \in Nat
  BY BlockLength
<1> QED  BY <1>1 DEF Abs!Run, PagesOf

LEMMA AvailablePages ==
  ASSUME Inv
  PROVE  Abs!Available = Heap \ UNION {PagesOf(x) : x \in LiveBlocks}
<1>1. \A x \in LiveBlocks : Abs!Run(<<x[1], BlockPages[x[2]]>>) = PagesOf(x)
  BY RunOfBlock, BlocksType DEF Blocks
<1>2. UNION {Abs!Run(b) : b \in Held} = UNION {PagesOf(x) : x \in LiveBlocks}
  BY <1>1, Zenon DEF Held
<1> QED  BY <1>2 DEF Abs!Available, Held

\* kalloc returns a block: its pages were nobody's.
LEMMA AbstractAllocate ==
  ASSUME Inv, KallocReturn, addr # NULL
  PROVE  Abs!Allocate
<1> DEFINE x == <<addr, order>>
           n == BlockPages[order]
<1>1. /\ pc = "memset" /\ pc' = "ready" /\ order = order_for_pages(npages) /\ order \in Orders
      /\ addr \in Nat /\ live' = live \cup {<<addr, npages>>} /\ HandBlocks = {x}
  BY DEF KallocReturn, Return, Inv, CallState, TypeOK, HandBlocks
<1>2. LiveBlocks' = LiveBlocks \cup {x}
  <2>1. BlockOf(<<addr, npages>>) = x
    BY <1>1 DEF BlockOf
  <2> QED  BY <1>1, <2>1, Zenon DEF LiveBlocks
<1>3. n \in Nat /\ n >= 1 /\ n <= BlockPages[MaxOrder]
  BY <1>1, BlockLength, LongestBlock
<1>4. x \in Blocks /\ Inside(x) /\ x \in Nat \X Orders /\ x[1] = addr /\ x[2] = order
  BY <1>1 DEF Blocks, Inv, NoSharedPage
<1>5. \A y \in LiveBlocks : Apart(x, y) /\ y \in Nat \X Orders
  BY <1>1, <1>4, BlocksType DEF Blocks, Inv, NoSharedPage, OneOwner
<1>6. addr \in Heap /\ n \in 1..BlockPages[MaxOrder]
  <2>1. BlockPages[MaxOrder] \in Nat
    BY BlockLength
  <2>2. HeapStart <= addr /\ addr + n <= HeapEnd
    BY <1>4 DEF Inside
  <2>3. HeapStart \in Nat /\ HeapEnd \in Nat
    BY HeapAssumption DEF HeapEnd
  <2> QED  BY <1>1, <1>3, <2>1, <2>2, <2>3 DEF Heap
<1>7. ASSUME NEW p \in PagesOf(x)
      PROVE  p \in Heap /\ \A y \in LiveBlocks : p \notin PagesOf(y)
  <2>1. p \in Nat /\ addr <= p /\ p < addr + n
    BY <1>1, <1>3, <1>4, <1>7 DEF PagesOf
  <2>2. p \in Heap
    <3>1. HeapStart <= addr /\ addr + n <= HeapEnd
      BY <1>4 DEF Inside
    <3>2. HeapStart \in Nat /\ HeapEnd \in Nat
      BY HeapAssumption DEF HeapEnd
    <3> QED  BY <1>1, <1>3, <2>1, <3>1, <3>2 DEF Heap
  <2>3. ASSUME NEW y \in LiveBlocks PROVE p \notin PagesOf(y)
    <3>1. y[1] \in Nat /\ BlockPages[y[2]] \in Nat
      BY <1>5, <2>3, BlockLength
    <3>2. addr + n <= y[1] \/ y[1] + BlockPages[y[2]] <= addr
      BY <1>4, <1>5, <2>3 DEF Apart
    <3> QED  BY <1>1, <1>3, <2>1, <3>1, <3>2 DEF PagesOf
  <2> QED  BY <2>2, <2>3
<1>8. Abs!Run(<<addr, n>>) = PagesOf(x)
  BY <1>4, RunOfBlock
<1>9. Abs!Run(<<addr, n>>) \subseteq Abs!Available
  BY <1>7, <1>8, AvailablePages
<1>10. Held' = Held \cup {<<addr, n>>}
  BY <1>2, <1>4 DEF Held
<1>11. Refused = 0 /\ Refused' = 0
  BY <1>1 DEF Refused
<1> QED  BY <1>6, <1>9, <1>10, <1>11 DEF Abs!Allocate, Held, Refused

\* kfree_order takes a block from its caller.
LEMMA AbstractRelease ==
  ASSUME Inv, NEW b \in live, NEW o, o = order_for_pages(b[2]), kfree_order(b, o)
  PROVE  Abs!Release
<1> DEFINE x == BlockOf(b)
           r == <<b[1], BlockPages[o]>>
<1>1. /\ pc = "ready" /\ pc' = "merge" /\ live' = live \ {b} /\ x = <<b[1], o>>
  BY DEF kfree_order, BlockOf
<1>2. x \in LiveBlocks
  BY DEF LiveBlocks
<1>3. \A c \in live : c[1] = b[1] => c = b
  BY DEF Inv, NoSharedPage, OneOwner
<1>4. \A y \in LiveBlocks : y[1] = b[1] => y = x
  BY <1>3 DEF LiveBlocks, BlockOf
<1>5. LiveBlocks' = LiveBlocks \ {x}
  <2>1. \A c \in live : c # b => BlockOf(c)[1] # b[1]
    BY <1>3 DEF BlockOf
  <2>2. x[1] = b[1]
    BY <1>1
  <2> HIDE DEF x
  <2>3. \A c \in live : c # b => BlockOf(c) # x
    BY <2>1, <2>2
  <2> QED  BY <1>1, <2>3, Zenon DEF LiveBlocks, x
<1>6. r \in Held
  <2>1. x[1] = b[1] /\ x[2] = o
    BY <1>1
  <2> QED  BY <1>2, <2>1 DEF Held
<1>7. \A y \in LiveBlocks : y # x => <<y[1], BlockPages[y[2]]>> # r
  BY <1>4
<1>8. <<x[1], BlockPages[x[2]]>> = r
  BY <1>1
<1> HIDE DEF x, r
<1>9. Held' = Held \ {r}
  BY <1>5, <1>7, <1>8, Zenon DEF Held
<1>10. Refused = 0 /\ Refused' = 0
  BY <1>1 DEF Refused
<1> QED  BY <1>6, <1>9, <1>10 DEF Abs!Release, Held, Refused

\* The store to page 0. When a single page was asked for, every list is empty
\* and every page of the heap is a caller's.
LEMMA AbstractRefuse ==
  ASSUME Inv, MemsetFault
  PROVE  Abs!Refuse
<1>1. /\ pc = "memset" /\ pc' = "fault" /\ addr = NULL /\ npages > 0 /\ npages \in 0..MaxReq
      /\ npages' = npages /\ order = order_for_pages(npages)
      /\ \A k \in Orders : k >= order => free_lists[k] = << >>
      /\ LiveBlocks' = LiveBlocks /\ HandBlocks = {}
  BY DEF MemsetFault, Inv, CallState, TypeOK, LiveBlocks, HandBlocks
<1>2. npages \in 1..MaxReq
  BY <1>1, HeapAssumption
<1>3. ASSUME npages = 1 PROVE Abs!Available = {}
  <2>1. order = 0
    BY <1>1, <1>3, OrderForOne
  <2>2. FreeBlocks = {}
    <3>1. \A k \in Orders : Len(free_lists[k]) = 0
      BY <1>1, <2>1, BlockLength
    <3>2. ASSUME NEW y \in FreeBlocks PROVE FALSE
      <4>1. PICK k \in Orders : \E i \in 1..Len(free_lists[k]) : y = <<free_lists[k][i], k>>
        BY <3>2, Zenon DEF FreeBlocks, Listed
      <4> QED  BY <3>1, <4>1
    <3> QED  BY <3>2
  <2>3. \A p \in Heap : \E y \in LiveBlocks : p \in PagesOf(y)
    BY <1>1, <2>2 DEF Inv, NoLeak, Blocks
  <2> QED  BY <2>3, AvailablePages
<1>4. Held' = Held
  BY <1>1 DEF Held
<1>5. Refused = 0 /\ Refused' = npages
  BY <1>1 DEF Refused
<1> QED  BY <1>2, <1>3, <1>4, <1>5 DEF Abs!Refuse, Held, Refused

\* Every other step is hidden from the callers.
LEMMA AbstractStutter ==
  ASSUME Held' = Held, Refused' = Refused
  PROVE  [Abs!Next]_(Abs!absVars)
BY DEF Abs!absVars, Held, Refused

LEMMA AbstractHidden ==
  ASSUME live' = live, pc # "fault" /\ pc' # "fault"
  PROVE  [Abs!Next]_(Abs!absVars)
<1>1. Held' = Held /\ Refused' = Refused
  BY DEF Held, Refused, LiveBlocks
<1> QED  BY <1>1, AbstractStutter

LEMMA AbstractStep == Inv /\ [Next]_vars => [Abs!Next]_(Abs!absVars)
<1> SUFFICES ASSUME Inv, [Next]_vars PROVE [Abs!Next]_(Abs!absVars)
  OBVIOUS
<1>1. ASSUME NEW n \in 0..MaxReq, KallocNone(n) \/ KallocFind(n) PROVE [Abs!Next]_(Abs!absVars)
  BY <1>1, AbstractHidden DEF KallocNone, KallocFind
<1>2. ASSUME NEW b \in live, KfreeOrder(b) PROVE [Abs!Next]_(Abs!absVars)
  <2>1. Abs!Release
    BY <1>2, AbstractRelease DEF KfreeOrder
  <2> QED  BY <2>1 DEF Abs!Next
<1>3. ASSUME NEW b \in live, NEW bytes \in BytesOf(b[2]), KfreeSize(b, bytes)
      PROVE  [Abs!Next]_(Abs!absVars)
  <2>1. b[2] \in Nat
    BY HeapAssumption DEF Inv, TypeOK
  <2>2. (bytes + PageSize - 1) \div PageSize = b[2]
    BY <2>1, PagesOfBytes
  <2>3. kfree_order(b, order_for_pages(b[2]))
    BY <1>3, <2>2 DEF KfreeSize
  <2>4. Abs!Release
    BY <2>3, AbstractRelease
  <2> QED  BY <2>4 DEF Abs!Next
<1>4. CASE InitBlock \/ InitNextOrder \/ Split \/ Take \/ Merge \/ Insert
  BY <1>4, AbstractHidden DEF InitBlock, InitNextOrder, Split, Take, Merge, Insert, Return
<1>5. CASE KallocReturn
  <2>1. CASE addr = NULL
    BY <1>5, <2>1, AbstractHidden DEF KallocReturn, Return
  <2>2. CASE addr # NULL
    BY <1>5, <2>2, AbstractAllocate DEF Abs!Next
  <2> QED  BY <2>1, <2>2
<1>6. CASE MemsetFault
  BY <1>6, AbstractRefuse DEF Abs!Next
<1>7. CASE UNCHANGED vars
  <2>1. Held' = Held /\ Refused' = Refused
    BY <1>7 DEF vars, Held, Refused, LiveBlocks
  <2> QED  BY <2>1, AbstractStutter
<1> QED
  BY <1>1, <1>2, <1>3, <1>4, <1>5, <1>6, <1>7 DEF Next, Call, Step, Panicked

\* For every heap the allocator does what PageHeap promises its callers: the
\* pages kalloc returns lie in the heap and are nobody else's until they are
\* given back, and a single page is refused only when every page is held.
THEOREM ImplementsAPageHeap == Spec => ImplementsPageHeap
<1>1. Init => Abs!Init
  <2> SUFFICES ASSUME Init PROVE Abs!Init
    OBVIOUS
  <2>1. LiveBlocks = {} /\ pc # "fault"
    BY DEF Init, LiveBlocks
  <2> QED  BY <2>1 DEF Abs!Init
<1> QED  BY <1>1, AbstractStep, Invariance, PTL DEF Spec, ImplementsPageHeap, Abs!Spec

-----------------------------------------------------------------------------
(* What merges back. When the heap starts at a multiple of the largest      *)
(* block, a block of an order starts at a multiple of its own length, as     *)
(* addr ^ block_size takes it to do.                                        *)

AlignedHeap == HeapStart % BlockPages[MaxOrder] = 0

\* a is a multiple of the length of the blocks of order o.
OnGrid(a, o) == \E q \in Nat : a = q * BlockPages[o]

\* Two places on a grid are at least one block apart.
LEMMA GridGap ==
  ASSUME NEW o \in Orders, NEW a, NEW b, OnGrid(a, o), OnGrid(b, o), a < b
  PROVE  a + BlockPages[o] <= b
<1> DEFINE n == BlockPages[o]
<1>1. n \in Nat \ {0}
  BY BlockLength
<1>2. PICK q \in Nat : a = q * n
  BY DEF OnGrid
<1>3. PICK p \in Nat : b = p * n
  BY DEF OnGrid
<1> HIDE DEF n
<1>4. a \in Nat /\ b \in Nat
  BY <1>1, <1>2, <1>3
<1>5. q < p
  <2> SUFFICES ASSUME p <= q PROVE p * n <= q * n
    BY <1>2, <1>3, <1>4
  <2> QED  BY <1>1
<1>6. (q + 1) * n <= p * n
  <2>1. q + 1 <= p /\ q + 1 \in Nat
    BY <1>5
  <2> HIDE <1>5
  <2> QED  BY <1>1, <2>1
<1>7. (q + 1) * n = q * n + n
  BY <1>1
<1> QED  BY <1>2, <1>3, <1>6, <1>7 DEF n

\* The next place on a grid.
LEMMA GridNext ==
  ASSUME NEW o \in Orders, NEW a, OnGrid(a, o)
  PROVE  a \in Nat /\ OnGrid(a + BlockPages[o], o)
<1> DEFINE n == BlockPages[o]
<1>1. n \in Nat
  BY BlockLength
<1>2. PICK q \in Nat : a = q * n
  BY DEF OnGrid
<1> HIDE DEF n
<1>3. a + n = (q + 1) * n /\ a \in Nat /\ q + 1 \in Nat
  BY <1>1, <1>2
<1> QED  BY <1>3 DEF OnGrid, n

\* Half a block is on the grid of the next smaller order.
LEMMA GridHalves ==
  ASSUME NEW o \in Orders, o > 0, NEW a, OnGrid(a, o)
  PROVE  OnGrid(a, o - 1) /\ OnGrid(a + BlockPages[o - 1], o - 1)
<1> DEFINE n == BlockPages[o - 1]
<1>1. n \in Nat /\ BlockPages[o] = 2 * n /\ o - 1 \in Orders
  BY BlockLength
<1>2. PICK q \in Nat : a = q * (2 * n)
  BY <1>1 DEF OnGrid
<1> HIDE DEF n
<1>3. q * (2 * n) = (2 * q) * n
  BY <1>1
<1>4. OnGrid(a, o - 1)
  BY <1>2, <1>3 DEF OnGrid, n
<1> QED  BY <1>1, <1>4, GridNext DEF n

\* A coarse grid is part of a finer one.
LEMMA GridFiner ==
  ASSUME NEW o \in Orders, NEW p \in Orders, o <= p, NEW a, OnGrid(a, p)
  PROVE  OnGrid(a, o)
<1> DEFINE T == {d \in Nat : o + d \in Orders /\ o + d <= p /\ OnGrid(a, o + d)}
<1>1. o \in Nat /\ p \in Nat
  BY BlockLength
<1>2. p - o \in T
  <2>1. p - o \in Nat /\ o + (p - o) = p
    BY <1>1
  <2>2. o + (p - o) \in Orders /\ o + (p - o) <= p /\ OnGrid(a, o + (p - o))
    BY <1>1, <2>1
  <2> QED  BY <2>1, <2>2
<1>3. PICK d \in T : \A e \in T : d <= e
  BY <1>2, LeastElement
<1>4. d \in Nat /\ o + d \in Orders /\ o + d <= p /\ OnGrid(a, o + d)
  BY <1>3
<1>5. d = 0
  <2> SUFFICES ASSUME d # 0 PROVE FALSE
    OBVIOUS
  <2>1. o + d > 0 /\ (o + d) - 1 = o + (d - 1) /\ d - 1 \in Nat /\ o + (d - 1) <= p
    BY <1>1, <1>4
  <2>2. (o + d) - 1 \in Orders
    BY <1>4, <2>1, BlockLength
  <2>3. OnGrid(a, (o + d) - 1)
    BY <1>4, <2>1, GridHalves
  <2>4. d - 1 \in T
    BY <2>1, <2>2, <2>3
  <2> QED  BY <1>3, <1>4, <2>4
<1>6. o + d = o
  BY <1>1, <1>5
<1> QED  BY <1>4, <1>6

\* A block and its buddy make a block of the next order, which starts on its grid.
LEMMA GridBuddy ==
  ASSUME NEW o \in Orders, o < MaxOrder, NEW a, OnGrid(a, o)
  PROVE  LET b == buddy_addr(a, o)
             low == IF a < b THEN a ELSE b
         IN  /\ OnGrid(low, o + 1) /\ OnGrid(b, o)
             /\ \/ low = a /\ b = a + BlockPages[o]
                \/ low = b /\ a = b + BlockPages[o]
<1> DEFINE n == BlockPages[o]
           b == buddy_addr(a, o)
<1>1. n \in Nat \ {0} /\ BlockPages[o + 1] = 2 * n /\ o + 1 \in Orders
  BY BlockLength
<1>2. PICK q \in Nat : a = q * n
  BY DEF OnGrid
<1>3. b = IF (a \div n) % 2 = 0 THEN a + n ELSE a - n
  BY DEF buddy_addr
<1>4. \A z : OnGrid(z, o) <=> \E k \in Nat : z = k * n
  BY DEF OnGrid
<1>5. \A z : OnGrid(z, o + 1) <=> \E k \in Nat : z = k * (2 * n)
  BY <1>1 DEF OnGrid
<1> HIDE DEF n, b
<1>6. a \div n = q /\ a \in Nat
  BY <1>1, <1>2
<1> DEFINE r == q \div 2
<1>7. CASE q % 2 = 0
  <2>1. q = 2 * r /\ r \in Nat
    BY <1>7
  <2> HIDE DEF r
  <2>2. a = r * (2 * n)
    BY <1>1, <1>2, <2>1
  <2>3. b = a + n /\ b = (q + 1) * n /\ q + 1 \in Nat /\ a < b
    BY <1>1, <1>2, <1>3, <1>6, <1>7
  <2>4. OnGrid(a, o + 1) /\ OnGrid(b, o)
    BY <1>4, <1>5, <2>1, <2>2, <2>3
  <2> QED  BY <2>3, <2>4 DEF b, n
<1>8. CASE q % 2 # 0
  <2>1. q = 2 * r + 1 /\ r \in Nat
    BY <1>8
  <2> HIDE DEF r
  <2>2. a = r * (2 * n) + n
    BY <1>1, <1>2, <2>1
  <2>3. b = a - n
    BY <1>3, <1>6, <1>8
  <2>4. r * (2 * n) \in Nat /\ r * (2 * n) = (2 * r) * n /\ 2 * r \in Nat
    BY <1>1, <2>1
  <2>5. b = r * (2 * n) /\ ~ (a < b) /\ a = b + n
    BY <1>1, <1>6, <2>2, <2>3, <2>4
  <2>6. OnGrid(b, o + 1) /\ OnGrid(b, o)
    BY <1>4, <1>5, <2>1, <2>4, <2>5
  <2> QED  BY <2>5, <2>6 DEF b, n
<1> QED  BY <1>2, <1>7, <1>8

\* Every block is on the grid of its order, and init_memory's addr on that of the
\* order it links.
GridInv ==
  /\ \A x \in Blocks : OnGrid(x[1], x[2])
  /\ pc = "init" => OnGrid(addr, order)

LEMMA GridStart ==
  ASSUME AlignedHeap
  PROVE  OnGrid(HeapStart, MaxOrder)
<1> DEFINE n == BlockPages[MaxOrder]
           q == HeapStart \div n
<1>1. n \in Nat \ {0} /\ HeapStart \in Nat /\ HeapStart % n = 0
  BY BlockLength, HeapAssumption DEF AlignedHeap
<1> HIDE DEF n
<1>2. q \in Nat /\ HeapStart = q * n
  BY <1>1
<1> HIDE DEF q
<1> QED  BY <1>2 DEF OnGrid, n

LEMMA GridInit == Init /\ AlignedHeap => GridInv
<1> SUFFICES ASSUME Init, AlignedHeap PROVE GridInv
  OBVIOUS
<1>1. Blocks = {}
  <2>1. \A o \in Orders : Len(free_lists[o]) = 0
    BY DEF Init
  <2>2. ASSUME NEW x \in FreeBlocks PROVE FALSE
    <3>1. PICK o \in Orders : \E i \in 1..Len(free_lists[o]) : x = <<free_lists[o][i], o>>
      BY <2>2, Zenon DEF FreeBlocks, Listed
    <3> QED  BY <2>1, <3>1
  <2>3. FreeBlocks = {}
    BY <2>2, Zenon
  <2>4. LiveBlocks = {} /\ HandBlocks = {}
    BY DEF Init, LiveBlocks, HandBlocks
  <2> QED  BY <2>3, <2>4 DEF Blocks
<1>2. addr = HeapStart /\ order = MaxOrder
  BY DEF Init
<1> QED  BY <1>1, <1>2, GridStart DEF GridInv

\* A step that only moves blocks between their owners, or takes some away.
LEMMA GridFewer ==
  ASSUME GridInv, Blocks' \subseteq Blocks, pc' # "init"
  PROVE  GridInv'
BY DEF GridInv, OnGrid

LEMMA GridInitBlock == Inv /\ GridInv /\ InitBlock => GridInv'
<1> SUFFICES ASSUME Inv, GridInv, InitBlock PROVE GridInv'
  OBVIOUS
<1>1. /\ pc = "init" /\ pc' = pc /\ order \in Orders /\ order' = order /\ addr \in Nat
      /\ free_lists' = Push(free_lists, order, addr) /\ addr' = addr + BlockPages[order]
      /\ live' = live
  BY DEF Inv, CallState, TypeOK, InitBlock
<1>2. FreeBlocks' = FreeBlocks \cup {<<addr, order>>}
  BY <1>1, BlocksType, PushLists DEF FreeBlocks
<1>3. LiveBlocks' = LiveBlocks /\ HandBlocks' = {} /\ HandBlocks = {}
  BY <1>1 DEF LiveBlocks, HandBlocks
<1>4. OnGrid(addr, order) /\ OnGrid(addr', order')
  BY <1>1, GridNext DEF GridInv
<1>5. \A x \in Blocks' : OnGrid(x[1], x[2])
  BY <1>2, <1>3, <1>4 DEF GridInv, Blocks
<1> QED  BY <1>4, <1>5 DEF GridInv, OnGrid

LEMMA GridInitNextOrder == Inv /\ GridInv /\ InitNextOrder => GridInv'
<1> SUFFICES ASSUME Inv, GridInv, InitNextOrder PROVE GridInv'
  OBVIOUS
<1>1. pc = "init" /\ order \in Orders /\ free_lists' = free_lists /\ live' = live
  BY DEF Inv, CallState, InitNextOrder
<1>2. pc' \in {"init", "ready"}
  BY <1>1 DEF InitNextOrder, Return
<1>3. Blocks' = Blocks
  BY <1>1, <1>2 DEF Blocks, FreeBlocks, LiveBlocks, HandBlocks
<1>4. CASE order > 0 /\ order' = order - 1 /\ pc' = pc /\ addr' = addr
  <2>1. OnGrid(addr', order')
    BY <1>1, <1>4, GridHalves DEF GridInv
  <2> QED  BY <1>3, <2>1 DEF GridInv, OnGrid
<1>5. CASE pc' = "ready"
  BY <1>3, <1>5, GridFewer
<1> QED  BY <1>4, <1>5 DEF InitNextOrder, Return

LEMMA GridSplit == Inv /\ GridInv /\ Split => GridInv'
<1> SUFFICES ASSUME Inv, GridInv, Split PROVE GridInv'
  OBVIOUS
<1> DEFINE c == curr_order
           block == Head(free_lists[c])
           buddy2 == block + BlockPages[c - 1]
           f1 == Pop(free_lists, c)
           f2 == Push(f1, c - 1, buddy2)
<1>1. /\ pc = "split" /\ pc' = pc /\ c \in Orders /\ c > 0 /\ c - 1 \in Orders
      /\ free_lists[c] # << >> /\ live' = live
      /\ free_lists \in Lists /\ ListedOnce(free_lists)
  <2>1. pc = "split" /\ order \in Orders /\ order < c /\ c \in Orders /\ pc' = pc /\ live' = live
        /\ free_lists[c] # << >> /\ free_lists \in Lists /\ ListedOnce(free_lists)
    BY BlocksType DEF Inv, TypeOK, CallState, Split, NoSharedPage
  <2> QED  BY <2>1, BlockLength
<1>2. /\ f1 \in Lists /\ <<block, c>> \in FreeBlocks /\ Listed(f1) \subseteq FreeBlocks
  BY <1>1, PopLists DEF FreeBlocks
<1>3. OnGrid(block, c)
  BY <1>2 DEF GridInv, Blocks
<1>4. OnGrid(block, c - 1) /\ OnGrid(buddy2, c - 1) /\ block \in Nat /\ buddy2 \in Nat
  <2>1. OnGrid(block, c - 1) /\ OnGrid(buddy2, c - 1)
    BY <1>1, <1>3, GridHalves
  <2> QED  BY <1>1, <2>1, GridNext
<1>5. free_lists' = Push(f2, c - 1, block)
  BY DEF Split
<1>6. f2 \in Lists /\ Listed(f2) = Listed(f1) \cup {<<buddy2, c - 1>>}
  <2> HIDE DEF f1, buddy2
  <2> QED  BY <1>1, <1>2, <1>4, PushLists
<1>7. FreeBlocks' = Listed(f2) \cup {<<block, c - 1>>}
  <2> HIDE DEF f2
  <2> QED  BY <1>1, <1>4, <1>5, <1>6, PushLists DEF FreeBlocks
<1>8. LiveBlocks' = LiveBlocks /\ HandBlocks' = {}
  BY <1>1 DEF LiveBlocks, HandBlocks
<1> HIDE DEF block, buddy2, f1, f2
<1>9. \A x \in Blocks' : OnGrid(x[1], x[2])
  BY <1>2, <1>4, <1>6, <1>7, <1>8 DEF GridInv, Blocks
<1> QED  BY <1>1, <1>9 DEF GridInv, OnGrid

LEMMA GridTake == Inv /\ GridInv /\ Take => GridInv'
<1> SUFFICES ASSUME Inv, GridInv, Take PROVE GridInv'
  OBVIOUS
<1> DEFINE x == <<Head(free_lists[order]), order>>
<1>1. /\ order \in Orders /\ free_lists[order] # << >>
      /\ free_lists \in Lists /\ ListedOnce(free_lists)
      /\ free_lists' = Pop(free_lists, order) /\ addr' = Head(free_lists[order])
      /\ pc' = "memset" /\ order' = order /\ live' = live
  BY BlocksType DEF Inv, TypeOK, CallState, Take, NoSharedPage
<1>2. x \in FreeBlocks /\ FreeBlocks' \subseteq FreeBlocks
  BY <1>1, PopLists DEF FreeBlocks
<1>3. LiveBlocks' = LiveBlocks /\ HandBlocks' \subseteq {x}
  BY <1>1 DEF LiveBlocks, HandBlocks
<1> HIDE DEF x
<1>4. Blocks' \subseteq Blocks
  BY <1>2, <1>3 DEF Blocks
<1> QED  BY <1>1, <1>4, GridFewer

LEMMA GridKallocReturn == Inv /\ GridInv /\ KallocReturn => GridInv'
<1> SUFFICES ASSUME Inv, GridInv, KallocReturn PROVE GridInv'
  OBVIOUS
<1>1. /\ pc = "memset" /\ pc' = "ready" /\ free_lists' = free_lists
      /\ order = order_for_pages(npages)
      /\ live' = IF addr = NULL THEN live ELSE live \cup {<<addr, npages>>}
  BY DEF KallocReturn, Return, Inv, CallState
<1>2. FreeBlocks' = FreeBlocks /\ HandBlocks' = {}
  BY <1>1 DEF FreeBlocks, HandBlocks
<1>3. LiveBlocks' \subseteq LiveBlocks \cup HandBlocks
  <2>1. CASE addr = NULL
    BY <1>1, <2>1 DEF LiveBlocks
  <2>2. CASE addr # NULL
    <3>1. HandBlocks = {<<addr, order>>} /\ BlockOf(<<addr, npages>>) = <<addr, order>>
      BY <1>1, <2>2 DEF HandBlocks, BlockOf
    <3>2. LiveBlocks' = LiveBlocks \cup {BlockOf(<<addr, npages>>)}
      BY <1>1, <2>2 DEF LiveBlocks
    <3> QED  BY <3>1, <3>2
  <2> QED  BY <2>1, <2>2
<1>4. Blocks' \subseteq Blocks
  BY <1>2, <1>3 DEF Blocks
<1> QED  BY <1>1, <1>4, GridFewer

LEMMA Gridkfree_order ==
  ASSUME Inv, GridInv, NEW b \in live, kfree_order(b, order_for_pages(b[2]))
  PROVE  GridInv'
<1>1. /\ pc' = "merge" /\ live' \subseteq live /\ free_lists' = free_lists
      /\ addr' = b[1] /\ order' = order_for_pages(b[2])
  BY DEF kfree_order
<1>2. FreeBlocks' = FreeBlocks /\ LiveBlocks' \subseteq LiveBlocks
  BY <1>1 DEF FreeBlocks, LiveBlocks
<1>3. HandBlocks' = {BlockOf(b)} /\ BlockOf(b) \in LiveBlocks
  BY <1>1 DEF HandBlocks, BlockOf, LiveBlocks
<1>4. Blocks' \subseteq Blocks
  BY <1>2, <1>3 DEF Blocks
<1> QED  BY <1>1, <1>4, GridFewer

LEMMA GridMerge == Inv /\ GridInv /\ Merge => GridInv'
<1> SUFFICES ASSUME Inv, GridInv, Merge PROVE GridInv'
  OBVIOUS
<1> DEFINE buddy == buddy_addr(addr, order)
           list == free_lists[order]
<1>1. /\ pc = "merge" /\ pc' = pc /\ order \in Orders /\ order < MaxOrder
      /\ order' = order + 1 /\ addr' = IF addr < buddy THEN addr ELSE buddy
      /\ live' = live /\ free_lists \in Lists /\ ListedOnce(free_lists)
  BY BlocksType DEF Inv, TypeOK, CallState, Merge, NoSharedPage
<1>2. PICK i \in 1..Len(list) : free_lists' = [free_lists EXCEPT ![order] = Unlink(list, i)]
  BY DEF Merge
<1>3. FreeBlocks' \subseteq FreeBlocks
  <2>1. FreeBlocks' = FreeBlocks \ {<<list[i], order>>}
    BY <1>1, <1>2, UnlinkLists DEF FreeBlocks
  <2> QED  BY <2>1
<1>4. /\ HandBlocks = {<<addr, order>>} /\ HandBlocks' = {<<addr', order + 1>>}
      /\ LiveBlocks' = LiveBlocks
  BY <1>1 DEF HandBlocks, LiveBlocks
<1>5. OnGrid(addr, order)
  <2>1. <<addr, order>> \in Blocks
    BY <1>4 DEF Blocks
  <2> QED  BY <2>1 DEF GridInv
<1>6. OnGrid(addr', order + 1)
  BY <1>1, <1>5, GridBuddy
<1>7. \A x \in Blocks' : OnGrid(x[1], x[2])
  BY <1>3, <1>4, <1>6 DEF GridInv, Blocks
<1> QED  BY <1>1, <1>7 DEF GridInv, OnGrid

LEMMA GridInsert == Inv /\ GridInv /\ Insert => GridInv'
<1> SUFFICES ASSUME Inv, GridInv, Insert PROVE GridInv'
  OBVIOUS
<1>1. /\ pc = "merge" /\ pc' = "ready" /\ order \in Orders /\ addr \in Nat /\ live' = live
      /\ free_lists' = Push(free_lists, order, addr) /\ free_lists \in Lists
  BY BlocksType DEF Inv, TypeOK, CallState, Insert, Return
<1>2. FreeBlocks' = FreeBlocks \cup {<<addr, order>>}
  BY <1>1, PushLists DEF FreeBlocks
<1>3. HandBlocks = {<<addr, order>>} /\ HandBlocks' = {} /\ LiveBlocks' = LiveBlocks
  BY <1>1 DEF HandBlocks, LiveBlocks
<1>4. Blocks' \subseteq Blocks
  BY <1>2, <1>3 DEF Blocks
<1> QED  BY <1>1, <1>4, GridFewer

LEMMA GridStep == Inv /\ GridInv /\ [Next]_vars => GridInv'
<1> SUFFICES ASSUME Inv, GridInv, [Next]_vars PROVE GridInv'
  OBVIOUS
<1>1. ASSUME UNCHANGED <<free_lists, live>>, HandBlocks' = HandBlocks, pc' # "init" PROVE GridInv'
  <2>1. Blocks' = Blocks
    BY <1>1 DEF Blocks, FreeBlocks, LiveBlocks
  <2> QED  BY <1>1, <2>1, GridFewer
<1>2. ASSUME NEW n \in 0..MaxReq, KallocNone(n) \/ KallocFind(n) PROVE GridInv'
  <2>1. UNCHANGED <<free_lists, live>> /\ HandBlocks' = HandBlocks /\ pc' # "init"
    BY <1>2 DEF KallocNone, KallocFind, HandBlocks, NULL
  <2> QED  BY <1>1, <2>1
<1>3. ASSUME NEW b \in live, KfreeOrder(b) PROVE GridInv'
  BY <1>3, Gridkfree_order DEF KfreeOrder
<1>4. ASSUME NEW b \in live, NEW bytes \in BytesOf(b[2]), KfreeSize(b, bytes) PROVE GridInv'
  <2>1. b[2] \in Nat
    BY HeapAssumption DEF Inv, TypeOK
  <2>2. (bytes + PageSize - 1) \div PageSize = b[2]
    BY <2>1, PagesOfBytes
  <2>3. kfree_order(b, order_for_pages(b[2]))
    BY <1>4, <2>2 DEF KfreeSize
  <2> QED  BY <2>3, Gridkfree_order
<1>5. CASE UNCHANGED vars
  <2>1. Blocks' = Blocks /\ UNCHANGED <<pc, addr, order>>
    BY <1>5 DEF Blocks, FreeBlocks, LiveBlocks, HandBlocks, vars
  <2> QED  BY <2>1 DEF GridInv, OnGrid
<1>6. CASE MemsetFault
  <2>1. UNCHANGED <<free_lists, live>> /\ pc' = "fault"
    BY <1>6 DEF MemsetFault
  <2>2. HandBlocks' = HandBlocks
    BY <1>6 DEF MemsetFault, HandBlocks
  <2> QED  BY <1>1, <2>1, <2>2
<1>7. CASE Step
  BY <1>6, <1>7, GridInitBlock, GridInitNextOrder, GridSplit, GridTake, GridKallocReturn,
     GridMerge, GridInsert DEF Step
<1> QED  BY <1>2, <1>3, <1>4, <1>5, <1>7 DEF Next, Call, Panicked

\* With everything given back and merged, a stretch of the heap as long as the
\* largest block, and on its grid, is such a block. Otherwise a smallest block in
\* it has a buddy there, and what covers the buddy can be no smaller, no larger
\* and no block of that order either.
LEMMA ChunkIsBlock ==
  ASSUME Inv, GridInv, NoFreeBuddies, pc = "ready", live = {},
         NEW base, OnGrid(base, MaxOrder),
         HeapStart <= base, base + BlockPages[MaxOrder] <= HeapEnd
  PROVE  <<base, MaxOrder>> \in FreeBlocks
<1> DEFINE N == BlockPages[MaxOrder]
           end == base + N
           In(y) == base <= y[1] /\ y[1] + BlockPages[y[2]] <= end
           T == {o \in Orders : \E y \in FreeBlocks : y[2] = o /\ In(y)}
<1>1. Blocks = FreeBlocks
  BY DEF Blocks, LiveBlocks, HandBlocks
<1>2. /\ MaxOrder \in Orders /\ N \in Nat /\ N >= 1 /\ base \in Nat
      /\ OnGrid(end, MaxOrder) /\ \A o \in Orders : o <= MaxOrder
  BY BlockLength, GridNext
<1>3. \A y \in FreeBlocks : /\ y \in Nat \X Orders /\ OnGrid(y[1], y[2])
                            /\ BlockPages[y[2]] \in Nat /\ BlockPages[y[2]] >= 1
  BY <1>1, BlocksType, BlockLength DEF GridInv
<1>4. ASSUME NEW p \in Nat, base <= p, p < end
      PROVE  \E y \in FreeBlocks : In(y) /\ y[1] <= p /\ p < y[1] + BlockPages[y[2]]
  <2>1. p \in Heap
    <3>1. HeapEnd \in Nat /\ HeapStart \in Nat
      BY HeapAssumption DEF HeapEnd
    <3> QED  BY <1>2, <1>4, <3>1 DEF Heap
  <2>2. PICK y \in FreeBlocks : p \in PagesOf(y)
    BY <1>1, <2>1 DEF Inv, NoLeak
  <2> DEFINE a == y[1]
             o == y[2]
             L == BlockPages[o]
  <2>3. a \in Nat /\ o \in Orders /\ L \in Nat /\ L >= 1 /\ OnGrid(a, o)
    BY <1>3
  <2>4. a <= p /\ p < a + L
    <3>1. p \in a..(a + L - 1)
      BY <2>2 DEF PagesOf
    <3> HIDE DEF a, L
    <3> QED  BY <2>3, <3>1
  <2>5. OnGrid(base, o) /\ OnGrid(end, o)
    <3> HIDE DEF o, end
    <3> QED  BY <1>2, <2>3, GridFiner
  <2>6. a < base => a + L <= base
    <3> HIDE DEF a, o
    <3> QED  BY <2>3, <2>5, GridGap
  <2>7. a < end => a + L <= end
    <3> HIDE DEF a, o, end
    <3> QED  BY <2>3, <2>5, GridGap
  <2>8. end \in Nat
    BY <1>2
  <2>9. base <= a /\ a + L <= end
    <3> HIDE DEF a, L, end
    <3> QED  BY <1>2, <1>4, <2>3, <2>4, <2>6, <2>7, <2>8
  <2> QED  BY <2>4, <2>9
<1>5. PICK m \in T : \A k \in T : m <= k
  <2>1. T # {}
    <3>1. base <= base /\ base < end
      BY <1>2
    <3>2. PICK y \in FreeBlocks : In(y)
      <4> HIDE DEF end, In
      <4> QED  BY <1>2, <1>4, <3>1
    <3>3. y[2] \in T
      BY <1>3, <3>2
    <3> QED  BY <3>3
  <2>2. T \in SUBSET Nat
    BY BlockLength
  <2> HIDE DEF T
  <2> QED  BY <2>1, <2>2, LeastElement, Zenon
<1>6. PICK x \in FreeBlocks : x[2] = m /\ In(x)
  BY <1>5
<1> DEFINE c == x[1]
           n == BlockPages[m]
<1>7. /\ m \in Orders /\ c \in Nat /\ n \in Nat /\ n >= 1 /\ OnGrid(c, m)
      /\ x = <<c, m>> /\ base <= c /\ c + n <= end
  BY <1>3, <1>5, <1>6
<1>8. CASE m = MaxOrder
  <2>1. c = base
    <3>1. n = N
      BY <1>8
    <3>2. c + N <= base + N
      BY <1>7, <3>1
    <3> HIDE DEF c, N
    <3> QED  BY <1>2, <1>7, <3>2
  <2> QED  BY <1>7, <1>8, <2>1
<1>9. CASE m # MaxOrder
  <2> DEFINE b == buddy_addr(c, m)
             low == IF c < b THEN c ELSE b
  <2>1. m < MaxOrder /\ m + 1 \in Orders /\ BlockPages[m + 1] = 2 * n
    <3>1. m < MaxOrder
      BY <1>7, <1>9, BlockLength
    <3> QED  BY <1>7, <3>1, BlockLength
  <2>2. /\ OnGrid(low, m + 1) /\ OnGrid(b, m)
        /\ \/ low = c /\ b = c + n
           \/ low = b /\ c = b + n
    <3> HIDE DEF c
    <3> QED  BY <1>7, <2>1, GridBuddy
  <2>3. low \in Nat /\ b \in Nat
    <3> HIDE DEF low, b
    <3> QED  BY <1>7, <2>1, <2>2, GridNext
  <2> HIDE DEF b, low, c, n
  <2>4. base <= low /\ low + 2 * n <= end
    <3>1. OnGrid(base, m + 1) /\ OnGrid(end, m + 1)
      <4> HIDE DEF end
      <4> QED  BY <1>2, <2>1, GridFiner
    <3>2. low < base => low + 2 * n <= base
      BY <2>1, <2>2, <3>1, GridGap
    <3>3. low < end => low + 2 * n <= end
      <4> HIDE DEF end
      <4> QED  BY <2>1, <2>2, <3>1, GridGap
    <3>4. end \in Nat
      BY <1>2
    <3> HIDE DEF end
    <3> QED  BY <1>2, <1>7, <2>2, <2>3, <3>2, <3>3, <3>4
  <2>5. base <= b /\ b < end
    <3>1. end \in Nat
      BY <1>2
    <3> HIDE DEF end
    <3> QED  BY <1>2, <1>7, <2>2, <2>3, <2>4, <3>1
  <2>6. PICK y \in FreeBlocks : In(y) /\ y[1] <= b /\ b < y[1] + BlockPages[y[2]]
    <3> HIDE DEF end, In
    <3> QED  BY <1>4, <2>3, <2>5
  <2> DEFINE a == y[1]
             o == y[2]
             L == BlockPages[o]
  <2>7. /\ a \in Nat /\ o \in Orders /\ L \in Nat /\ L >= 1 /\ OnGrid(a, o) /\ y = <<a, o>>
        /\ a <= b /\ b < a + L
    BY <1>3, <2>6
  <2>8. m <= o
    <3>1. o \in T
      BY <2>6, <2>7
    <3> HIDE DEF T
    <3> QED  BY <1>5, <3>1
  <2> HIDE DEF a, o, L
  <2>9. CASE o = m
    <3>1. a < b => a + n <= b
      BY <1>7, <2>2, <2>7, <2>9, GridGap DEF n
    <3>2. L = n
      BY <2>9 DEF L, n
    <3>3. a = b
      BY <2>3, <2>7, <3>1, <3>2
    <3>4. <<b, m>> \in FreeBlocks /\ <<c, m>> \in FreeBlocks
      BY <1>6, <1>7, <2>7, <2>9, <3>3
    <3>5. /\ \E i \in 1..Len(free_lists[m]) : free_lists[m][i] = b
          /\ \E j \in 1..Len(free_lists[m]) : free_lists[m][j] = c
      BY <3>4, ListedMember DEF FreeBlocks
    <3>6. m \in 0..(MaxOrder - 1)
      BY <1>7, <2>1, BlockLength
    <3> QED  BY <3>5, <3>6 DEF NoFreeBuddies, b
  <2>10. CASE o # m
    <3>1. m + 1 <= o
      BY <1>7, <2>7, <2>8, <2>10, BlockLength
    <3>2. OnGrid(a, m + 1) /\ OnGrid(a + L, m + 1)
      <4>1. OnGrid(a + L, o)
        BY <2>7, GridNext DEF L
      <4> QED  BY <2>1, <2>7, <3>1, <4>1, GridFiner
    <3>3. low < a => low + 2 * n <= a
      BY <2>1, <2>2, <3>2, GridGap
    <3>4. low < a + L => low + 2 * n <= a + L
      BY <2>1, <2>2, <3>2, GridGap
    <3>5. a <= c /\ c + n <= a + L
      BY <1>7, <2>2, <2>3, <2>7, <3>3, <3>4
    <3>6. x # y
      BY <1>7, <2>7, <2>10
    <3>7. Apart(x, y)
      BY <1>1, <3>6 DEF Inv, NoSharedPage
    <3>8. c + n <= a \/ a + L <= c
      BY <1>7, <2>7, <3>7 DEF Apart, n, L
    <3> QED  BY <1>7, <2>7, <3>5, <3>8
  <2> QED  BY <2>9, <2>10
<1> QED  BY <1>8, <1>9

\* A division by the length of a block.
LEMMA Quotient ==
  ASSUME NEW z \in Nat, NEW n \in Nat \ {0}
  PROVE  /\ z \div n \in Nat
         /\ \A k \in Nat : (k + 1) * n <= z <=> k < z \div n
<1> DEFINE q == z \div n
<1>1. q \in Nat /\ q * n <= z /\ z < q * n + n
  OBVIOUS
<1> HIDE DEF q
<1>2. ASSUME NEW k \in Nat, k < q PROVE (k + 1) * n <= z
  <2>1. k + 1 <= q
    BY <1>1, <1>2
  <2>2. (k + 1) * n <= q * n
    <3> DEFINE j == k + 1
    <3>1. j \in Nat /\ j <= q
      BY <2>1
    <3> HIDE DEF j
    <3>2. j * n <= q * n
      BY <1>1, <3>1
    <3> QED  BY <3>2 DEF j
  <2>3. (k + 1) * n \in Nat /\ q * n \in Nat
    BY <1>1
  <2> QED  BY <1>1, <2>2, <2>3
<1>3. ASSUME NEW k \in Nat, ~ (k < q) PROVE ~ ((k + 1) * n <= z)
  <2>1. q <= k
    BY <1>1, <1>3
  <2>2. q * n <= k * n
    BY <1>1, <2>1
  <2>3. (k + 1) * n = k * n + n /\ k * n \in Nat /\ q * n \in Nat
    BY <1>1
  <2> QED  BY <1>1, <2>2, <2>3
<1> QED  BY <1>1, <1>2, <1>3 DEF q

\* The blocks of MAX_ORDER correspond to the stretches they fill, one to one.
LEMMA ChunksCounted ==
  ASSUME Inv, GridInv, NoFreeBuddies, AlignedHeap, pc = "ready", live = {}
  PROVE  Len(free_lists[MaxOrder]) = HeapPages \div BlockPages[MaxOrder]
<1> DEFINE list == free_lists[MaxOrder]
           len == Len(list)
           N == BlockPages[MaxOrder]
           q == HeapPages \div N
           g == [k \in 0..(q - 1) |-> CHOOSE i \in 1..len : list[i] = HeapStart + k * N]
<1>1. /\ N \in Nat \ {0} /\ MaxOrder \in Orders /\ HeapStart \in Nat /\ HeapPages \in Nat
      /\ HeapEnd = HeapStart + HeapPages
  BY BlockLength, HeapAssumption DEF HeapEnd
<1>2. /\ list \in Seq(Nat) /\ len \in Nat
      /\ \A i, j \in 1..len : list[i] = list[j] => i = j
  <2>1. list \in Seq(Nat)
    BY <1>1, BlocksType DEF Lists
  <2>2. ListedOnce(free_lists)
    BY DEF Inv, NoSharedPage
  <2> QED  BY <1>1, <2>1, <2>2 DEF ListedOnce
<1>3. PICK h \in Nat : HeapStart = h * N
  BY GridStart DEF OnGrid
<1>4. q \in Nat /\ \A k \in Nat : (k + 1) * N <= HeapPages <=> k < q
  <2> HIDE DEF N
  <2> QED  BY <1>1, Quotient
<1> HIDE DEF q
<1>5. ASSUME NEW k \in 0..(q - 1) PROVE \E i \in 1..len : list[i] = HeapStart + k * N
  <2> DEFINE base == HeapStart + k * N
  <2>1. k \in Nat /\ k < q
    BY <1>4
  <2>2. (k + 1) * N <= HeapPages
    BY <1>4, <2>1
  <2>3. /\ base = (h + k) * N /\ h + k \in Nat
        /\ HeapStart <= base /\ base + N <= HeapEnd
    <3> HIDE DEF N
    <3>1. (k + 1) * N = k * N + N /\ k * N \in Nat /\ (h + k) * N = h * N + k * N
      BY <1>1, <2>1
    <3> QED  BY <1>1, <1>3, <2>1, <2>2, <3>1
  <2> HIDE DEF base
  <2>4. OnGrid(base, MaxOrder)
    BY <2>3 DEF OnGrid
  <2>5. <<base, MaxOrder>> \in FreeBlocks
    BY <2>3, <2>4, ChunkIsBlock
  <2> QED  BY <2>5, ListedMember DEF FreeBlocks, base
<1>6. \A k \in 0..(q - 1) : g[k] \in 1..len /\ list[g[k]] = HeapStart + k * N
  <2> SUFFICES ASSUME NEW k \in 0..(q - 1)
               PROVE  g[k] \in 1..len /\ list[g[k]] = HeapStart + k * N
    OBVIOUS
  <2> DEFINE P(i) == list[i] = HeapStart + k * N
  <2>1. \E i \in 1..len : P(i)
    BY <1>5
  <2>2. g[k] = CHOOSE i \in 1..len : P(i)
    OBVIOUS
  <2>3. g[k] \in 1..len /\ P(g[k])
    <3> HIDE DEF P, g
    <3> QED  BY <2>1, <2>2, Zenon
  <2> QED  BY <2>3
<1>7. g \in [0..(q - 1) -> 1..len]
  BY <1>6
<1> HIDE DEF g
<1>8. ASSUME NEW j \in 0..(q - 1), NEW k \in 0..(q - 1), g[j] = g[k] PROVE j = k
  <2>1. HeapStart + j * N = HeapStart + k * N
    BY <1>6, <1>8
  <2>2. j \in Nat /\ k \in Nat
    BY <1>4
  <2> HIDE DEF N
  <2>3. j * N \in Nat /\ k * N \in Nat
    BY <1>1, <2>2
  <2>4. j * N = k * N
    BY <1>1, <2>1, <2>3
  <2> QED  BY <1>1, <2>2, <2>4
<1>9. ASSUME NEW i \in 1..len PROVE \E k \in 0..(q - 1) : g[k] = i
  <2> DEFINE a == list[i]
  <2>1. <<a, MaxOrder>> \in FreeBlocks
    BY <1>1, ListedMember DEF FreeBlocks
  <2>2. <<a, MaxOrder>> \in Blocks
    BY <2>1 DEF Blocks
  <2>3. Inside(<<a, MaxOrder>>) /\ OnGrid(a, MaxOrder)
    <3> HIDE DEF a
    <3> QED  BY <2>2 DEF Inv, NoSharedPage, GridInv
  <2>4. PICK p \in Nat : a = p * N
    BY <2>3 DEF OnGrid
  <2>5. HeapStart <= a /\ a + N <= HeapEnd
    BY <2>3 DEF Inside
  <2> HIDE DEF a, N
  <2>6. h <= p
    <3> SUFFICES ASSUME p < h PROVE FALSE
      OBVIOUS
    <3>1. p * N < h * N
      BY <1>1
    <3> QED  BY <1>1, <1>3, <2>4, <2>5, <3>1
  <2> DEFINE k == p - h
  <2>7. k \in Nat /\ p = h + k
    BY <2>6
  <2> HIDE DEF k
  <2>8. a = HeapStart + k * N /\ k * N \in Nat /\ (k + 1) * N = k * N + N
    BY <1>1, <1>3, <2>4, <2>7
  <2>9. (k + 1) * N <= HeapPages
    BY <1>1, <2>5, <2>8
  <2>10. k \in 0..(q - 1)
    BY <1>4, <2>7, <2>9
  <2>11. g[k] \in 1..len /\ list[g[k]] = list[i]
    BY <1>6, <2>8, <2>10 DEF a
  <2>12. g[k] = i
    BY <1>2, <2>11
  <2> QED  BY <2>10, <2>12
<1>10. ExistsBijection(0..(q - 1), 1..len)
  <2>1. g \in Injection(0..(q - 1), 1..len)
    BY <1>7, <1>8 DEF Injection, IsInjective
  <2>2. g \in Surjection(0..(q - 1), 1..len)
    BY <1>7, <1>9 DEF Surjection
  <2> QED  BY <2>1, <2>2 DEF ExistsBijection, Bijection
<1> HIDE DEF len
<1>11. /\ IsFiniteSet(0..(q - 1)) /\ Cardinality(0..(q - 1)) = q
       /\ Cardinality(1..len) = len
  <2>1. q - 1 \in Int /\ (q - 1) - 0 + 1 = q /\ len - 1 + 1 = len /\ len \in Int
    BY <1>2, <1>4
  <2>2. /\ IsFiniteSet(0..(q - 1))
        /\ Cardinality(0..(q - 1)) = IF 0 > q - 1 THEN 0 ELSE (q - 1) - 0 + 1
    BY <2>1, FS_Interval
  <2>3. Cardinality(1..len) = IF 1 > len THEN 0 ELSE len - 1 + 1
    BY <2>1, FS_Interval
  <2> QED  BY <1>2, <1>4, <2>1, <2>2, <2>3
<1>12. Cardinality(1..len) = Cardinality(0..(q - 1))
  BY <1>10, <1>11, FS_Bijection
<1> QED  BY <1>11, <1>12 DEF q, len

\* If the heap starts at a multiple of the largest block, then after any sequence
\* of kalloc, kfree_order and kfree_size that has given everything back there are
\* again as many blocks of MAX_ORDER as init_memory made, for every size of the
\* heap. (buddy_merge shows that the alignment is needed.)
THEOREM MergesBack == Spec => [](AlignedHeap => CoalescesBack)
<1> DEFINE GInv == AlignedHeap => GridInv
<1>1. Init => GInv
  BY GridInit
<1>2. Inv /\ GInv /\ [Next]_vars => GInv'
  BY GridStep DEF AlignedHeap
<1>3. Inv /\ GInv /\ NoFreeBuddies => (AlignedHeap => CoalescesBack)
  BY ChunksCounted DEF CoalescesBack
<1> HIDE DEF GInv
<1> QED  BY <1>1, <1>2, <1>3, Invariance, AllMerged, PTL DEF Spec
=============================================================================
