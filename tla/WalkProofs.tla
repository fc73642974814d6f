----------------------------- MODULE WalkProofs -----------------------------
(***************************************************************************)
(* What map_page, with the pages kalloc hands out, does to a memory that    *)
(* holds any number of page tables, for every radix. PageProofs and         *)
(* ProcessProofs draw the conclusions.                                        *)
(***************************************************************************)
EXTENDS PageWalk, SequenceTheorems, TLAPS

-----------------------------------------------------------------------------
(* Addresses.                                                              *)

LEMMA Quotient ==
  ASSUME NEW n \in Nat \ {0}, NEW x \in Nat
  PROVE  x \div n \in Nat /\ x % n \in 0..(n - 1) /\ x = n * (x \div n) + (x % n)
OBVIOUS

LEMMA ProductGrows ==
  ASSUME NEW n \in Nat, NEW a \in Nat, NEW b \in Nat, a < b
  PROVE  n * a + n <= n * b
<1>1. n * b = n * a + n * (b - a)
  OBVIOUS
<1>2. n * (b - a) >= n
  OBVIOUS
<1> QED  BY <1>1, <1>2

\* There is one way to divide with a remainder.
LEMMA OneQuotient ==
  ASSUME NEW n \in Nat \ {0}, NEW a \in Nat, NEW b \in Nat,
         NEW r \in 0..(n - 1), NEW s \in 0..(n - 1), n * a + r = n * b + s
  PROVE  a = b /\ r = s
<1>1. n * a \in Nat /\ n * b \in Nat
  OBVIOUS
<1>2. CASE a < b
  <2>1. n * a + n <= n * b
    BY <1>2, ProductGrows
  <2> QED  BY <1>1, <2>1
<1>3. CASE b < a
  <2>1. n * b + n <= n * a
    BY <1>3, ProductGrows
  <2> QED  BY <1>1, <2>1
<1> QED  BY <1>1, <1>2, <1>3

LEMMA ProductQuotient ==
  ASSUME NEW n \in Nat \ {0}, NEW a \in Nat
  PROVE  (a * n) \div n = a /\ (a * n) % n = 0 /\ a * n \in Nat
<1> DEFINE x == a * n
<1>1. x \in Nat /\ x = n * a + 0
  OBVIOUS
<1> HIDE DEF x
<1>2. x \div n \in Nat /\ x % n \in 0..(n - 1) /\ x = n * (x \div n) + (x % n)
  BY <1>1, Quotient
<1>3. x \div n = a /\ x % n = 0
  BY <1>1, <1>2, OneQuotient
<1> QED  BY <1>1, <1>3 DEF x

\* Dividing twice.
LEMMA QuotientTwice ==
  ASSUME NEW m \in Nat \ {0}, NEW n \in Nat \ {0}, NEW x \in Nat
  PROVE  x \div (m * n) = (x \div m) \div n
<1> DEFINE a == x \div m
           r == x % m
           b == a \div n
           s == a % n
           mn == m * n
           q == x \div mn
           t == x % mn
<1>1. a \in Nat /\ r \in 0..(m - 1) /\ x = m * a + r
  BY Quotient
<1> HIDE DEF a, r
<1>2. b \in Nat /\ s \in 0..(n - 1) /\ a = n * b + s
  BY <1>1, Quotient
<1> HIDE DEF b, s
<1>3. mn \in Nat \ {0}
  OBVIOUS
<1>4. mn * b = m * (n * b) /\ m * a = m * (n * b) + m * s
  BY <1>1, <1>2
<1>5. m * s + m <= mn
  <2>1. s < n /\ s \in Nat
    BY <1>2
  <2> QED  BY <2>1, ProductGrows
<1>6. m * s \in Nat /\ m * (n * b) \in Nat /\ m * a \in Nat
  BY <1>1, <1>2
<1> HIDE DEF mn
<1>7. m * s + r \in 0..(mn - 1)
  BY <1>1, <1>3, <1>5, <1>6
<1>8. x = mn * b + (m * s + r)
  BY <1>1, <1>2, <1>4, <1>6
<1>9. q \in Nat /\ t \in 0..(mn - 1) /\ x = mn * q + t
  BY <1>3, Quotient
<1> HIDE DEF q, t
<1>10. q = b
  BY <1>2, <1>3, <1>7, <1>8, <1>9, OneQuotient
<1> QED  BY <1>10 DEF q, b, a, mn

\* The three indices of an address are digits of its page number.
LEMMA Digits ==
  ASSUME NEW va \in Nat
  PROVE  LET v == va \div Radix IN
         /\ vpn0(va) = v % Radix
         /\ vpn1(va) = (v \div Radix) % Radix
         /\ vpn2(va) = ((v \div Radix) \div Radix) % Radix
         /\ vpn0(va) \in Index /\ vpn1(va) \in Index /\ vpn2(va) \in Index
<1> DEFINE R == Radix
           v == va \div R
<1>1. R \in Nat \ {0} /\ R * R \in Nat \ {0} /\ R * R * R \in Nat \ {0}
  BY PageWalkAssumption
<1>2. va \div (R * R) = v \div R
  BY <1>1, QuotientTwice
<1>3. va \div (R * R * R) = (va \div (R * R)) \div R
  <2> DEFINE n == R * R
  <2>1. n \in Nat \ {0}
    BY <1>1
  <2> HIDE DEF n
  <2>2. va \div (n * R) = (va \div n) \div R
    BY <1>1, <2>1, QuotientTwice
  <2> QED  BY <2>2 DEF n
<1>4. v \in Nat
  BY <1>1, Quotient
<1>5. v \div R \in Nat
  BY <1>1, <1>4, Quotient
<1>6. (v \div R) \div R \in Nat
  BY <1>1, <1>5, Quotient
<1>7. /\ v % R \in 0..(R - 1) /\ (v \div R) % R \in 0..(R - 1)
      /\ ((v \div R) \div R) % R \in 0..(R - 1)
  BY <1>1, <1>4, <1>5, <1>6, Quotient
<1> QED
  BY <1>2, <1>3, <1>7 DEF vpn0, vpn1, vpn2, PAGE_SIZE, Index

\* A number of three digits is not longer than that.
LEMMA TopDigit ==
  ASSUME NEW v \in 0..(Radix * Radix * Radix - 1)
  PROVE  ((v \div Radix) \div Radix) % Radix = (v \div Radix) \div Radix
<1> DEFINE R == Radix
           n == R * R
           q == v \div n
           r == v % n
<1>1. R \in Nat \ {0} /\ n \in Nat \ {0} /\ R * R * R = n * R /\ n * R \in Nat
  BY PageWalkAssumption
<1>2. (v \div R) \div R = q
  BY <1>1, QuotientTwice
<1>3. v \in Nat /\ v < n * R
  BY <1>1
<1>4. q \in Nat /\ r \in 0..(n - 1) /\ v = n * q + r
  BY <1>1, <1>3, Quotient
<1> HIDE DEF q, r, n
<1>5. ~ (R < q)
  <2> SUFFICES ASSUME R < q PROVE FALSE
    OBVIOUS
  <2>1. n * R + n <= n * q
    BY <1>1, <1>4, ProductGrows
  <2>2. n * q \in Nat /\ n * R \in Nat
    BY <1>1, <1>4
  <2> QED  BY <1>1, <1>3, <1>4, <2>1, <2>2
<1>6. q # R
  <2>1. n * q \in Nat
    BY <1>1, <1>4
  <2> QED  BY <1>1, <1>3, <1>4, <2>1
<1>7. q \in 0..(R - 1)
  BY <1>1, <1>4, <1>5, <1>6
<1>8. q % R = q
  BY <1>1, <1>7
<1> QED  BY <1>2, <1>8

\* No two virtual pages have the same three indices.
LEMMA OnePage ==
  ASSUME NEW v \in 0..(Radix * Radix * Radix - 1), NEW w \in 0..(Radix * Radix * Radix - 1),
         vpn0(v * PAGE_SIZE) = vpn0(w * PAGE_SIZE),
         vpn1(v * PAGE_SIZE) = vpn1(w * PAGE_SIZE),
         vpn2(v * PAGE_SIZE) = vpn2(w * PAGE_SIZE)
  PROVE  v = w
<1> DEFINE R == Radix
<1>1. R \in Nat \ {0} /\ v \in Nat /\ w \in Nat /\ PAGE_SIZE = R
  BY PageWalkAssumption DEF PAGE_SIZE
<1>2. /\ (v * R) \div R = v /\ v * R \in Nat
      /\ (w * R) \div R = w /\ w * R \in Nat
  BY <1>1, ProductQuotient
<1>3. /\ v % R = w % R /\ (v \div R) % R = (w \div R) % R
      /\ ((v \div R) \div R) % R = ((w \div R) \div R) % R
  BY <1>1, <1>2, Digits
<1>4. (v \div R) \div R = (w \div R) \div R
  BY <1>3, TopDigit
<1>5. v \div R \in Nat /\ w \div R \in Nat
  BY <1>1, Quotient
<1>6. v \div R = w \div R
  <2> DEFINE a == v \div R
             b == w \div R
  <2>1. a \in Nat /\ b \in Nat /\ a \div R = b \div R /\ a % R = b % R
    BY <1>3, <1>4, <1>5
  <2> HIDE DEF a, b
  <2>2. a = R * (a \div R) + (a % R) /\ b = R * (b \div R) + (b % R)
    BY <1>1, <2>1, Quotient
  <2>3. a = b
    BY <2>1, <2>2
  <2> QED  BY <2>3 DEF a, b
<1>7. v = R * (v \div R) + (v % R) /\ w = R * (w \div R) + (w % R)
  BY <1>1, Quotient
<1> QED  BY <1>3, <1>6, <1>7

\* An entry for a page whose number PPN_MASK keeps.
LEMMA MadePTE ==
  ASSUME NEW p \in 0..(PpnLimit - 1), NEW flags
  PROVE  MakePTE(p * PAGE_SIZE, flags) = [ppn |-> p, flags |-> flags \cup {"V"}]
<1>1. Radix \in Nat \ {0} /\ PpnLimit \in Nat \ {0} /\ p \in Nat
  BY PageWalkAssumption
<1>2. (p * Radix) \div Radix = p
  BY <1>1, ProductQuotient
<1>3. p % PpnLimit = p
  BY <1>1
<1> QED  BY <1>2, <1>3 DEF MakePTE, PAGE_SIZE

-----------------------------------------------------------------------------
(* Page tables are trees. Every page of memory has a place: it is free, or  *)
(* the table of a space at the end of a path of indices, or it holds data.  *)

Free == <<"free", 0, 0, 0>>

RootAt(s) == <<"root", s, 0, 0>>

MidAt(s, i) == <<"mid", s, i, 0>>

LowAt(s, i, j) == <<"low", s, i, j>>

DataAt(s, k) == <<"data", s, k, 0>>

Words == [ppn : Nat, flags : SUBSET Flags]

\* An entry leads nowhere, or to the table at that place.
LinksTo(word, D, at, place) ==
  \/ word = ZeroWord
  \/ word.flags = {"V"} /\ word.ppn \in D /\ at[word.ppn] = place

\* Every page has a place.
IsPlacing(at, D) == at = [p \in D |-> at[p]]

\* D: the pages of memory, S: the names of the spaces.
Tables(mem, D, S, at) ==
  /\ mem \in [D -> [Index -> Words]]
  /\ IsPlacing(at, D)
  /\ \A t \in D, s \in S : at[t] = RootAt(s) =>
       \A i \in Index : LinksTo(mem[t][i], D, at, MidAt(s, i))
  /\ \A t \in D, s \in S, i \in Index : at[t] = MidAt(s, i) =>
       \A j \in Index : LinksTo(mem[t][j], D, at, LowAt(s, i, j))
  /\ \A t \in D, s \in S, i, j \in Index : at[t] = LowAt(s, i, j) =>
       \A k \in Index : mem[t][k] = ZeroWord \/ Leaf(mem[t][k])

\* The pages kalloc has yet to hand out.
FreePages(avail, D, at) ==
  /\ avail \in Seq({p \in D : p \in 1..(PpnLimit - 1)})
  /\ \A k \in 1..Len(avail) : at[avail[k]] = Free
  /\ \A k, l \in 1..Len(avail) : avail[k] = avail[l] => k = l

Tree(st, D, S, at) ==
  /\ st = [mem |-> st.mem, avail |-> st.avail, down |-> st.down]
  /\ st.down \in BOOLEAN
  /\ Tables(st.mem, D, S, at)
  /\ FreePages(st.avail, D, at)

\* The walk, by indices.
WalkAt(mem, r, a, b, c) ==
  LET pte2 == mem[r][a]
      pte1 == mem[pte2.ppn][b]
      pte0 == mem[pte1.ppn][c]
  IN  IF Branch(pte2) /\ Branch(pte1) /\ Leaf(pte0) THEN pte0 ELSE Unmapped

LEMMA WalkByIndex ==
  ASSUME NEW mem, NEW r, NEW va
  PROVE  Walk(mem, r, va) = WalkAt(mem, r, vpn2(va), vpn1(va), vpn0(va))
BY DEF Walk, WalkAt

SameWalks(mem, mem2, D, S, at) ==
  \A s \in S, r \in D : at[r] = RootAt(s) =>
    \A a, b, c \in Index : WalkAt(mem2, r, a, b, c) = WalkAt(mem, r, a, b, c)

LEMMA PlacesDiffer ==
  /\ \A s, i : RootAt(s) # Free /\ MidAt(s, i) # Free /\ DataAt(s, i) # Free
  /\ \A s, i, j : LowAt(s, i, j) # Free
  /\ \A s, t, i : RootAt(s) # MidAt(t, i) /\ RootAt(s) # DataAt(t, i)
  /\ \A s, t, i, j : RootAt(s) # LowAt(t, i, j) /\ MidAt(s, i) # DataAt(t, j)
  /\ \A s, t, i, j, k : MidAt(s, i) # LowAt(t, j, k) /\ DataAt(s, i) # LowAt(t, j, k)
BY DEF Free, RootAt, MidAt, LowAt, DataAt

LEMMA OnePlace ==
  /\ \A s, t : RootAt(s) = RootAt(t) => s = t
  /\ \A s, t, i, j : MidAt(s, i) = MidAt(t, j) => s = t /\ i = j
  /\ \A s, t, i, j : DataAt(s, i) = DataAt(t, j) => s = t /\ i = j
  /\ \A s, t, i, j, k, l : LowAt(s, i, j) = LowAt(t, k, l) => s = t /\ i = k /\ j = l
BY DEF RootAt, MidAt, LowAt, DataAt

\* A zero word is neither a branch nor a leaf; the two exclude each other.
LEMMA Kinds ==
  /\ ~ Branch(ZeroWord) /\ ~ Leaf(ZeroWord) /\ ~ Valid(ZeroWord)
  /\ \A w : w.flags = {"V"} => Branch(w) /\ ~ Leaf(w) /\ Valid(w)
  /\ \A w : Leaf(w) => Valid(w) /\ w # Unmapped /\ ~ Branch(w)
BY DEF Branch, Leaf, Valid, ZeroWord, Unmapped

\* Where the walks of a space lead.
Leads(mem, D, at, s, r, a, b) ==
  LET t1 == mem[r][a].ppn
      t0 == mem[t1][b].ppn
  IN  /\ Branch(mem[r][a]) => t1 \in D /\ at[t1] = MidAt(s, a)
      /\ Branch(mem[r][a]) /\ Branch(mem[t1][b]) => t0 \in D /\ at[t0] = LowAt(s, a, b)

LEMMA Path ==
  ASSUME NEW D, NEW S, NEW mem, NEW at, Tables(mem, D, S, at),
         NEW s \in S, NEW r \in D, at[r] = RootAt(s),
         NEW a \in Index, NEW b \in Index
  PROVE  Leads(mem, D, at, s, r, a, b)
<1> DEFINE t1 == mem[r][a].ppn
<1>1. LinksTo(mem[r][a], D, at, MidAt(s, a))
  BY DEF Tables
<1>2. Branch(mem[r][a]) => t1 \in D /\ at[t1] = MidAt(s, a)
  BY <1>1, Kinds DEF LinksTo
<1> HIDE DEF t1
<1>3. ASSUME t1 \in D, at[t1] = MidAt(s, a)
      PROVE  LinksTo(mem[t1][b], D, at, LowAt(s, a, b))
  BY <1>3 DEF Tables
<1>4. ASSUME t1 \in D, at[t1] = MidAt(s, a), Branch(mem[t1][b])
      PROVE  mem[t1][b].ppn \in D /\ at[mem[t1][b].ppn] = LowAt(s, a, b)
  BY <1>3, <1>4, Kinds DEF LinksTo
<1> QED  BY <1>2, <1>4 DEF Leads, t1

\* The place below entry i of a table.
Below(up, s, i, place) ==
  \/ up = RootAt(s) /\ place = MidAt(s, i)
  \/ \E h \in Index : up = MidAt(s, h) /\ place = LowAt(s, h, i)

\* The page p is cleared and linked.
Linked(mem, p, t, i) ==
  [[mem EXCEPT ![p] = ZeroPage] EXCEPT ![t][i] = [ppn |-> p, flags |-> {"V"}]]

\* A free page becomes the table below an entry that led nowhere.
LEMMA NewTable ==
  ASSUME NEW D, NEW S, NEW mem, NEW at, Tables(mem, D, S, at),
         NEW p \in D, p \in Nat, at[p] = Free,
         NEW t \in D, NEW s \in S, NEW i \in Index, NEW place, Below(at[t], s, i, place),
         ~ Valid(mem[t][i])
  PROVE  /\ Tables(Linked(mem, p, t, i), D, S, [at EXCEPT ![p] = place])
         /\ SameWalks(mem, Linked(mem, p, t, i), D, S, at)
         /\ Linked(mem, p, t, i)[t][i] = [ppn |-> p, flags |-> {"V"}]
<1> DEFINE mem2 == Linked(mem, p, t, i)
           link == [ppn |-> p, flags |-> {"V"}]
           at2 == [at EXCEPT ![p] = place]
<1>1. p # t /\ place # Free
  BY PlacesDiffer DEF Below
<1>2. mem \in [D -> [Index -> Words]] /\ at = [q \in D |-> at[q]]
  BY DEF Tables, IsPlacing
<1>3. ZeroPage \in [Index -> Words] /\ link \in Words /\ \A j \in Index : ZeroPage[j] = ZeroWord
  BY DEF ZeroPage, ZeroWord, Words, Flags
<1>4. link.ppn = p /\ link.flags = {"V"} /\ Branch(link) /\ ~ Leaf(link)
  BY Kinds
<1> HIDE DEF link
<1>5. /\ mem2 \in [D -> [Index -> Words]]
      /\ mem2[p] = ZeroPage
      /\ mem2[t][i] = link
      /\ \A j \in Index : j # i => mem2[t][j] = mem[t][j]
      /\ \A q \in D : q # p /\ q # t => mem2[q] = mem[q]
  BY <1>1, <1>2, <1>3 DEF link, Linked
<1> HIDE DEF mem2
<1>6. at2 = [q \in D |-> at2[q]] /\ at2[p] = place /\ \A q \in D : q # p => at2[q] = at[q]
  BY <1>2
<1> HIDE DEF at2
<1>7. ASSUME NEW w, NEW pl, pl # Free, LinksTo(w, D, at, pl)
      PROVE  LinksTo(w, D, at2, pl)
  BY <1>6, <1>7 DEF LinksTo
<1>8. ASSUME NEW pl PROVE LinksTo(ZeroWord, D, at2, pl)
  BY DEF LinksTo
<1>9. LinksTo(link, D, at2, place)
  BY <1>4, <1>6 DEF LinksTo
<1>10. ASSUME NEW q \in D, NEW x \in S, at2[q] = RootAt(x), NEW j \in Index
       PROVE  LinksTo(mem2[q][j], D, at2, MidAt(x, j))
  <2>1. CASE q = p
    BY <1>3, <1>5, <1>8, <2>1
  <2>2. CASE q = t /\ j = i
    <3>1. at[t] = RootAt(x)
      BY <1>1, <1>6, <1>10, <2>2
    <3>2. place = MidAt(x, j)
      BY <2>2, <3>1, PlacesDiffer, OnePlace DEF Below
    <3> QED  BY <1>5, <1>9, <2>2, <3>2
  <2>3. CASE q # p /\ ~ (q = t /\ j = i)
    <3>1. mem2[q][j] = mem[q][j] /\ at[q] = RootAt(x)
      BY <1>5, <1>6, <1>10, <2>3
    <3>2. LinksTo(mem[q][j], D, at, MidAt(x, j))
      BY <1>10, <3>1 DEF Tables
    <3> QED  BY <1>7, <3>1, <3>2, PlacesDiffer
  <2> QED  BY <2>1, <2>2, <2>3
<1>11. ASSUME NEW q \in D, NEW x \in S, NEW h \in Index, at2[q] = MidAt(x, h), NEW j \in Index
       PROVE  LinksTo(mem2[q][j], D, at2, LowAt(x, h, j))
  <2>1. CASE q = p
    BY <1>3, <1>5, <1>8, <2>1
  <2>2. CASE q = t /\ j = i
    <3>1. at[t] = MidAt(x, h)
      BY <1>1, <1>6, <1>11, <2>2
    <3>2. place = LowAt(x, h, j)
      BY <2>2, <3>1, PlacesDiffer, OnePlace DEF Below
    <3> QED  BY <1>5, <1>9, <2>2, <3>2
  <2>3. CASE q # p /\ ~ (q = t /\ j = i)
    <3>1. mem2[q][j] = mem[q][j] /\ at[q] = MidAt(x, h)
      BY <1>5, <1>6, <1>11, <2>3
    <3>2. LinksTo(mem[q][j], D, at, LowAt(x, h, j))
      BY <1>11, <3>1 DEF Tables
    <3> QED  BY <1>7, <3>1, <3>2, PlacesDiffer
  <2> QED  BY <2>1, <2>2, <2>3
<1>12. ASSUME NEW q \in D, NEW x \in S, NEW h \in Index, NEW j \in Index,
              at2[q] = LowAt(x, h, j), NEW k \in Index
       PROVE  mem2[q][k] = ZeroWord \/ Leaf(mem2[q][k])
  <2>1. CASE q = p
    BY <1>3, <1>5, <2>1
  <2>2. CASE q # p
    <3>1. at[q] = LowAt(x, h, j)
      BY <1>6, <1>12, <2>2
    <3>2. q # t
      BY <3>1, PlacesDiffer DEF Below
    <3>3. mem2[q] = mem[q]
      BY <1>5, <2>2, <3>2
    <3> QED  BY <1>12, <3>1, <3>3 DEF Tables
  <2> QED  BY <2>1, <2>2
<1>13. Tables(mem2, D, S, at2)
  BY <1>5, <1>6, <1>10, <1>11, <1>12 DEF Tables, IsPlacing
<1>14. ASSUME NEW x \in S, NEW r \in D, at[r] = RootAt(x),
              NEW a \in Index, NEW b \in Index, NEW c \in Index
       PROVE  WalkAt(mem2, r, a, b, c) = WalkAt(mem, r, a, b, c)
  <2> DEFINE t1 == mem[r][a].ppn
             t0 == mem[t1][b].ppn
  <2>1. r # p
    BY <1>14, PlacesDiffer
  <2>2. /\ Branch(mem[r][a]) => t1 \in D /\ at[t1] = MidAt(x, a)
        /\ Branch(mem[r][a]) /\ Branch(mem[t1][b]) => t0 \in D /\ at[t0] = LowAt(x, a, b)
    <3>1. Leads(mem, D, at, x, r, a, b)
      BY <1>14, Path
    <3> QED  BY <3>1 DEF Leads
  <2> HIDE DEF t1, t0
  <2>3. ~ Branch(mem[t][i]) /\ ~ Branch(ZeroWord) /\ ~ Leaf(ZeroWord)
    BY Kinds DEF Branch
  <2>4. CASE r = t /\ a = i
    <3>1. mem2[r][a] = link /\ mem2[p][b] = ZeroWord
      BY <1>3, <1>5, <2>4
    <3>2. WalkAt(mem2, r, a, b, c) = Unmapped
      BY <1>4, <2>3, <3>1 DEF WalkAt
    <3>3. WalkAt(mem, r, a, b, c) = Unmapped
      BY <2>3, <2>4 DEF WalkAt
    <3> QED  BY <3>2, <3>3
  <2>5. CASE ~ (r = t /\ a = i)
    <3>1. mem2[r][a] = mem[r][a]
      BY <1>5, <2>1, <2>5
    <3>2. CASE ~ Branch(mem[r][a])
      BY <3>1, <3>2 DEF WalkAt
    <3>3. CASE Branch(mem[r][a]) /\ t1 = t /\ b = i
      <4>1. mem2[t1][b] = link /\ mem2[p][c] = ZeroWord /\ mem2[r][a].ppn = t1
        BY <1>3, <1>5, <3>1, <3>3 DEF t1
      <4>2. WalkAt(mem2, r, a, b, c) = Unmapped
        BY <1>4, <2>3, <4>1 DEF WalkAt
      <4>3. WalkAt(mem, r, a, b, c) = Unmapped
        BY <2>3, <3>3 DEF WalkAt, t1
      <4> QED  BY <4>2, <4>3
    <3>4. CASE Branch(mem[r][a]) /\ ~ (t1 = t /\ b = i)
      <4>1. t1 \in D /\ t1 # p
        BY <2>2, <3>4, PlacesDiffer
      <4>2. mem2[t1][b] = mem[t1][b] /\ mem2[r][a].ppn = t1
        BY <1>5, <3>1, <3>4, <4>1 DEF t1
      <4>3. CASE ~ Branch(mem[t1][b])
        BY <3>1, <4>2, <4>3 DEF WalkAt, t1
      <4>4. CASE Branch(mem[t1][b])
        <5>1. t0 \in D /\ at[t0] = LowAt(x, a, b)
          BY <2>2, <3>4, <4>4
        <5>2. t0 # p /\ t0 # t
          BY <5>1, PlacesDiffer DEF Below
        <5>3. mem2[t0] = mem[t0]
          BY <1>5, <5>1, <5>2
        <5>4. mem[r][a].ppn = t1 /\ mem[t1][b].ppn = t0
          BY DEF t1, t0
        <5>5. mem2[mem2[t1][b].ppn][c] = mem[t0][c]
          BY <4>2, <5>3, <5>4
        <5> QED  BY <3>1, <4>2, <5>4, <5>5 DEF WalkAt
      <4> QED  BY <4>3, <4>4
    <3> QED  BY <3>2, <3>3, <3>4
  <2> QED  BY <2>4, <2>5
<1>15. SameWalks(mem, mem2, D, S, at)
  BY <1>14 DEF SameWalks
<1> QED  BY <1>5, <1>13, <1>15 DEF link, at2, mem2

\* The first free page gets a place.
LEMMA FewerFreePages ==
  ASSUME NEW D, NEW at, NEW avail, FreePages(avail, D, at), avail # << >>,
         IsPlacing(at, D), NEW place
  PROVE  /\ Head(avail) \in D /\ Head(avail) \in 1..(PpnLimit - 1) /\ at[Head(avail)] = Free
         /\ FreePages(Tail(avail), D, [at EXCEPT ![Head(avail)] = place])
<1> DEFINE P == {p \in D : p \in 1..(PpnLimit - 1)}
           p == Head(avail)
           at2 == [at EXCEPT ![p] = place]
           rest == Tail(avail)
<1>1. avail \in Seq(P) /\ Len(avail) \in Nat /\ Len(avail) # 0
  BY EmptySeq, LenProperties DEF FreePages
<1>2. /\ rest \in Seq(P) /\ Len(rest) = Len(avail) - 1 /\ p = avail[1]
      /\ \A k \in 1..Len(rest) : rest[k] = avail[k + 1]
  BY <1>1, HeadTailProperties
<1>3. 1 \in 1..Len(avail) /\ avail[1] \in P
  BY <1>1, ElementOfSeq
<1>4. p \in D /\ p \in 1..(PpnLimit - 1) /\ at[p] = Free
  BY <1>2, <1>3 DEF FreePages
<1> HIDE DEF p, rest, P
<1>5. ASSUME NEW k \in 1..Len(rest)
      PROVE  /\ k + 1 \in 1..Len(avail) /\ rest[k] = avail[k + 1]
             /\ rest[k] # p /\ rest[k] \in D /\ at2[rest[k]] = Free
  <2>1. k \in Nat /\ k + 1 \in 1..Len(avail) /\ k + 1 # 1 /\ rest[k] = avail[k + 1]
    BY <1>1, <1>2, <1>5
  <2>2. avail[k + 1] # avail[1] /\ at[avail[k + 1]] = Free
    BY <1>3, <2>1 DEF FreePages
  <2>3. avail[k + 1] \in D
    BY <1>1, <2>1, ElementOfSeq DEF P
  <2> QED  BY <1>2, <2>1, <2>2, <2>3 DEF IsPlacing
<1>6. ASSUME NEW k \in 1..Len(rest), NEW l \in 1..Len(rest), rest[k] = rest[l]
      PROVE  k = l
  <2>1. k + 1 = l + 1
    BY <1>5, <1>6 DEF FreePages
  <2> QED  BY <1>1, <1>2, <2>1
<1>7. FreePages(rest, D, at2)
  BY <1>2, <1>5, <1>6 DEF FreePages, P
<1> QED  BY <1>4, <1>7 DEF p, rest

\* kalloc when there is a page.
LEMMA KallocTakes ==
  ASSUME NEW D, NEW S, NEW at, NEW st, Tree(st, D, S, at), ~ st.down, st.avail # << >>
  PROVE  LET p == Head(st.avail) IN
         /\ Kalloc(st) = [mem |-> [st.mem EXCEPT ![p] = ZeroPage],
                          avail |-> Tail(st.avail), down |-> FALSE]
         /\ p \in D /\ p \in 1..(PpnLimit - 1) /\ p \in Nat /\ at[p] = Free
<1>1. /\ Head(st.avail) \in D /\ Head(st.avail) \in 1..(PpnLimit - 1)
      /\ at[Head(st.avail)] = Free
  <2>1. FreePages(st.avail, D, at) /\ IsPlacing(at, D)
    BY DEF Tree, Tables
  <2>2. /\ Head(st.avail) \in D /\ Head(st.avail) \in 1..(PpnLimit - 1)
        /\ at[Head(st.avail)] = Free
        /\ FreePages(Tail(st.avail), D, [at EXCEPT ![Head(st.avail)] = Free])
    BY <2>1, FewerFreePages
  <2> QED  BY <2>2
<1>2. st = [mem |-> st.mem, avail |-> st.avail, down |-> FALSE]
  BY DEF Tree
<1>3. Kalloc(st) = [mem |-> [st.mem EXCEPT ![Head(st.avail)] = ZeroPage],
                    avail |-> Tail(st.avail), down |-> FALSE]
  <2> DEFINE m == st.mem
             av == st.avail
  <2>1. st = [mem |-> m, avail |-> av, down |-> FALSE] /\ av # << >>
    BY <1>2
  <2> HIDE DEF m, av
  <2>2. Kalloc([mem |-> m, avail |-> av, down |-> FALSE]) =
          [mem |-> [m EXCEPT ![Head(av)] = ZeroPage], avail |-> Tail(av), down |-> FALSE]
    BY <2>1 DEF Kalloc
  <2> QED  BY <2>1, <2>2 DEF m, av
<1> QED  BY <1>1, <1>3

LEMMA KallocFails ==
  ASSUME NEW D, NEW S, NEW at, NEW st, Tree(st, D, S, at), st.avail = << >>
  PROVE  /\ Kalloc(st).down /\ Kalloc(st).mem = st.mem /\ Kalloc(st).avail = << >>
         /\ Tree(Kalloc(st), D, S, at)
<1>1. Kalloc(st) = [mem |-> st.mem, avail |-> st.avail, down |-> TRUE]
  BY DEF Tree, Kalloc
<1> QED  BY <1>1 DEF Tree

\* What a page is for does not change while map_page runs, nor what is in it
\* when it holds data; the pages it takes become tables.
Kept(mem, mem2, D, at, at2) ==
  /\ \A p \in D : at[p] # Free => at2[p] = at[p]
  /\ \A p \in D : at2[p] # at[p] => \E s, i, j : at2[p] = MidAt(s, i) \/ at2[p] = LowAt(s, i, j)
  /\ \A p \in D : \A s, k : at[p] = DataAt(s, k) => mem2[p] = mem[p]

BranchesStay(mem, mem2, D, at) ==
  \A p \in D, i \in Index : at[p] # Free /\ Branch(mem[p][i]) => mem2[p][i] = mem[p][i]

\* Two steps that keep the placed pages keep them together.
LEMMA KeptTwice ==
  ASSUME NEW D, NEW mem, NEW mem1, NEW mem2, NEW at, NEW at1, NEW at2,
         Kept(mem, mem1, D, at, at1), Kept(mem1, mem2, D, at1, at2)
  PROVE  Kept(mem, mem2, D, at, at2)
<1>1. ASSUME NEW p \in D, at[p] # Free PROVE at1[p] = at[p] /\ at2[p] = at[p]
  BY <1>1 DEF Kept
<1>2. ASSUME NEW p \in D, at2[p] # at[p]
      PROVE  \E s, i, j : at2[p] = MidAt(s, i) \/ at2[p] = LowAt(s, i, j)
  <2>1. CASE at2[p] # at1[p]
    BY <2>1 DEF Kept
  <2>2. CASE at2[p] = at1[p]
    BY <1>2, <2>2 DEF Kept
  <2> QED  BY <2>1, <2>2
<1>3. ASSUME NEW p \in D, NEW s, NEW k, at[p] = DataAt(s, k) PROVE mem2[p] = mem[p]
  <2>1. at1[p] = DataAt(s, k)
    BY <1>1, <1>3, PlacesDiffer
  <2> QED  BY <1>3, <2>1 DEF Kept
<1> QED  BY <1>1, <1>2, <1>3 DEF Kept

\* What EnsureTable for entry i of table t leaves behind: the same trees, with a
\* table below the entry unless kalloc had no page left.
TableMade(st, n, D, S, at, at2, t, i, place) ==
  /\ Tree(n, D, S, at2)
  /\ Kept(st.mem, n.mem, D, at, at2)
  /\ SameWalks(st.mem, n.mem, D, S, at)
  /\ BranchesStay(st.mem, n.mem, D, at)
  /\ n.down => n.avail = << >>
  /\ ~ n.down => /\ Branch(n.mem[t][i])
                 /\ n.mem[t][i].ppn \in D
                 /\ at2[n.mem[t][i].ppn] = place

LEMMA EnsureTableKeeps ==
  ASSUME NEW D, NEW S, NEW at, NEW st, Tree(st, D, S, at), ~ st.down,
         NEW t \in D, NEW s \in S, NEW i \in Index, NEW place, Below(at[t], s, i, place)
  PROVE  \E at2 : TableMade(st, EnsureTable(st, t, i), D, S, at, at2, t, i, place)
<1> DEFINE n == EnsureTable(st, t, i)
<1>1. LinksTo(st.mem[t][i], D, at, place)
  BY DEF Tree, Tables, Below
<1>2. /\ Kept(st.mem, st.mem, D, at, at) /\ SameWalks(st.mem, st.mem, D, S, at)
      /\ BranchesStay(st.mem, st.mem, D, at)
  BY DEF Kept, SameWalks, BranchesStay
<1>3. CASE Valid(st.mem[t][i])
  <2>1. n = st
    BY <1>3 DEF EnsureTable
  <2>2. Branch(st.mem[t][i]) /\ st.mem[t][i].ppn \in D /\ at[st.mem[t][i].ppn] = place
    BY <1>1, <1>3, Kinds DEF LinksTo
  <2>3. TableMade(st, n, D, S, at, at, t, i, place)
    BY <1>2, <2>1, <2>2 DEF TableMade
  <2> QED  BY <2>3
<1>4. CASE ~ Valid(st.mem[t][i]) /\ st.avail = << >>
  <2>1. n = Kalloc(st) /\ n.down
    BY <1>4, KallocFails DEF EnsureTable
  <2>2. n.mem = st.mem /\ n.avail = << >> /\ Tree(n, D, S, at)
    BY <1>4, <2>1, KallocFails
  <2>3. TableMade(st, n, D, S, at, at, t, i, place)
    <3> HIDE DEF n
    <3> QED  BY <1>2, <2>1, <2>2 DEF TableMade
  <2> QED  BY <2>3
<1>5. CASE ~ Valid(st.mem[t][i]) /\ st.avail # << >>
  <2> DEFINE p == Head(st.avail)
             at2 == [at EXCEPT ![p] = place]
             link == [ppn |-> p, flags |-> {"V"}]
             m1 == [st.mem EXCEPT ![p] = ZeroPage]
             mem2 == [m1 EXCEPT ![t][i] = link]
  <2>1. /\ Kalloc(st) = [mem |-> m1, avail |-> Tail(st.avail), down |-> FALSE]
        /\ p \in D /\ p \in 1..(PpnLimit - 1) /\ p \in Nat /\ at[p] = Free
    BY <1>5, KallocTakes
  <2>2. MakePTE(p * PAGE_SIZE, {}) = link
    <3>1. PpnLimit \in Nat
      BY PageWalkAssumption
    <3>2. p \in 0..(PpnLimit - 1) /\ {} \cup {"V"} = {"V"}
      BY <2>1, <3>1
    <3> QED  BY <3>2, MadePTE
  <2>3. n = [mem |-> mem2, avail |-> Tail(st.avail), down |-> FALSE]
    <3> DEFINE got == Kalloc(st)
    <3>1. ~ got.down
      BY <2>1
    <3> HIDE DEF got
    <3>2. n = [got EXCEPT !.mem[t][i] = MakePTE(Head(st.avail) * PAGE_SIZE, {})]
      BY <1>5, <3>1 DEF EnsureTable, got
    <3>3. n = [got EXCEPT !.mem[t][i] = link]
      BY <2>2, <3>2
    <3>4. got = [mem |-> m1, avail |-> Tail(st.avail), down |-> FALSE]
      BY <2>1 DEF got
    <3> HIDE DEF m1, p, link, n
    <3> QED  BY <3>3, <3>4
  <2>4. /\ Tables(mem2, D, S, at2) /\ SameWalks(st.mem, mem2, D, S, at)
        /\ mem2[t][i] = link
    <3> HIDE DEF p
    <3>1. Tables(st.mem, D, S, at)
      BY DEF Tree
    <3>2. mem2 = Linked(st.mem, p, t, i)
      BY DEF Linked
    <3> DEFINE m == st.mem
    <3> HIDE DEF m
    <3>3. Tables(m, D, S, at) /\ ~ Valid(m[t][i]) /\ p \in D /\ p \in Nat /\ at[p] = Free
      BY <1>5, <2>1, <3>1 DEF m
    <3>4. /\ Tables(Linked(m, p, t, i), D, S, [at EXCEPT ![p] = place])
          /\ SameWalks(m, Linked(m, p, t, i), D, S, at)
          /\ Linked(m, p, t, i)[t][i] = [ppn |-> p, flags |-> {"V"}]
      BY <3>3, NewTable
    <3> QED  BY <3>2, <3>4 DEF m
  <2>5. FreePages(Tail(st.avail), D, at2)
    BY <1>5, FewerFreePages DEF Tree, Tables
  <2>6. Tree(n, D, S, at2)
    <3> HIDE DEF mem2, at2
    <3> QED  BY <2>3, <2>4, <2>5 DEF Tree
  <2>7. Kept(st.mem, mem2, D, at, at2)
    <3>1. at = [q \in D |-> at[q]] /\ st.mem \in [D -> [Index -> Words]]
      BY DEF Tree, Tables, IsPlacing
    <3>2. at2[p] = place /\ \A q \in D : q # p => at2[q] = at[q]
      BY <2>1, <3>1
    <3>3. \A q \in D : q # p /\ q # t => mem2[q] = st.mem[q]
      BY <2>1, <3>1
    <3>4. \E x, h, j : place = MidAt(x, h) \/ place = LowAt(x, h, j)
      BY DEF Below
    <3>5. \A x, k : at[t] # DataAt(x, k) /\ at[p] # DataAt(x, k)
      BY <2>1, PlacesDiffer DEF Below
    <3> HIDE DEF at2, mem2, p
    <3> QED  BY <2>1, <3>2, <3>3, <3>4, <3>5 DEF Kept
  <2>8. BranchesStay(st.mem, mem2, D, at)
    <3>1. st.mem \in [D -> [Index -> Words]]
      BY DEF Tree, Tables
    <3>2. /\ \A q \in D : q # p /\ q # t => mem2[q] = st.mem[q]
          /\ p # t => \A e \in Index : e # i => mem2[t][e] = st.mem[t][e]
      BY <2>1, <3>1
    <3>3. ~ Branch(st.mem[t][i])
      BY <1>5 DEF Branch
    <3> HIDE DEF p, mem2
    <3> QED  BY <2>1, <3>2, <3>3 DEF BranchesStay
  <2>9. link.ppn = p /\ Branch(link) /\ at2[p] = place
    <3>1. at = [q \in D |-> at[q]]
      BY DEF Tree, Tables, IsPlacing
    <3> QED  BY <2>1, <3>1, Kinds
  <2>10. /\ Tree(n, D, S, at2) /\ Kept(st.mem, n.mem, D, at, at2)
        /\ SameWalks(st.mem, n.mem, D, S, at) /\ BranchesStay(st.mem, n.mem, D, at)
        /\ Branch(n.mem[t][i]) /\ n.mem[t][i].ppn \in D /\ at2[n.mem[t][i].ppn] = place
        /\ ~ n.down
    <3> HIDE DEF n, at2, link, mem2, p
    <3> QED  BY <2>1, <2>3, <2>4, <2>6, <2>7, <2>8, <2>9
  <2>11. TableMade(st, n, D, S, at, at2, t, i, place)
    <3> HIDE DEF n, at2
    <3> QED  BY <2>10 DEF TableMade
  <2> HIDE DEF at2
  <2> QED  BY <2>11
<1> QED  BY <1>3, <1>4, <1>5

StoreEntry(mem, t, k, pte) == [mem EXCEPT ![t][k] = pte]

\* Every walk but the one of page <<i, j, k>> of the space s is what it was.
OtherWalks(mem, mem2, D, S, at, s, i, j, k) ==
  \A x \in S, r \in D, a, b, c \in Index :
    at[r] = RootAt(x) /\ (x # s \/ a # i \/ b # j \/ c # k) =>
      WalkAt(mem2, r, a, b, c) = WalkAt(mem, r, a, b, c)

\* What such a store leaves behind, if the table is the low table of s for i, j.
LeafStored(mem, mem2, D, S, at, t, s, i, j, k, pte) ==
  /\ Tables(mem2, D, S, at)
  /\ \A q \in D : q # t => mem2[q] = mem[q]
  /\ OtherWalks(mem, mem2, D, S, at, s, i, j, k)
  /\ \A r \in D :
       /\ at[r] = RootAt(s) /\ Branch(mem[r][i])
       /\ Branch(mem[mem[r][i].ppn][j]) /\ mem[mem[r][i].ppn][j].ppn = t
       => WalkAt(mem2, r, i, j, k) = pte

\* A store to a table of the last level changes one walk.
LEMMA NewLeaf ==
  ASSUME NEW D, NEW S, NEW mem, NEW at, Tables(mem, D, S, at),
         NEW t \in D, NEW s \in S, NEW i \in Index, NEW j \in Index, at[t] = LowAt(s, i, j),
         NEW k \in Index, NEW pte \in Words, Leaf(pte)
  PROVE  LeafStored(mem, StoreEntry(mem, t, k, pte), D, S, at, t, s, i, j, k, pte)
<1> DEFINE mem2 == StoreEntry(mem, t, k, pte)
<1>1. mem \in [D -> [Index -> Words]]
  BY DEF Tables
<1>2. /\ mem2 \in [D -> [Index -> Words]]
      /\ mem2[t][k] = pte
      /\ \A c \in Index : c # k => mem2[t][c] = mem[t][c]
      /\ \A q \in D : q # t => mem2[q] = mem[q]
  BY <1>1 DEF StoreEntry
<1> HIDE DEF mem2
<1>3. /\ \A q \in D : \A x : at[q] = RootAt(x) => q # t
      /\ \A q \in D : \A x, h : at[q] = MidAt(x, h) => q # t
  BY PlacesDiffer
<1>4. Tables(mem2, D, S, at)
  <2>1. ASSUME NEW q \in D, NEW x \in S, at[q] = RootAt(x), NEW c \in Index
        PROVE  LinksTo(mem2[q][c], D, at, MidAt(x, c))
    BY <1>2, <1>3, <2>1 DEF Tables
  <2>2. ASSUME NEW q \in D, NEW x \in S, NEW h \in Index, at[q] = MidAt(x, h), NEW c \in Index
        PROVE  LinksTo(mem2[q][c], D, at, LowAt(x, h, c))
    BY <1>2, <1>3, <2>2 DEF Tables
  <2>3. ASSUME NEW q \in D, NEW x \in S, NEW h \in Index, NEW g \in Index,
               at[q] = LowAt(x, h, g), NEW c \in Index
        PROVE  mem2[q][c] = ZeroWord \/ Leaf(mem2[q][c])
    <3>1. mem[q][c] = ZeroWord \/ Leaf(mem[q][c])
      BY <2>3 DEF Tables
    <3> QED  BY <1>2, <3>1
  <2> QED  BY <1>2, <2>1, <2>2, <2>3 DEF Tables
<1>5. ASSUME NEW x \in S, NEW r \in D, at[r] = RootAt(x),
             NEW a \in Index, NEW b \in Index, NEW c \in Index
      PROVE  x # s \/ a # i \/ b # j \/ c # k =>
               WalkAt(mem2, r, a, b, c) = WalkAt(mem, r, a, b, c)
  <2> DEFINE t1 == mem[r][a].ppn
             t0 == mem[t1][b].ppn
  <2>1. /\ Branch(mem[r][a]) => t1 \in D /\ at[t1] = MidAt(x, a)
        /\ Branch(mem[r][a]) /\ Branch(mem[t1][b]) => t0 \in D /\ at[t0] = LowAt(x, a, b)
    <3>1. Leads(mem, D, at, x, r, a, b)
      BY <1>5, Path
    <3> QED  BY <3>1 DEF Leads
  <2>2. mem[r][a].ppn = t1 /\ mem[t1][b].ppn = t0
    OBVIOUS
  <2> HIDE DEF t1, t0
  <2>3. mem2[r] = mem[r]
    BY <1>2, <1>3, <1>5
  <2>4. CASE ~ Branch(mem[r][a])
    BY <2>3, <2>4 DEF WalkAt
  <2>5. CASE Branch(mem[r][a]) /\ ~ Branch(mem[t1][b])
    <3>1. mem2[t1] = mem[t1]
      BY <1>2, <1>3, <2>1, <2>5
    <3> QED  BY <2>2, <2>3, <2>5, <3>1 DEF WalkAt
  <2>6. CASE Branch(mem[r][a]) /\ Branch(mem[t1][b])
    <3>1. mem2[t1] = mem[t1] /\ t0 \in D /\ at[t0] = LowAt(x, a, b)
      BY <1>2, <1>3, <2>1, <2>6
    <3>2. /\ WalkAt(mem, r, a, b, c) = IF Leaf(mem[t0][c]) THEN mem[t0][c] ELSE Unmapped
          /\ WalkAt(mem2, r, a, b, c) = IF Leaf(mem2[t0][c]) THEN mem2[t0][c] ELSE Unmapped
      BY <2>2, <2>3, <2>6, <3>1 DEF WalkAt
    <3>3. x # s \/ a # i \/ b # j \/ c # k => mem2[t0][c] = mem[t0][c]
      BY <1>2, <3>1, OnePlace
    <3> QED  BY <3>2, <3>3
  <2> QED  BY <2>4, <2>5, <2>6
<1>6. OtherWalks(mem, mem2, D, S, at, s, i, j, k)
  BY <1>5 DEF OtherWalks
<1>7. ASSUME NEW r \in D, at[r] = RootAt(s), Branch(mem[r][i]),
             Branch(mem[mem[r][i].ppn][j]), mem[mem[r][i].ppn][j].ppn = t
      PROVE  WalkAt(mem2, r, i, j, k) = pte
  <2> DEFINE t1 == mem[r][i].ppn
  <2>1. t1 \in D /\ at[t1] = MidAt(s, i)
    <3>1. Leads(mem, D, at, s, r, i, j)
      BY <1>7, Path
    <3> QED  BY <1>7, <3>1 DEF Leads
  <2>2. /\ mem[r][i].ppn = t1 /\ Branch(mem[r][i])
        /\ Branch(mem[t1][j]) /\ mem[t1][j].ppn = t
    BY <1>7
  <2> HIDE DEF t1
  <2>3. r # t /\ t1 # t
    BY <1>3, <1>7, <2>1
  <2>4. mem2[r] = mem[r] /\ mem2[t1] = mem[t1] /\ mem2[t][k] = pte
    BY <1>2, <2>1, <2>3
  <2> QED  BY <2>2, <2>4 DEF WalkAt
<1>8. \A q \in D : q # t => mem2[q] = mem[q]
  BY <1>2
<1>9. LeafStored(mem, mem2, D, S, at, t, s, i, j, k, pte)
  BY <1>4, <1>6, <1>7, <1>8 DEF LeafStored
<1> QED  BY <1>9 DEF mem2

\* Arguments map_page does not refuse.
Proper(va, pa, flags) ==
  is_aligned(va) /\ is_aligned(pa) /\ flags \cap {"R", "W", "X"} # {}

\* The walk of va in space s, whose root is r, now ends at pte, and no other has
\* changed.
OneWalk(mem, mem2, D, S, at, r, s, va, pte) ==
  /\ WalkAt(mem2, r, vpn2(va), vpn1(va), vpn0(va)) = pte
  /\ OtherWalks(mem, mem2, D, S, at, s, vpn2(va), vpn1(va), vpn0(va))

\* What map_page leaves behind.
PageMapped(st, n, D, S, at, at2, r, s, va, pa, flags) ==
  /\ Tree(n, D, S, at2)
  /\ Kept(st.mem, n.mem, D, at, at2)
  /\ n.down => /\ SameWalks(st.mem, n.mem, D, S, at)
               /\ Proper(va, pa, flags) => n.avail = << >>
  /\ ~ n.down => /\ Proper(va, pa, flags)
                 /\ OneWalk(st.mem, n.mem, D, S, at, r, s, va, MakePTE(pa, flags))

\* map_page: if it returns, one walk of one space has changed, to what it was
\* called with; if it does not, none has, and its arguments were refused or kalloc
\* had no page left. Either way the tables are trees.
LEMMA MapPageMaps ==
  ASSUME NEW D, NEW S, NEW at, NEW st, Tree(st, D, S, at), ~ st.down,
         NEW r \in D, NEW s \in S, at[r] = RootAt(s),
         NEW va \in Nat, NEW pa, NEW flags, MakePTE(pa, flags) \in Words
  PROVE  \E at2 : PageMapped(st, map_page(st, r, va, pa, flags), D, S, at, at2,
                             r, s, va, pa, flags)
<1> DEFINE n  == map_page(st, r, va, pa, flags)
           i  == vpn2(va)
           j  == vpn1(va)
           k  == vpn0(va)
           s1 == EnsureTable(st, r, i)
           t1 == s1.mem[r][i].ppn
           s2 == EnsureTable(s1, t1, j)
           t0 == s2.mem[t1][j].ppn
           pte == MakePTE(pa, flags)
           bad == ~ is_aligned(va) \/ ~ is_aligned(pa) \/ flags \cap {"R", "W", "X"} = {}
<1>1. /\ bad => n = [st EXCEPT !.down = TRUE]
      /\ ~ bad /\ s1.down => n = s1
      /\ ~ bad /\ ~ s1.down /\ s2.down => n = s2
      /\ ~ bad /\ ~ s1.down /\ ~ s2.down => n = [s2 EXCEPT !.mem[t0][k] = pte]
  BY DEF map_page
<1>2. i \in Index /\ j \in Index /\ k \in Index
  BY Digits
<1>3. flags \cap {"R", "W", "X"} # {} => Leaf(pte)
  BY DEF MakePTE, Leaf, Valid
<1> HIDE DEF i, j, k, pte
<1>4. CASE bad
  <2>1. n = [mem |-> st.mem, avail |-> st.avail, down |-> TRUE]
    BY <1>1, <1>4 DEF Tree
  <2>2. Tree(n, D, S, at) /\ n.down /\ n.mem = st.mem
    BY <2>1 DEF Tree
  <2>3. Kept(st.mem, n.mem, D, at, at) /\ SameWalks(st.mem, n.mem, D, S, at)
    BY <2>2 DEF Kept, SameWalks
  <2>4. PageMapped(st, n, D, S, at, at, r, s, va, pa, flags)
    <3> HIDE DEF n
    <3> QED  BY <1>4, <2>2, <2>3 DEF PageMapped, Proper
  <2> QED  BY <2>4
<1>5. CASE ~ bad
  <2>1. Below(at[r], s, i, MidAt(s, i))
    BY DEF Below
  <2>2. PICK at1 : TableMade(st, s1, D, S, at, at1, r, i, MidAt(s, i))
    BY <1>2, <2>1, EnsureTableKeeps
  <2>3. CASE s1.down
    <3>1. /\ Tree(n, D, S, at1) /\ Kept(st.mem, n.mem, D, at, at1)
          /\ SameWalks(st.mem, n.mem, D, S, at) /\ n.down /\ n.avail = << >>
      <4> HIDE DEF n, s1, bad
      <4> QED  BY <1>1, <1>5, <2>2, <2>3 DEF TableMade
    <3>2. PageMapped(st, n, D, S, at, at1, r, s, va, pa, flags)
      <4> HIDE DEF n
      <4> QED  BY <3>1 DEF PageMapped
    <3> QED  BY <3>2
  <2>4. CASE ~ s1.down
    <3> HIDE DEF s1, t1
    <3>1. Branch(s1.mem[r][i]) /\ t1 \in D /\ at1[t1] = MidAt(s, i) /\ s1.mem[r][i].ppn = t1
      BY <2>2, <2>4 DEF t1, TableMade
    <3>2. Below(at1[t1], s, j, LowAt(s, i, j))
      BY <1>2, <3>1 DEF Below
    <3>0. Tree(s1, D, S, at1)
      BY <2>2 DEF TableMade
    <3>3. PICK at2 : TableMade(s1, s2, D, S, at1, at2, t1, j, LowAt(s, i, j))
      BY <1>2, <2>4, <3>1, <3>2, <3>0, EnsureTableKeeps
    <3>4. Kept(st.mem, s2.mem, D, at, at2)
      BY <2>2, <3>3, KeptTwice DEF TableMade
    <3>5. \A q \in D : \A x : at[q] = RootAt(x) => at1[q] = RootAt(x) /\ at2[q] = RootAt(x)
      BY <2>2, <3>3, PlacesDiffer DEF Kept, TableMade
    <3>6. SameWalks(st.mem, s2.mem, D, S, at)
      BY <2>2, <3>3, <3>5 DEF SameWalks, TableMade
    <3>7. CASE s2.down
      <4>1. /\ Tree(n, D, S, at2) /\ Kept(st.mem, n.mem, D, at, at2)
            /\ SameWalks(st.mem, n.mem, D, S, at) /\ n.down /\ n.avail = << >>
        <5>1. n = s2
          BY <1>1, <1>5, <2>4, <3>7 DEF s1, t1
        <5> HIDE DEF n, s2
        <5> QED  BY <3>3, <3>4, <3>6, <3>7, <5>1 DEF TableMade
      <4>2. PageMapped(st, n, D, S, at, at2, r, s, va, pa, flags)
        <5> HIDE DEF n
        <5> QED  BY <4>1 DEF PageMapped
      <4> QED  BY <4>2
    <3>8. CASE ~ s2.down
      <4>1. Branch(s2.mem[t1][j]) /\ t0 \in D /\ at2[t0] = LowAt(s, i, j) /\ s2.mem[t1][j].ppn = t0
        BY <3>3, <3>8 DEF TableMade
      <4>2. Branch(s2.mem[r][i]) /\ s2.mem[r][i].ppn = t1
        BY <1>2, <3>1, <3>3, <3>5, PlacesDiffer DEF BranchesStay, TableMade
      <4>3. Leaf(pte) /\ pte \in Words
        BY <1>3, <1>5 DEF pte
      <4> DEFINE mem2 == StoreEntry(s2.mem, t0, k, pte)
      <4> HIDE DEF s2, t0
      <4>4. Tables(s2.mem, D, S, at2)
        BY <3>3 DEF Tree, TableMade
      <4>5. LeafStored(s2.mem, mem2, D, S, at2, t0, s, i, j, k, pte)
        BY <1>2, <4>1, <4>3, <4>4, NewLeaf
      <4>6. WalkAt(mem2, r, i, j, k) = pte
        BY <3>5, <4>1, <4>2, <4>5 DEF LeafStored
      <4>7. s2 = [mem |-> s2.mem, avail |-> s2.avail, down |-> FALSE]
        BY <3>3, <3>8 DEF Tree, TableMade
      <4>8. n = [mem |-> mem2, avail |-> s2.avail, down |-> FALSE]
        <5>1. n = [s2 EXCEPT !.mem[t0][k] = pte]
          BY <1>1, <1>5, <2>4, <3>8 DEF s2, t0, t1, s1
        <5> DEFINE m == s2.mem
                   av == s2.avail
        <5>2. s2 = [mem |-> m, avail |-> av, down |-> FALSE]
          BY <4>7
        <5> HIDE DEF n, m, av
        <5>3. n = [mem |-> [m EXCEPT ![t0][k] = pte], avail |-> av, down |-> FALSE]
          BY <5>1, <5>2
        <5> QED  BY <5>3 DEF StoreEntry, m, av
      <4> HIDE DEF mem2
      <4>9. Tree(n, D, S, at2) /\ ~ n.down /\ n.mem = mem2
        <5>1. Tables(mem2, D, S, at2)
          BY <4>5 DEF LeafStored
        <5>2. FreePages(s2.avail, D, at2)
          BY <3>3 DEF Tree, TableMade
        <5> HIDE DEF n
        <5> QED  BY <4>8, <5>1, <5>2 DEF Tree
      <4>10. Kept(st.mem, mem2, D, at, at2)
        <5>1. \A q \in D : q # t0 => mem2[q] = s2.mem[q]
          BY <4>5 DEF LeafStored
        <5>2. ASSUME NEW q \in D, NEW x, NEW h, at[q] = DataAt(x, h) PROVE mem2[q] = st.mem[q]
          <6>1. at2[q] = DataAt(x, h) /\ s2.mem[q] = st.mem[q]
            BY <3>4, <5>2, PlacesDiffer DEF Kept
          <6>2. q # t0
            BY <4>1, <6>1, PlacesDiffer
          <6> QED  BY <5>1, <6>1, <6>2
        <5> QED  BY <3>4, <5>2 DEF Kept
      <4>11. ASSUME NEW x \in S, NEW q \in D, NEW a \in Index, NEW b \in Index, NEW c \in Index,
                    at[q] = RootAt(x), x # s \/ a # i \/ b # j \/ c # k
             PROVE  WalkAt(mem2, q, a, b, c) = WalkAt(st.mem, q, a, b, c)
        <5>1. WalkAt(s2.mem, q, a, b, c) = WalkAt(st.mem, q, a, b, c)
          BY <3>6, <4>11 DEF SameWalks
        <5>2. at2[q] = RootAt(x)
          BY <3>5, <4>11
        <5>3. WalkAt(mem2, q, a, b, c) = WalkAt(s2.mem, q, a, b, c)
          <6>1. OtherWalks(s2.mem, mem2, D, S, at2, s, i, j, k)
            BY <4>5 DEF LeafStored
          <6> QED  BY <4>11, <5>2, <6>1 DEF OtherWalks
        <5> QED  BY <5>1, <5>3
      <4>12. OtherWalks(st.mem, mem2, D, S, at, s, i, j, k)
        BY <4>11 DEF OtherWalks
      <4>13. PageMapped(st, n, D, S, at, at2, r, s, va, pa, flags)
        <5>1. OneWalk(st.mem, mem2, D, S, at, r, s, va, MakePTE(pa, flags))
          BY <4>6, <4>12 DEF OneWalk, i, j, k, pte
        <5> HIDE DEF n
        <5> QED  BY <1>5, <4>9, <4>10, <5>1 DEF PageMapped, Proper
      <4> QED  BY <4>13
    <3> QED  BY <3>7, <3>8
  <2> QED  BY <2>3, <2>4
<1> QED  BY <1>4, <1>5

IsData(place) == \E x, k : place = DataAt(x, k)

\* A table's place is neither that of a free page nor that of a data page.
LEMMA TableNotData ==
  ASSUME NEW x, NEW i, NEW j
  PROVE  /\ RootAt(x) # Free /\ ~ IsData(RootAt(x))
         /\ MidAt(x, i) # Free /\ ~ IsData(MidAt(x, i))
         /\ LowAt(x, i, j) # Free /\ ~ IsData(LowAt(x, i, j))
<1>1. RootAt(x) # Free /\ ~ IsData(RootAt(x))
  BY PlacesDiffer DEF IsData
<1>2. MidAt(x, i) # Free /\ ~ IsData(MidAt(x, i))
  BY PlacesDiffer DEF IsData
<1>3. LowAt(x, i, j) # Free /\ ~ IsData(LowAt(x, i, j))
  BY PlacesDiffer DEF IsData
<1> QED  BY <1>1, <1>2, <1>3

\* Only the page p and its place may have changed.
OnlyPage(p, D, mem, mem2, at, at2) ==
  \A q \in D : q # p => mem2[q] = mem[q] /\ at2[q] = at[q]

\* A page that is not part of a table is taken for a new table, or stored to.
LEMMA OtherPage ==
  ASSUME NEW D, NEW S, NEW mem, NEW at, Tables(mem, D, S, at),
         NEW p \in D, at[p] = Free \/ IsData(at[p]),
         NEW mem2 \in [D -> [Index -> Words]], NEW at2, IsPlacing(at2, D),
         OnlyPage(p, D, mem, mem2, at, at2), mem2[p] = ZeroPage \/ IsData(at2[p])
  PROVE  /\ Tables(mem2, D, S, at2)
         /\ SameWalks(mem, mem2, D, S, at)
<1>1. ASSUME NEW q \in D,
             \E x, i, j : at[q] = RootAt(x) \/ at[q] = MidAt(x, i) \/ at[q] = LowAt(x, i, j)
      PROVE  q # p /\ mem2[q] = mem[q] /\ at2[q] = at[q]
  <2>1. at[q] # Free /\ ~ IsData(at[q])
    BY <1>1, TableNotData
  <2>2. q # p
    BY <2>1
  <2> QED  BY <2>2 DEF OnlyPage
<1>2. \A j \in Index : ZeroPage[j] = ZeroWord
  BY DEF ZeroPage
<1>3. ASSUME NEW w, NEW pl, LinksTo(w, D, at, pl),
             \E x, i, j : pl = MidAt(x, i) \/ pl = LowAt(x, i, j)
      PROVE  LinksTo(w, D, at2, pl)
  <2>1. PICK x, i, j : pl = MidAt(x, i) \/ pl = LowAt(x, i, j)
    BY <1>3
  <2>2. pl # Free /\ ~ IsData(pl)
    BY <2>1, TableNotData
  <2>3. at[p] # pl
    BY <2>2
  <2>4. ASSUME w.ppn \in D, at[w.ppn] = pl PROVE at2[w.ppn] = pl
    BY <2>3, <2>4 DEF OnlyPage
  <2> QED  BY <1>3, <2>4 DEF LinksTo
<1>4. ASSUME NEW q \in D, NEW x \in S, at2[q] = RootAt(x), NEW i \in Index
      PROVE  LinksTo(mem2[q][i], D, at2, MidAt(x, i))
  <2>1. CASE q = p
    <3>1. mem2[q][i] = ZeroWord
      BY <1>2, <1>4, <2>1, TableNotData
    <3> QED  BY <3>1 DEF LinksTo
  <2>2. CASE q # p
    <3>1. LinksTo(mem[q][i], D, at, MidAt(x, i)) /\ mem2[q][i] = mem[q][i]
      BY <1>4, <2>2 DEF Tables, OnlyPage
    <3> QED  BY <1>3, <3>1
  <2> QED  BY <2>1, <2>2
<1>5. ASSUME NEW q \in D, NEW x \in S, NEW i \in Index, at2[q] = MidAt(x, i), NEW j \in Index
      PROVE  LinksTo(mem2[q][j], D, at2, LowAt(x, i, j))
  <2>1. CASE q = p
    <3>1. mem2[q][j] = ZeroWord
      BY <1>2, <1>5, <2>1, TableNotData
    <3> QED  BY <3>1 DEF LinksTo
  <2>2. CASE q # p
    <3>1. LinksTo(mem[q][j], D, at, LowAt(x, i, j)) /\ mem2[q][j] = mem[q][j]
      BY <1>5, <2>2 DEF Tables, OnlyPage
    <3> QED  BY <1>3, <3>1
  <2> QED  BY <2>1, <2>2
<1>6. ASSUME NEW q \in D, NEW x \in S, NEW i \in Index, NEW j \in Index,
             at2[q] = LowAt(x, i, j), NEW k \in Index
      PROVE  mem2[q][k] = ZeroWord \/ Leaf(mem2[q][k])
  <2>1. CASE q = p
    BY <1>2, <1>6, <2>1, TableNotData
  <2>2. CASE q # p
    BY <1>6, <2>2 DEF Tables, OnlyPage
  <2> QED  BY <2>1, <2>2
<1>7. Tables(mem2, D, S, at2)
  BY <1>4, <1>5, <1>6 DEF Tables
<1>8. ASSUME NEW x \in S, NEW r \in D, at[r] = RootAt(x),
             NEW a \in Index, NEW b \in Index, NEW c \in Index
      PROVE  WalkAt(mem2, r, a, b, c) = WalkAt(mem, r, a, b, c)
  <2> DEFINE t1 == mem[r][a].ppn
             t0 == mem[t1][b].ppn
  <2>1. /\ Branch(mem[r][a]) => t1 \in D /\ at[t1] = MidAt(x, a)
        /\ Branch(mem[r][a]) /\ Branch(mem[t1][b]) => t0 \in D /\ at[t0] = LowAt(x, a, b)
    <3>1. Leads(mem, D, at, x, r, a, b)
      BY <1>8, Path
    <3> QED  BY <3>1 DEF Leads
  <2>2. mem[r][a].ppn = t1 /\ mem[t1][b].ppn = t0
    OBVIOUS
  <2> HIDE DEF t1, t0
  <2>3. mem2[r] = mem[r]
    BY <1>1, <1>8
  <2>4. Branch(mem[r][a]) => mem2[t1] = mem[t1]
    BY <1>1, <2>1
  <2>5. Branch(mem[r][a]) /\ Branch(mem[t1][b]) => mem2[t0] = mem[t0]
    BY <1>1, <2>1
  <2> QED  BY <2>2, <2>3, <2>4, <2>5 DEF WalkAt
<1> QED  BY <1>7, <1>8 DEF SameWalks

\* The walks of a table that has just been cleared.
LEMMA EmptyRoot ==
  ASSUME NEW mem, NEW r, mem[r] = ZeroPage, NEW a \in Index, NEW b, NEW c
  PROVE  WalkAt(mem, r, a, b, c) = Unmapped
BY Kinds DEF WalkAt, ZeroPage

\* The table pages of a space are at places of that space.
LEMMA TablePagesOf ==
  ASSUME NEW D, NEW S, NEW mem, NEW at, Tables(mem, D, S, at),
         NEW s \in S, NEW r \in D, at[r] = RootAt(s), NEW p \in TablePages(mem, r)
  PROVE  /\ p \in D
         /\ \/ at[p] = RootAt(s)
            \/ \E i \in Index : at[p] = MidAt(s, i)
            \/ \E i, j \in Index : at[p] = LowAt(s, i, j)
<1>1. CASE p = r
  BY <1>1
<1>2. CASE \E i \in Index : Branch(mem[r][i]) /\ p = mem[r][i].ppn
  <2>1. PICK i \in Index : Branch(mem[r][i]) /\ p = mem[r][i].ppn
    BY <1>2
  <2>2. Leads(mem, D, at, s, r, i, i)
    BY Path
  <2> QED  BY <2>1, <2>2 DEF Leads
<1>3. CASE \E i, j \in Index : LET t == mem[r][i].ppn IN
             Branch(mem[r][i]) /\ Branch(mem[t][j]) /\ p = mem[t][j].ppn
  <2>1. PICK i \in Index, j \in Index :
          /\ Branch(mem[r][i]) /\ Branch(mem[mem[r][i].ppn][j])
          /\ p = mem[mem[r][i].ppn][j].ppn
    BY <1>3
  <2>2. Leads(mem, D, at, s, r, i, j)
    BY Path
  <2>3. p \in D /\ at[p] = LowAt(s, i, j)
    BY <2>1, <2>2 DEF Leads
  <2> QED  BY <2>3
<1>4. p = r \/ (\E i \in Index : Branch(mem[r][i]) /\ p = mem[r][i].ppn)
        \/ (\E i, j \in Index : LET t == mem[r][i].ppn IN
              Branch(mem[r][i]) /\ Branch(mem[t][j]) /\ p = mem[t][j].ppn)
  BY DEF TablePages
<1> QED  BY <1>1, <1>2, <1>3, <1>4
=============================================================================
