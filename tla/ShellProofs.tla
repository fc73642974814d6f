----------------------------- MODULE ShellProofs -----------------------------
(***************************************************************************)
(* What the shell stores and what it answers, for a line of any size, any    *)
(* keys, commands and texts, on the kernel as it is.                         *)
(***************************************************************************)
EXTENDS Shell, KernelProofs, SequenceTheorems, WellFoundedInduction

\* The index is that of a place of cmdline whenever something is stored.
LineInv ==
  /\ i \in 0..(LineSize - 1)
  /\ cmdline = [k \in 0..LineSize |-> cmdline[k]]
  /\ LineInside

LEMMA LineInit == ShellInit => LineInv
<1> SUFFICES ASSUME ShellInit PROVE LineInv
  OBVIOUS
<1>1. LineSize \in Nat \ {0, 1} /\ LineSize \in 0..LineSize
  BY ShellAssumption
<1>2. i \in 0..(LineSize - 1)
  BY <1>1 DEF ShellInit
<1>3. cmdline \in [0..LineSize -> Junk \cup {Behind}] /\ cmdline[LineSize] = Behind
  BY <1>1 DEF ShellInit
<1>4. cmdline = [k \in 0..LineSize |-> cmdline[k]]
  BY <1>3
<1> QED  BY <1>2, <1>3, <1>4 DEF LineInv, LineInside

LEMMA LineStep == LineInv /\ [ShellNext]_allVars => LineInv'
<1> SUFFICES ASSUME LineInv, [ShellNext]_allVars PROVE LineInv'
  OBVIOUS
<1>1. /\ LineSize \in Nat \ {0, 1} /\ LineSize \in 0..LineSize
      /\ i \in 0..(LineSize - 1) /\ i # LineSize
      /\ cmdline = [k \in 0..LineSize |-> cmdline[k]] /\ cmdline[LineSize] = Behind
  BY ShellAssumption DEF LineInv, LineInside
<1>2. ASSUME NEW v, cmdline' = [cmdline EXCEPT ![i] = v]
      PROVE  cmdline' = [k \in 0..LineSize |-> cmdline'[k]] /\ LineInside'
  BY <1>1, <1>2 DEF LineInside
<1>3. CASE Store
  <2>1. i # LineSize - 1 /\ i' = i + 1 /\ cmdline' = [cmdline EXCEPT ![i] = ch]
    BY <1>3 DEF Store
  <2>2. i' \in 0..(LineSize - 1)
    BY <1>1, <2>1
  <2> QED  BY <1>2, <2>1, <2>2 DEF LineInv
<1>4. CASE EndLine
  <2>1. i' = i /\ cmdline' = [cmdline EXCEPT ![i] = NUL]
    BY <1>4 DEF EndLine
  <2> QED  BY <1>1, <1>2, <2>1 DEF LineInv
<1>5. CASE Prompt
  <2>1. i' = 0 /\ cmdline' = cmdline
    BY <1>5 DEF Prompt
  <2>2. i' \in 0..(LineSize - 1)
    BY <1>1, <2>1
  <2> QED  BY <1>1, <2>1, <2>2 DEF LineInv, LineInside
<1>6. ASSUME i' = i, cmdline' = cmdline PROVE LineInv'
  BY <1>6 DEF LineInv, LineInside
<1>7. CASE PutNext \/ Getc \/ Echo \/ TooLong \/ Answer \/ RunExit
  BY <1>6, <1>7 DEF PutNext, Getc, Echo, TooLong, Answer, RunExit
<1>8. CASE KernelRuns \/ KeyTyped \/ (Spin /\ UNCHANGED shellVars)
  BY <1>6, <1>8 DEF KernelRuns, KeyTyped, shellVars, main
<1>9. CASE UNCHANGED allVars
  BY <1>6, <1>9 DEF allVars, shellVars, main
<1> QED
  BY <1>3, <1>4, <1>5, <1>7, <1>8, <1>9 DEF ShellNext, ShellStep

\* However long the lines that are typed, nothing is stored behind cmdline, and
\* the prompt after a line that was too long starts at its beginning again.
THEOREM LinesStayInside == ShellSpec => []LineInside
<1>1. LineInv => LineInside
  BY DEF LineInv
<1> QED  BY <1>1, LineInit, LineStep, PTL DEF ShellSpec

-----------------------------------------------------------------------------
(* The shell and the kernel under it. kmain creates one program, so that    *)
(* whoever runs in user mode is the shell.                                  *)

\* What the shell calls the kernel for on its way to each place.
CallFor(place) ==
  CASE place = "echo" -> "getc" [] place = "exited" -> "exit" [] OTHER -> "putc"

\* The one program is created, starts and exits.
OneProgram ==
  /\ \A p, q \in Slots \ {idle_proc} :
       procs[p].state # "UNUSED" /\ procs[q].state # "UNUSED" => p = q
  /\ kpc = "kmain" =>
       /\ created = 0 => \A p \in Slots \ {idle_proc} : procs[p].state = "UNUSED"
       /\ created > 0 => \E p \in Slots \ {idle_proc} : procs[p].state = "RUNNABLE"
       /\ \A p \in Slots \ {idle_proc} : procs[p].state # "UNUSED" => Fresh(p)

\* Where the shell can be while the kernel is at each of its places.
Control ==
  /\ at \in {"start", "print", "getc", "echo", "store", "run", "prompt", "exited"}
  /\ kpc \in {"kmain", "user_entry"} => at = "start"
  /\ at = "start" => kpc \in {"kmain", "user_entry", "user"}
  /\ kpc \in {"getc", "yield"} => at = "echo"
  /\ kpc = "syscall" => owed[current_proc].a3 = CallFor(at)
  /\ kpc \in {"halt", "panic"} => at = "exited"
  /\ kpc = "panic" => panic = "Exited out of scheduler. Halting!"
  /\ at = "exited" => kpc \in {"syscall", "halt", "panic"}

-----------------------------------------------------------------------------
(* What has been typed and shown since the prompt, at each place of main.   *)

\* SYS_GETC has not returned a character yet.
Polling == kpc \in {"syscall", "getc", "yield"}

\* What the console shows, with the character the kernel was given to print.
Seen ==
  IF kpc = "syscall" /\ owed[current_proc].a3 = "putc"
    THEN Append(shown, owed[current_proc].a0) ELSE shown

\* n keys have been typed. The first i of them are in cmdline.
Typed(n) ==
  /\ Len(keyed) = n
  /\ \A k \in 1..i : cmdline[k - 1] = keyed[k] /\ keyed[k] # CR

\* The line is complete.
Ended ==
  /\ Typed(i + 1) /\ i # LineSize - 1
  /\ keyed[i + 1] = CR /\ cmdline[i] = NUL

LineOver == Len(keyed) = LineSize \/ Last(keyed) = CR

\* What a printf will have shown in the end.
Printed ==
  \/ /\ next = "getc" /\ i = 0 /\ keyed = << >>
     /\ Seen \o printing = PromptText
  \/ /\ next = "run" /\ Ended
     /\ Seen \o printing = (PromptText \o keyed) \o <<CR, LF>>
  \/ /\ next = "prompt" /\ LineOver
     /\ Seen \o printing = Transcript(keyed)

LineData ==
  /\ keyed \in Seq(Vals) /\ shown \in Seq(Vals) /\ printing \in Seq(Vals)
  /\ at = "print" => printing # << >> /\ Printed
  /\ at = "getc" => Typed(i) /\ Seen = PromptText \o keyed
  /\ at = "echo" =>
       IF Polling THEN Typed(i) /\ Seen = PromptText \o keyed
       ELSE /\ Typed(i + 1) /\ Append(Seen, keyed[i + 1]) = PromptText \o keyed
            /\ owed[current_proc].a0 = keyed[i + 1]
  /\ at = "store" => Typed(i + 1) /\ ch = keyed[i + 1] /\ Seen = PromptText \o keyed
  /\ at = "run" => Ended /\ Seen = (PromptText \o keyed) \o <<CR, LF>>
  /\ at = "prompt" => LineOver /\ Seen = Transcript(keyed)

ShellInv == KernelInv /\ LineInv /\ OneProgram /\ Control /\ LineData

-----------------------------------------------------------------------------
(* printf: what Literal makes of the texts.                                *)

\* A set of numbers that is not empty has a smallest element.
LEMMA Smallest ==
  ASSUME NEW T \in SUBSET Nat, T # {}
  PROVE  \E m \in T : \A k \in T : m <= k
<1>1. PICK m \in T : \A k \in T : ~ (<<k, m>> \in OpToRel(<, Nat))
  BY NatLessThanWellFounded, WFMin, Zenon
<1>2. ASSUME NEW k \in T PROVE m <= k
  <2> DEFINE Less == {ss \in Nat \X Nat : ss[1] < ss[2]}
  <2>1. Less = OpToRel(<, Nat)
    BY DEF OpToRel
  <2>2. ~ (<<k, m>> \in Less)
    BY <1>1, <1>2, <2>1, Zenon
  <2> QED  BY <2>2
<1> QED  BY <1>2

\* f is built from s by appending one sequence after another.
Builds(f, s, n) == f = [k \in 1..n |-> IF k = 1 THEN s[k] ELSE f[k - 1] \o s[k]]

\* There is only one way to do that.
LEMMA BuiltOnce ==
  ASSUME NEW n \in Nat, NEW s, NEW f, NEW g, Builds(f, s, n), Builds(g, s, n)
  PROVE  \A k \in 1..n : f[k] = g[k]
<1> DEFINE T == {k \in 1..n : f[k] # g[k]}
<1> SUFFICES ASSUME T # {} PROVE FALSE
  OBVIOUS
<1>1. PICK m \in T : \A k \in T : m <= k
  <2>1. T \in SUBSET Nat
    OBVIOUS
  <2> HIDE DEF T
  <2> QED  BY <2>1, Smallest, Zenon
<1>2. \A k \in 1..n : /\ f[k] = IF k = 1 THEN s[k] ELSE f[k - 1] \o s[k]
                      /\ g[k] = IF k = 1 THEN s[k] ELSE g[k - 1] \o s[k]
  BY DEF Builds
<1>3. CASE m = 1
  BY <1>1, <1>2, <1>3
<1>4. CASE m # 1
  <2>1. m - 1 \in 1..n /\ m \in 1..n /\ m - 1 \notin T
    BY <1>1, <1>4
  <2>2. f[m - 1] = g[m - 1]
    BY <2>1
  <2> QED  BY <1>1, <1>2, <1>4, <2>1, <2>2
<1> QED  BY <1>3, <1>4

LEMMA Flattened ==
  ASSUME NEW s, NEW n \in Nat \ {0}, Len(s) = n, NEW g, Builds(g, s, n)
  PROVE  FlattenSeq(s) = g[n]
<1> DEFINE f == CHOOSE h : Builds(h, s, n)
<1>1. FlattenSeq(s) = f[n]
  BY DEF FlattenSeq, Builds
<1>2. Builds(f, s, n)
  BY Zenon
<1> HIDE DEF f
<1>3. \A k \in 1..n : f[k] = g[k]
  BY <1>2, BuiltOnce
<1> QED  BY <1>1, <1>3

\* A text without a newline is printed as it stands.
LEMMA LiteralPlain ==
  ASSUME NEW t \in Seq(Vals), \A k \in DOMAIN t : t[k] # LF
  PROVE  Literal(t) = t
<1> DEFINE n == Len(t)
           s == [k \in DOMAIN t |-> IF t[k] = LF THEN <<CR, LF>> ELSE <<t[k]>>]
           g == [k \in 1..n |-> SubSeq(t, 1, k)]
<1>1. n \in Nat /\ DOMAIN t = 1..n /\ t = [k \in 1..n |-> t[k]]
  BY LenProperties
<1>2. s = [k \in 1..n |-> <<t[k]>>] /\ Literal(t) = FlattenSeq(s)
  BY <1>1 DEF Literal
<1>3. CASE n = 0
  <2>1. t = << >> /\ s = << >>
    BY <1>1, <1>2, <1>3
  <2>2. FlattenSeq(s) = s
    BY <2>1, EmptySeq DEF FlattenSeq
  <2> QED  BY <1>2, <2>1, <2>2
<1>4. CASE n # 0
  <2>1. Len(s) = n
    BY <1>1, <1>2
  <2>2. ASSUME NEW k \in 1..n
        PROVE  SubSeq(t, 1, k) = IF k = 1 THEN s[k] ELSE SubSeq(t, 1, k - 1) \o s[k]
    <3>1. SubSeq(t, 1, k) = SubSeq(t, 1, k - 1) \o <<t[k]>> /\ t[k] \in Vals
      BY <1>1, SubSeqRecursiveSecond, ElementOfSeq
    <3>2. s[k] = <<t[k]>>
      BY <1>2
    <3>3. CASE k = 1
      <4>1. SubSeq(t, 1, 0) = << >>
        BY SubSeqEmpty
      <4> QED  BY <3>1, <3>2, <3>3, <4>1, ConcatEmptySeq
    <3>4. CASE k # 1
      BY <3>1, <3>2, <3>4
    <3> QED  BY <3>3, <3>4
  <2>3. Builds(g, s, n)
    <3> HIDE DEF n, s
    <3>1. \A k \in 1..n : k # 1 => k - 1 \in 1..n
      BY <1>1
    <3> QED  BY <2>2, <3>1 DEF Builds
  <2>4. FlattenSeq(s) = g[n]
    <3> HIDE DEF n, s, g
    <3> QED  BY <1>1, <1>4, <2>1, <2>3, Flattened
  <2>5. g[n] = t
    BY <1>1, <1>4, SubSeqFull
  <2> QED  BY <1>2, <2>4, <2>5
<1> QED  BY <1>3, <1>4

\* The newline behind a text is printed as a carriage return and a newline.
LEMMA LiteralLine ==
  ASSUME NEW t \in Seq(Vals), \A k \in DOMAIN t : t[k] # LF
  PROVE  Literal(t \o <<LF>>) = t \o <<CR, LF>>
<1> DEFINE n == Len(t)
           w == t \o <<LF>>
           s == [k \in DOMAIN w |-> IF w[k] = LF THEN <<CR, LF>> ELSE <<w[k]>>]
           g == [k \in 1..(n + 1) |-> IF k <= n THEN SubSeq(t, 1, k) ELSE t \o <<CR, LF>>]
<1>1. n \in Nat /\ DOMAIN t = 1..n /\ LF \in Vals /\ <<LF>> \in Seq(Vals)
  BY LenProperties, ShellAssumption
<1>2. /\ w \in Seq(Vals) /\ Len(w) = n + 1 /\ DOMAIN w = 1..(n + 1)
      /\ \A k \in 1..n : w[k] = t[k]
      /\ w[n + 1] = LF
  <2>1. w \in Seq(Vals) /\ Len(w) = n + 1
        /\ \A k \in 1..(n + 1) : w[k] = IF k <= n THEN t[k] ELSE <<LF>>[k - n]
    BY <1>1, ConcatProperties
  <2> QED  BY <1>1, <2>1, LenProperties
<1>3. /\ s = [k \in 1..(n + 1) |-> s[k]] /\ Len(s) = n + 1
      /\ \A k \in 1..n : s[k] = <<t[k]>>
      /\ s[n + 1] = <<CR, LF>> /\ Literal(w) = FlattenSeq(s)
  <2>1. s = [k \in 1..(n + 1) |-> s[k]]
    BY <1>2
  <2>2. Len(s) = n + 1
    BY <1>1, <1>2
  <2>3. (\A k \in 1..n : s[k] = <<t[k]>>) /\ s[n + 1] = <<CR, LF>>
    <3>1. /\ \A k \in 1..(n + 1) : s[k] = IF w[k] = LF THEN <<CR, LF>> ELSE <<w[k]>>
          /\ \A k \in 1..n : t[k] # LF /\ k \in 1..(n + 1)
          /\ n + 1 \in 1..(n + 1)
      BY <1>1, <1>2
    <3> HIDE DEF s, w, n
    <3> QED  BY <1>2, <3>1
  <2> QED  BY <2>1, <2>2, <2>3 DEF Literal
<1> HIDE DEF w, s
<1>4. ASSUME NEW k \in 1..(n + 1)
      PROVE  g[k] = IF k = 1 THEN s[k] ELSE g[k - 1] \o s[k]
  <2>1. CASE k <= n
    <3>1. k \in 1..n
      BY <1>1, <2>1
    <3>2. SubSeq(t, 1, k) = SubSeq(t, 1, k - 1) \o <<t[k]>> /\ t[k] \in Vals
      BY <1>1, <3>1, SubSeqRecursiveSecond, ElementOfSeq
    <3>3. g[k] = SubSeq(t, 1, k) /\ s[k] = <<t[k]>>
      BY <1>3, <2>1, <3>1
    <3>4. k # 1 => g[k - 1] = SubSeq(t, 1, k - 1)
      BY <1>1, <3>1
    <3> HIDE DEF g, n
    <3>5. CASE k = 1
      <4>1. k - 1 < 1 /\ k - 1 \in Int
        BY <3>5
      <4>2. SubSeq(t, 1, k - 1) = << >>
        BY <4>1, SubSeqEmpty
      <4>3. << >> \o <<t[k]>> = <<t[k]>>
        <5>1. <<t[k]>> \in Seq(Vals)
          BY <3>2
        <5> QED  BY <5>1, ConcatEmptySeq
      <4> QED  BY <3>2, <3>3, <3>5, <4>2, <4>3
    <3>6. CASE k # 1
      BY <3>2, <3>3, <3>4, <3>6
    <3> QED  BY <3>5, <3>6
  <2>2. CASE k = n + 1
    <3>1. g[k] = t \o <<CR, LF>> /\ s[k] = <<CR, LF>>
      BY <1>1, <1>3, <2>2
    <3>2. CASE n = 0
      <4>1. t = << >>
        BY <1>1, <3>2, EmptySeq
      <4>2. <<CR, LF>> \in Seq(Vals)
        BY ShellAssumption
      <4> QED  BY <2>2, <3>1, <3>2, <4>1, <4>2, ConcatEmptySeq
    <3>3. CASE n # 0
      <4>1. g[n] = SubSeq(t, 1, n) /\ SubSeq(t, 1, n) = t /\ k - 1 = n /\ k # 1
        BY <1>1, <2>2, <3>3, SubSeqFull
      <4> QED  BY <3>1, <4>1
    <3> QED  BY <3>2, <3>3
  <2> QED  BY <1>1, <2>1, <2>2
<1>5. Builds(g, s, n + 1)
  <2>1. g = [k \in 1..(n + 1) |-> g[k]]
    OBVIOUS
  <2> HIDE DEF g, n
  <2> QED  BY <1>4, <2>1 DEF Builds
<1>6. FlattenSeq(s) = g[n + 1]
  <2> HIDE DEF g, n
  <2>1. n + 1 \in Nat \ {0}
    BY <1>1
  <2> QED  BY <1>3, <1>5, <2>1, Flattened
<1>7. g[n + 1] = t \o <<CR, LF>>
  BY <1>1
<1> QED  BY <1>3, <1>6, <1>7 DEF w

-----------------------------------------------------------------------------
(* strcmp and %s: what the shell reads of cmdline.                         *)

\* m holds the characters of line and a NUL behind them.
Holds(m, line) ==
  /\ m = [k \in 0..LineSize |-> m[k]]
  /\ Len(line) <= LineSize
  /\ \A k \in 1..Len(line) : m[k - 1] = line[k]
  /\ m[Len(line)] = NUL

\* The string at m ends at its first NUL.
EndsAt(m, e) == e \in DOMAIN m /\ m[e] = NUL /\ \A j \in 0..(e - 1) : m[j] # NUL

LEMMA FirstNul ==
  ASSUME NEW m, NEW line \in Seq(Vals), Holds(m, line)
  PROVE  \E e \in 0..Len(line) :
           EndsAt(m, e) /\ StringAt(m) = [k \in 1..e |-> m[k - 1]]
<1> DEFINE n == Len(line)
           T == {k \in 0..n : m[k] = NUL}
           Ends(k) == m[k] = NUL /\ \A j \in 0..(k - 1) : m[j] # NUL
           d == CHOOSE k \in DOMAIN m : Ends(k)
<1>1. n \in Nat /\ LineSize \in Nat /\ n <= LineSize /\ DOMAIN m = 0..LineSize /\ m[n] = NUL
  BY LenProperties, ShellAssumption DEF Holds
<1>2. PICK e \in T : \A k \in T : e <= k
  <2>1. T \in SUBSET Nat /\ n \in T
    BY <1>1
  <2> HIDE DEF T
  <2> QED  BY <2>1, Smallest, Zenon
<1>3. e \in 0..n /\ e \in DOMAIN m /\ Ends(e)
  BY <1>1, <1>2
<1>4. d \in DOMAIN m /\ Ends(d)
  <2> HIDE DEF Ends
  <2> QED  BY <1>3, Zenon
<1>5. StringAt(m) = [k \in 1..d |-> m[k - 1]]
  BY DEF StringAt
<1> HIDE DEF d
<1>6. d = e
  BY <1>1, <1>3, <1>4
<1> QED  BY <1>3, <1>5, <1>6 DEF EndsAt

\* %s prints the command of the line.
LEMMA CommandRead ==
  ASSUME NEW m, NEW line \in Seq(Vals), Holds(m, line)
  PROVE  StringAt(m) = Command(line) /\ Command(line) \in Seq(Vals)
<1> DEFINE n == Len(line)
           nuls == {k \in DOMAIN line : line[k] = NUL}
           c == CHOOSE k \in nuls : \A j \in nuls : k <= j
<1>1. PICK e \in 0..n : EndsAt(m, e) /\ StringAt(m) = [k \in 1..e |-> m[k - 1]]
  BY FirstNul
<1>2. n \in Nat /\ DOMAIN line = 1..n /\ line \in [1..n -> Vals]
  BY LenProperties
<1>3. \A k \in 1..n : m[k - 1] = line[k]
  BY DEF Holds
<1>4. \A k \in 1..e : line[k] # NUL /\ m[k - 1] = line[k] /\ k \in 1..n
  <2>1. ASSUME NEW k \in 1..e PROVE k - 1 \in 0..(e - 1) /\ k \in 1..n
    BY <1>1, <1>2
  <2> QED  BY <1>1, <1>3, <2>1 DEF EndsAt
<1>5. StringAt(m) = [k \in 1..e |-> line[k]]
  BY <1>1, <1>4
<1>6. CASE nuls = {}
  <2>1. e = n
    <3> SUFFICES ASSUME e # n PROVE FALSE
      OBVIOUS
    <3> HIDE DEF n
    <3>1. e + 1 \in 1..n /\ (e + 1) - 1 = e
      BY <1>1, <1>2
    <3>2. line[e + 1] = NUL
      BY <1>1, <1>3, <3>1 DEF EndsAt
    <3> QED  BY <1>2, <1>6, <3>1, <3>2
  <2>2. line = [k \in 1..n |-> line[k]] /\ Command(line) = line
    BY <1>2, <1>6 DEF Command
  <2> QED  BY <1>5, <2>1, <2>2
<1>7. CASE nuls # {}
  <2>1. c \in nuls /\ \A j \in nuls : c <= j
    <3>1. PICK x \in nuls : \A j \in nuls : x <= j
      <4>1. nuls \in SUBSET Nat
        BY <1>2
      <4> HIDE DEF nuls
      <4> QED  BY <1>7, <4>1, Smallest, Zenon
    <3> HIDE DEF nuls
    <3> QED  BY <3>1, Zenon
  <2>2. Command(line) = SubSeq(line, 1, c - 1)
    BY <1>7 DEF Command
  <2> HIDE DEF c
  <2>3. c \in 1..n /\ line[c] = NUL /\ \A j \in 1..(c - 1) : line[j] # NUL
    BY <1>2, <2>1
  <2>4. c = e + 1
    <3>1. e < c
      BY <1>1, <1>2, <1>4, <2>3
    <3>2. e < n /\ e + 1 \in 1..n /\ (e + 1) - 1 = e
      BY <1>1, <1>2, <2>3, <3>1
    <3>3. line[e + 1] = NUL
      BY <1>1, <1>3, <3>2 DEF EndsAt
    <3>4. e + 1 \in nuls
      BY <1>2, <3>2, <3>3
    <3> QED  BY <1>1, <2>1, <2>3, <3>1, <3>4
  <2>5. SubSeq(line, 1, e) = [k \in 1..e |-> line[k]] /\ SubSeq(line, 1, e) \in Seq(Vals)
    BY <1>2
  <2>6. c - 1 = e
    BY <1>1, <2>4
  <2> QED  BY <1>5, <2>2, <2>5, <2>6
<1> QED  BY <1>6, <1>7

\* strcmp compares the command of the line.
LEMMA EqualCommand ==
  ASSUME NEW m, NEW line \in Seq(Vals), Holds(m, line),
         NEW str \in Seq(Vals), \A k \in DOMAIN str : str[k] # NUL
  PROVE  Equal(m, str) <=> Command(line) = str
<1> DEFINE z == Len(str)
<1>1. PICK e \in 0..Len(line) : EndsAt(m, e) /\ StringAt(m) = [k \in 1..e |-> m[k - 1]]
  BY FirstNul
<1>2. z \in Nat /\ DOMAIN str = 1..z /\ str = [k \in 1..z |-> str[k]] /\ e \in Nat
  BY <1>1, LenProperties
<1>3. StringAt(m) = Command(line)
  BY CommandRead
<1>4. m[e] = NUL /\ \A j \in 0..(e - 1) : m[j] # NUL
  BY <1>1 DEF EndsAt
<1> HIDE DEF z
<1>5. Equal(m, str) <=> /\ \A k \in 1..z : m[k - 1] = str[k]
                        /\ m[z] = NUL
  <2>1. Equal(m, str) <=>
          \A k \in 1..(z + 1) : m[k - 1] = IF k <= z THEN str[k] ELSE NUL
    BY DEF Equal, z
  <2>2. 1..(z + 1) = (1..z) \cup {z + 1} /\ z + 1 - 1 = z /\ ~ (z + 1 <= z)
    BY <1>2
  <2>3. z \in Nat /\ \A k \in 1..z : k <= z
    BY <1>2
  <2>4. ASSUME Equal(m, str) PROVE (\A k \in 1..z : m[k - 1] = str[k]) /\ m[z] = NUL
    <3>1. m[(z + 1) - 1] = NUL
      BY <2>1, <2>2, <2>4
    <3>2. m[z] = NUL
      BY <2>3, <3>1
    <3>3. ASSUME NEW k \in 1..z PROVE m[k - 1] = str[k]
      <4>1. k \in 1..(z + 1) /\ k <= z
        BY <2>3
      <4> QED  BY <2>1, <2>4, <4>1
    <3> QED  BY <3>2, <3>3
  <2>5. ASSUME \A k \in 1..z : m[k - 1] = str[k], m[z] = NUL PROVE Equal(m, str)
    <3>1. ASSUME NEW k \in 1..(z + 1) PROVE m[k - 1] = IF k <= z THEN str[k] ELSE NUL
      <4>1. CASE k \in 1..z
        BY <2>3, <2>5, <4>1
      <4>2. CASE k = z + 1
        BY <2>2, <2>3, <2>5, <4>2
      <4> QED  BY <2>2, <4>1, <4>2
    <3> QED  BY <2>1, <3>1
  <2> QED  BY <2>4, <2>5
<1>6. ASSUME Equal(m, str) PROVE Command(line) = str
  <2>1. (\A k \in 1..z : m[k - 1] = str[k]) /\ m[z] = NUL
    BY <1>5, <1>6
  <2>2. z >= e
    <3> SUFFICES ASSUME z < e PROVE FALSE
      BY <1>2
    <3> QED  BY <1>2, <1>4, <2>1
  <2>3. z <= e
    <3> SUFFICES ASSUME e < z PROVE FALSE
      BY <1>2
    <3>1. e + 1 \in 1..z /\ (e + 1) - 1 = e
      BY <1>2
    <3> QED  BY <1>2, <1>4, <2>1, <3>1
  <2>4. z = e
    BY <1>2, <2>2, <2>3
  <2> QED  BY <1>1, <1>2, <1>3, <2>1, <2>4
<1>7. ASSUME Command(line) = str PROVE Equal(m, str)
  <2>1. str = [k \in 1..e |-> m[k - 1]]
    BY <1>1, <1>3, <1>7
  <2>2. z = e
    BY <1>2, <2>1
  <2> QED  BY <1>2, <1>4, <1>5, <2>1, <2>2
<1> QED  BY <1>6, <1>7

-----------------------------------------------------------------------------
(* The kernel's steps, as the shell and the console see them.               *)

\* syscall_entry is given what the shell put into a0 and a3.
LEMMA CallSeen ==
  ASSUME KernelInv, kpc = "syscall"
  PROVE  Sysno = owed[current_proc].a3 /\ FrameAt(stack, sp, 1).a0 = owed[current_proc].a0
<1>1. sp = <<current_proc, 2>> /\ stack[current_proc][1] = TrapFrame(owed[current_proc])
  BY DEF KernelInv, RunningProc, InTrap
<1>2. FrameAt(stack, sp, 1) = TrapFrame(owed[current_proc])
  BY <1>1 DEF FrameAt
<1> QED  BY <1>2 DEF Sysno, TrapFrame

\* Whoever calls yield, there is only the shell to switch to: from kmain to the
\* shell's first step, from SYS_GETC to the shell itself, from SYS_EXIT to kmain.
LEMMA YieldOne ==
  ASSUME KernelInv, OneProgram, NEW ps, NEW ra, YieldsFrom(ps, ra), yield(ps, ra)
  PROVE  /\ \A p \in Slots : procs'[p].state = ps[p].state
         /\ kpc = "kmain" /\ created > 0 => kpc' = "user_entry"
         /\ kpc = "yield" => kpc' = "getc" /\ current_proc' = current_proc
         /\ kpc = "syscall" => kpc' = "halt"
<1>1. PICK n \in Slots :
        /\ NextProc(ps, n)
        /\ \/ /\ n = current_proc /\ procs' = ps /\ kpc' = ra /\ current_proc' = current_proc
           \/ /\ n # current_proc /\ procs' = [ps EXCEPT ![current_proc].sp = Up(sp)]
              /\ sp' = Down(ps[n].sp, 1) /\ kpc' = FrameAt(stack, ps[n].sp, 0).ra
  BY Zenon DEF yield
<1>2. /\ Marked(ps) /\ RunningProc /\ TypeOK /\ SlotsInUse /\ current_proc \in Slots
      /\ kpc = "syscall" => ps[current_proc].state = "EXITED"
      /\ kpc # "syscall" => ps[current_proc].state = "RUNNABLE"
  BY YieldsFromMarked DEF KernelInv, TypeOK
<1>3. \A p \in Slots : procs'[p].state = ps[p].state
  BY <1>1, <1>2 DEF Marked
<1>4. \/ n # idle_proc /\ ps[n].state = "RUNNABLE"
      \/ n = idle_proc /\ \A p \in Slots \ {idle_proc} : ps[p].state # "RUNNABLE"
  BY <1>1, <1>2, Found
<1>5. ASSUME kpc = "kmain", created > 0 PROVE kpc' = "user_entry"
  <2>1. ps = procs /\ current_proc = idle_proc
    BY <1>2, <1>5 DEF YieldsFrom, RunningProc
  <2>2. n # idle_proc /\ procs[n].state = "RUNNABLE" /\ Fresh(n)
    BY <1>4, <1>5, <2>1 DEF OneProgram
  <2>3. FrameAt(stack, procs[n].sp, 0) = SwitchFrame("user_entry")
    BY <2>2 DEF FrameAt, Fresh
  <2> QED  BY <1>1, <2>1, <2>2, <2>3 DEF SwitchFrame
<1>6. ASSUME kpc = "yield" PROVE kpc' = "getc" /\ current_proc' = current_proc
  <2>1. /\ ps = procs /\ ra = "getc" /\ current_proc # idle_proc
        /\ procs[current_proc].state = "RUNNABLE"
    BY <1>2, <1>6 DEF YieldsFrom, RunningProc
  <2>2. n = current_proc
    BY <1>2, <1>4, <2>1 DEF OneProgram
  <2> QED  BY <1>1, <2>1, <2>2
<1>7. ASSUME kpc = "syscall" PROVE kpc' = "halt"
  <2>1. /\ current_proc # idle_proc /\ procs[current_proc].state = "RUNNABLE"
        /\ ps[current_proc].state = "EXITED"
    BY <1>2, <1>7 DEF RunningProc
  <2>2. n # current_proc => ps[n].state = procs[n].state
    BY <1>2 DEF Marked
  <2>3. n = idle_proc
    BY <1>2, <1>4, <2>1, <2>2 DEF OneProgram
  <2>4. n # current_proc
    BY <2>1, <2>3
  <2> QED  BY <1>1, <2>3, <2>4, ResumesNext
<1> QED  BY <1>3, <1>5, <1>6, <1>7

\* One call of putc is carried out.
PutsOne ==
  /\ kpc = "syscall" /\ owed[current_proc].a3 = "putc"
  /\ shown' = Append(shown, owed[current_proc].a0)
  /\ kpc' = "return" /\ UNCHANGED <<current_proc, owed, keyed>>

\* SYS_GETC goes round its loop.
Waits ==
  /\ at = "echo" /\ Polling
  /\ kpc' \in {"getc", "yield"} /\ UNCHANGED <<current_proc, owed, keyed, shown>>

\* SYS_GETC has a character.
Hits ==
  /\ at = "echo" /\ Polling /\ kpc # "syscall"
  /\ Head(input) \in Vals /\ keyed' = Append(keyed, Head(input))
  /\ owed'[current_proc].a0 = Head(input)
  /\ kpc' = "return" /\ UNCHANGED <<current_proc, shown>>

Returns == kpc = "return" /\ kpc' = "user" /\ UNCHANGED <<current_proc, owed, keyed, shown>>

Boots == at = "start" /\ kpc' \in {"kmain", "user_entry", "user"} /\ UNCHANGED <<keyed, shown>>

Stops ==
  /\ at = "exited" /\ kpc' \in {"halt", "panic"}
  /\ kpc' = "panic" => panic' = "Exited out of scheduler. Halting!"
  /\ UNCHANGED <<keyed, shown>>

LEMMA KernelMoves ==
  ASSUME ShellInv, KernelRuns
  PROVE  /\ OneProgram'
         /\ PutsOne \/ Waits \/ Hits \/ Returns \/ Boots \/ Stops
<1>1. /\ KernelInv /\ OneProgram /\ Control /\ TypeOK /\ current_proc \in Slots
      /\ created \in 0..1 /\ NumImages = 1
  <2>1. NumImages = 1
    BY ShellAssumption
  <2> QED  BY <2>1 DEF ShellInv, KernelInv, TypeOK
<1>2. /\ KernelStep
      /\ kpc # "syscall" \/ Sysno # "putc" => shown' = shown
      /\ kpc = "syscall" /\ Sysno = "putc" => shown' = Append(shown, FrameAt(stack, sp, 1).a0)
      /\ kpc # "getc" \/ input = << >> => keyed' = keyed
      /\ kpc = "getc" /\ input # << >> => keyed' = Append(keyed, Head(input))
  BY Zenon DEF KernelRuns
<1>3. ASSUME procs' = procs, kpc' # "kmain" PROVE OneProgram'
  BY <1>1, <1>3 DEF OneProgram
<1>4. CASE CreateImage
  <2>1. PICK s \in Slots : create_process(s)
    BY <1>4 DEF CreateImage
  <2>2. kpc = "kmain" /\ kpc' = kpc /\ created = 0 /\ created' = 1 /\ at = "start"
    BY <1>1, <1>4 DEF CreateImage, Control
  <2>3. s # idle_proc
    BY <1>1, <2>1 DEF create_process, FreeSlot, KernelInv, SlotsInUse
  <2>4. \A p \in Slots \ {idle_proc} : procs[p].state = "UNUSED"
    BY <1>1, <2>2 DEF OneProgram
  <2>5. /\ procs'[s].state = "RUNNABLE" /\ procs'[s].sp = <<s, 1>>
        /\ \A p \in Slots : p # s => procs'[p] = procs[p]
    BY <1>1, <2>1 DEF create_process, TypeOK
  <2>6. stack'[s] = <<SwitchFrame("user_entry")>>
    BY <1>1, <2>1 DEF create_process, TypeOK, Stacks, SwitchFrame
  <2>7. OneProgram'
    BY <2>2, <2>3, <2>4, <2>5, <2>6 DEF OneProgram, Fresh
  <2>8. Boots
    BY <1>2, <2>2 DEF Boots
  <2> QED  BY <2>7, <2>8
<1>5. CASE NoFreeSlot
  <2>1. kpc = "kmain" /\ created = 0 /\ \A p \in Slots : procs[p].state # "UNUSED"
    <3>1. kpc = "kmain" /\ created < NumImages /\ \A p \in Slots : procs[p].state # "UNUSED"
      BY <1>5, Zenon DEF NoFreeSlot
    <3>2. created = 0
      BY <1>1, <3>1
    <3> QED  BY <3>1, <3>2
  <2>2. 1 \in Slots \ {idle_proc}
    BY KernelAssumption DEF Slots, idle_proc
  <2> QED  BY <1>1, <2>1, <2>2 DEF OneProgram
<1>6. CASE KmainYield
  <2>1. kpc = "kmain" /\ created > 0 /\ yield(procs, "halt") /\ YieldsFrom(procs, "halt")
    BY <1>6 DEF KmainYield, YieldsFrom
  <2>2. kpc' = "user_entry" /\ \A p \in Slots : procs'[p].state = procs[p].state
    BY <1>1, <2>1, YieldOne
  <2>3. OneProgram'
    BY <1>1, <2>2 DEF OneProgram
  <2>4. Boots
    BY <1>1, <1>2, <2>1, <2>2 DEF Boots, Control
  <2> QED  BY <2>3, <2>4
<1>7. CASE YieldReturned
  <2>1. /\ kpc \in {"halt", "unreachable"} /\ kpc' = "panic" /\ procs' = procs
        /\ kpc = "halt" => panic' = "Exited out of scheduler. Halting!"
    BY <1>7 DEF YieldReturned, Panic
  <2>2. kpc = "halt"
    BY <1>1, <2>1 DEF KernelInv, Panics
  <2>3. Stops
    BY <1>1, <1>2, <2>1, <2>2 DEF Stops, Control
  <2> QED  BY <1>3, <2>1, <2>3
<1>8. CASE UserEntry
  <2>1. kpc = "user_entry" /\ kpc' = "user" /\ procs' = procs
    BY <1>8 DEF UserEntry
  <2>2. Boots
    BY <1>1, <1>2, <2>1 DEF Boots, Control
  <2> QED  BY <1>3, <2>1, <2>2
<1>9. CASE TrapReturn
  <2>1. kpc = "return" /\ kpc' = "user" /\ UNCHANGED <<procs, current_proc, owed>>
    BY <1>9 DEF TrapReturn
  <2>2. Returns
    BY <1>2, <2>1 DEF Returns
  <2> QED  BY <1>3, <2>1, <2>2
<1>10. ASSUME kpc = "syscall"
       PROVE  /\ Sysno = owed[current_proc].a3 /\ Sysno = CallFor(at) /\ keyed' = keyed
              /\ FrameAt(stack, sp, 1).a0 = owed[current_proc].a0
  BY <1>1, <1>2, <1>10, CallSeen DEF Control
<1>11. CASE SyscallNoResult
  <2>1. /\ kpc = "syscall" /\ kpc' = "return" /\ UNCHANGED <<procs, current_proc, owed>>
        /\ Sysno \in {"putc", "read", "open", "close"}
    BY <1>11 DEF SyscallNoResult
  <2>2. Sysno = "putc"
    BY <1>10, <2>1 DEF CallFor
  <2>3. PutsOne
    BY <1>2, <1>10, <2>1, <2>2 DEF PutsOne
  <2> QED  BY <1>3, <2>1, <2>3
<1>12. CASE SyscallGetc
  <2>1. /\ kpc = "syscall" /\ Sysno = "getc" /\ kpc' = "getc"
        /\ UNCHANGED <<procs, current_proc, owed>>
    BY <1>12 DEF SyscallGetc
  <2>2. at = "echo"
    BY <1>10, <2>1 DEF CallFor
  <2>3. Waits
    BY <1>2, <2>1, <2>2 DEF Waits, Polling
  <2> QED  BY <1>3, <2>1, <2>3
<1>13. CASE GetcHit
  <2>1. /\ kpc = "getc" /\ input # << >> /\ kpc' = "return"
        /\ owed' = [owed EXCEPT ![current_proc].a0 = Head(input)]
        /\ UNCHANGED <<procs, current_proc>>
    BY <1>13 DEF GetcHit
  <2>2. Head(input) \in Vals
    BY <1>1, <2>1, HeadTailProperties DEF TypeOK
  <2>3. owed'[current_proc].a0 = Head(input)
    BY <1>1, <2>1 DEF TypeOK, Context
  <2>4. Hits
    BY <1>1, <1>2, <2>1, <2>2, <2>3 DEF Hits, Polling, Control
  <2> QED  BY <1>3, <2>1, <2>4
<1>14. CASE GetcMiss
  <2>1. /\ kpc = "getc" /\ input = << >> /\ kpc' = "yield"
        /\ UNCHANGED <<procs, current_proc, owed>>
    BY <1>14 DEF GetcMiss
  <2>2. Waits
    BY <1>1, <1>2, <2>1 DEF Waits, Polling, Control
  <2> QED  BY <1>3, <2>1, <2>2
<1>15. CASE GetcYield
  <2>1. kpc = "yield" /\ yield(procs, "getc") /\ YieldsFrom(procs, "getc") /\ owed' = owed
    BY <1>15 DEF GetcYield, YieldsFrom
  <2>2. /\ kpc' = "getc" /\ current_proc' = current_proc
        /\ \A p \in Slots : procs'[p].state = procs[p].state
    BY <1>1, <2>1, YieldOne
  <2>3. OneProgram'
    BY <1>1, <2>2 DEF OneProgram
  <2>4. Waits
    BY <1>1, <1>2, <2>1, <2>2 DEF Waits, Polling, Control
  <2> QED  BY <2>3, <2>4
<1>16. CASE SyscallExit
  <2> DEFINE ps == [procs EXCEPT ![current_proc].state = "EXITED"]
  <2>1. kpc = "syscall" /\ Sysno = "exit" /\ yield(ps, "unreachable")
        /\ YieldsFrom(ps, "unreachable")
    BY <1>16 DEF SyscallExit, YieldsFrom
  <2>2. \A p \in Slots : ps[p].state # "UNUSED" => procs[p].state # "UNUSED"
    BY <1>1, <2>1 DEF KernelInv, RunningProc, TypeOK
  <2> HIDE DEF ps
  <2>3. kpc' = "halt" /\ \A p \in Slots : procs'[p].state = ps[p].state
    BY <1>1, <2>1, YieldOne
  <2>4. OneProgram'
    BY <1>1, <2>2, <2>3 DEF OneProgram
  <2>5. at = "exited"
    BY <1>10, <2>1 DEF CallFor
  <2>6. Stops
    BY <1>2, <2>1, <2>3, <2>5 DEF Stops
  <2> QED  BY <2>4, <2>6
<1>17. CASE SyscallUnexpected
  <2>1. kpc = "syscall" /\ Sysno = "other"
    BY <1>17 DEF SyscallUnexpected
  <2> QED  BY <1>10, <2>1 DEF CallFor
<1> QED
  BY <1>2, <1>4, <1>5, <1>6, <1>7, <1>8, <1>9, <1>11, <1>12, <1>13, <1>14, <1>15, <1>16, <1>17
     DEF KernelStep, Syscall

-----------------------------------------------------------------------------
(* System calls of the shell.                                              *)

\* The shell has called the kernel.
Called(sysno, arg) ==
  /\ kpc = "user" /\ kpc' = "syscall"
  /\ current_proc' = current_proc
  /\ owed'[current_proc].a0 = arg /\ owed'[current_proc].a3 = sysno

LEMMA ShellCalls ==
  ASSUME KernelInv, OneProgram, NEW sysno \in Sysnos, NEW arg \in Vals, syscall(sysno, arg)
  PROVE  KernelInv' /\ OneProgram' /\ Called(sysno, arg)
<1> DEFINE c == [pc |-> 8, a0 |-> arg, a3 |-> sysno, rest |-> user.rest]
<1>1. user \in Context /\ owed \in [Slots -> Context] /\ current_proc \in Slots
  BY DEF KernelInv, TypeOK
<1>2. c \in Context
  BY <1>1 DEF Context
<1>3. Ecall(c)
  BY DEF syscall
<1>4. /\ c.a0 = arg /\ c.a3 = sysno
      /\ AfterCall(c).a0 = arg /\ AfterCall(c).a3 = sysno
  BY DEF AfterCall
<1> HIDE DEF c
<1>5. KernelInv'
  BY <1>2, <1>3, EcallInv
<1>6. /\ kpc = "user" /\ kpc' = "syscall" /\ procs' = procs /\ current_proc' = current_proc
      /\ owed' = [owed EXCEPT ![current_proc] = AfterCall(c)]
  BY <1>3 DEF Ecall, TrapEntry
<1>7. owed'[current_proc] = AfterCall(c)
  BY <1>1, <1>6
<1>8. OneProgram'
  BY <1>6 DEF OneProgram
<1> QED  BY <1>4, <1>5, <1>6, <1>7, <1>8 DEF Called

\* What a call shows of the texts: the character of a putc is as good as printed.
LEMMA CalledSeen ==
  ASSUME NEW sysno, NEW arg, Called(sysno, arg), shown' = shown
  PROVE  /\ Seen = shown
         /\ sysno = "putc" => Seen' = Append(Seen, arg)
         /\ sysno # "putc" => Seen' = Seen
         /\ Polling'
BY DEF Called, Seen, Polling

-----------------------------------------------------------------------------
(* Steps of the kernel and of the user at the console change nothing that   *)
(* the shell relies on.                                                     *)

LEMMA Places ==
  ASSUME LineInv
  PROVE  i \in Nat /\ LineSize \in Nat \ {0, 1} /\ i < LineSize
<1>1. LineSize \in Nat \ {0, 1}
  BY ShellAssumption
<1>2. i \in 0..(LineSize - 1)
  BY DEF LineInv
<1> QED  BY <1>1, <1>2

LEMMA MainUnchanged ==
  ASSUME UNCHANGED main
  PROVE  UNCHANGED <<at, next, printing, i, ch, cmdline>>
BY DEF main

LEMMA DataSame ==
  ASSUME LineData, UNCHANGED main, keyed' = keyed, Seen' = Seen, shown' \in Seq(Vals),
         at = "echo" => /\ Polling' = Polling
                        /\ owed'[current_proc'].a0 = owed[current_proc].a0
  PROVE  LineData'
<1>1. UNCHANGED <<at, next, printing, i, ch, cmdline>>
  BY MainUnchanged
<1>2. (\A n : Typed(n)' <=> Typed(n)) /\ (Ended' <=> Ended) /\ (LineOver' <=> LineOver)
  BY <1>1 DEF Typed, Ended, LineOver
<1>3. Typed(i)' <=> Typed(i)
  BY <1>1 DEF Typed
<1>4. Typed(i + 1)' <=> Typed(i + 1)
  BY <1>1 DEF Typed
<1>5. Transcript(keyed)' = Transcript(keyed)
  BY <1>1 DEF Transcript
<1>6. Printed' <=> Printed
  BY <1>1, <1>2, <1>5 DEF Printed
<1>7. at = "echo" =>
        IF Polling' THEN Typed(i)' /\ Seen' = PromptText \o keyed'
        ELSE /\ Typed(i + 1)' /\ Append(Seen', keyed'[i' + 1]) = PromptText \o keyed'
             /\ owed'[current_proc'].a0 = keyed'[i' + 1]
  BY <1>1, <1>3, <1>4 DEF LineData
<1> QED  BY <1>1, <1>2, <1>3, <1>4, <1>5, <1>6, <1>7 DEF LineData

LEMMA KernelData ==
  ASSUME ShellInv, KernelRuns
  PROVE  Control' /\ LineData'
<1>1. /\ Control /\ LineData /\ UNCHANGED main
      /\ i \in Nat /\ owed \in [Slots -> Context] /\ current_proc \in Slots
  BY Places DEF ShellInv, KernelRuns, KernelInv, TypeOK
<1>2. UNCHANGED <<at, next, printing, i, ch, cmdline>>
  BY <1>1, MainUnchanged
<1>3. /\ keyed \in Seq(Vals) /\ shown \in Seq(Vals) /\ printing \in Seq(Vals)
      /\ owed[current_proc].a0 \in Vals
  BY <1>1 DEF LineData, Context
<1>4. CASE PutsOne
  <2>1. Seen' = Seen /\ shown' \in Seq(Vals)
    BY <1>3, <1>4, AppendProperties DEF PutsOne, Seen
  <2>2. at # "echo" /\ at # "start" /\ at # "exited"
    BY <1>1, <1>4 DEF PutsOne, Control, CallFor
  <2>3. Control'
    BY <1>1, <1>2, <1>4, <2>2 DEF PutsOne, Control
  <2> QED  BY <1>1, <1>4, <2>1, <2>2, <2>3, DataSame DEF PutsOne
<1>5. CASE Waits
  <2>1. Seen' = Seen /\ shown' \in Seq(Vals) /\ Polling' = Polling
    BY <1>1, <1>3, <1>5 DEF Waits, Seen, Polling, Control, CallFor
  <2>2. Control'
    BY <1>1, <1>2, <1>5 DEF Waits, Control
  <2> QED  BY <1>1, <1>5, <2>1, <2>2, DataSame DEF Waits
<1>6. CASE Returns
  <2>1. Seen' = Seen /\ shown' \in Seq(Vals) /\ Polling' = Polling
    BY <1>3, <1>6 DEF Returns, Seen, Polling
  <2>2. Control'
    BY <1>1, <1>2, <1>6 DEF Returns, Control
  <2> QED  BY <1>1, <1>6, <2>1, <2>2, DataSame DEF Returns
<1>7. CASE Boots \/ Stops
  <2>1. at \in {"start", "exited"} /\ UNCHANGED <<keyed, shown>>
    BY <1>7 DEF Boots, Stops
  <2>2. Control'
    BY <1>1, <1>2, <1>7 DEF Boots, Stops, Control
  <2>3. LineData'
    BY <1>2, <1>3, <2>1 DEF LineData
  <2> QED  BY <2>2, <2>3
<1>8. CASE Hits
  <2> DEFINE x == Head(input)
  <2>1. /\ at = "echo" /\ Polling /\ kpc # "syscall" /\ x \in Vals /\ keyed' = Append(keyed, x)
        /\ owed'[current_proc].a0 = x /\ kpc' = "return"
        /\ current_proc' = current_proc /\ shown' = shown
    BY <1>8 DEF Hits
  <2> HIDE DEF x
  <2>2. Typed(i) /\ Seen = PromptText \o keyed /\ Seen = shown /\ Seen' = shown /\ ~ Polling'
    BY <1>1, <2>1 DEF LineData, Seen, Polling
  <2>3. /\ keyed' \in Seq(Vals) /\ Len(keyed') = i + 1 /\ keyed'[i + 1] = x
        /\ \A k \in 1..i : keyed'[k] = keyed[k]
    BY <1>3, <2>1, <2>2, AppendProperties DEF Typed
  <2>4. Typed(i + 1)'
    BY <1>2, <2>2, <2>3 DEF Typed
  <2>5. Append(Seen', x) = PromptText \o keyed'
    <3>1. Append(shown, x) = shown \o <<x>> /\ keyed' = keyed \o <<x>>
      BY <1>3, <2>1, AppendIsConcat
    <3>2. PromptText \in Seq(Vals) /\ <<x>> \in Seq(Vals)
      BY <2>1, ShellAssumption
    <3>3. (PromptText \o keyed) \o <<x>> = PromptText \o (keyed \o <<x>>)
      BY <1>3, <3>2, ConcatAssociative
    <3>4. Append(Seen', x) = shown \o <<x>> /\ shown = PromptText \o keyed
      BY <2>2, <3>1
    <3> QED  BY <3>1, <3>3, <3>4, Zenon
  <2>6. LineData'
    BY <1>2, <1>3, <2>1, <2>2, <2>3, <2>4, <2>5 DEF LineData
  <2>7. Control'
    BY <1>1, <1>2, <2>1 DEF Control
  <2> QED  BY <2>6, <2>7
<1> QED  BY <1>4, <1>5, <1>6, <1>7, <1>8, KernelMoves

-----------------------------------------------------------------------------
(* The shell's own steps.                                                  *)

\* What the shell prints, and what printf makes of it.
LEMMA Texts ==
  /\ PromptText \in Seq(Vals) /\ TooLongText \in Seq(Vals)
  /\ HelloText \in Seq(Vals) /\ UnknownText \in Seq(Vals)
  /\ PromptText # << >> /\ <<CR, LF>> \in Seq(Vals) /\ <<CR, LF>> # << >>
  /\ Literal(PromptText) = PromptText /\ Literal(UnknownText) = UnknownText
  /\ Literal(TooLongText \o <<LF>>) = TooLongText \o <<CR, LF>>
  /\ Literal(HelloText \o <<LF>>) = HelloText \o <<CR, LF>>
  /\ Literal(<<LF>>) = <<CR, LF>>
<1>1. /\ PromptText \in Seq(Vals) /\ TooLongText \in Seq(Vals)
      /\ HelloText \in Seq(Vals) /\ UnknownText \in Seq(Vals)
      /\ PromptText # << >> /\ CR \in Vals /\ LF \in Vals
  BY ShellAssumption
<1>2. \A text \in {PromptText, TooLongText, HelloText, UnknownText} :
        \A k \in DOMAIN text : text[k] # LF
  BY ShellAssumption, Zenon
<1>3. <<CR, LF>> \in Seq(Vals) /\ <<LF>> \in Seq(Vals) /\ <<CR, LF>> # << >>
  BY <1>1
<1>4. Literal(PromptText) = PromptText /\ Literal(UnknownText) = UnknownText
  BY <1>1, <1>2, LiteralPlain
<1>5. /\ Literal(TooLongText \o <<LF>>) = TooLongText \o <<CR, LF>>
      /\ Literal(HelloText \o <<LF>>) = HelloText \o <<CR, LF>>
  BY <1>1, <1>2, LiteralLine
<1>6. Literal(<<LF>>) = <<CR, LF>>
  <2>1. << >> \in Seq(Vals) /\ \A k \in DOMAIN << >> : << >>[k] # LF
    BY EmptySeq
  <2>2. Literal(<< >> \o <<LF>>) = << >> \o <<CR, LF>>
    BY <2>1, LiteralLine
  <2>3. << >> \o <<LF>> = <<LF>> /\ << >> \o <<CR, LF>> = <<CR, LF>>
    BY <1>3, ConcatEmptySeq
  <2> QED  BY <2>2, <2>3
<1> QED  BY <1>1, <1>3, <1>4, <1>5, <1>6

\* The kernel is not involved.
LEMMA Computes ==
  ASSUME KernelInv, OneProgram, NoTrap
  PROVE  /\ KernelInv' /\ OneProgram'
         /\ kpc = "user" /\ kpc' = "user"
         /\ Seen = shown /\ Seen' = shown'
<1>1. UNCHANGED vars /\ kpc = "user"
  BY DEF NoTrap
<1>2. UNCHANGED <<procs, stack, kpc, created>>
  BY <1>1 DEF vars
<1>3. OneProgram'
  BY <1>2 DEF OneProgram, Fresh
<1> QED  BY <1>1, <1>2, <1>3, StutterInv DEF Seen

\* The shell goes on to a place, printing or not, while the kernel is in "user".
LEMMA ControlOf ==
  ASSUME at' \in {"print", "getc"}, kpc' = "user"
  PROVE  Control'
BY DEF Control

LEMMA PromptData ==
  ASSUME ShellInv, Prompt
  PROVE  KernelInv' /\ OneProgram' /\ Control' /\ LineData'
<1>1. KernelInv' /\ OneProgram' /\ kpc' = "user" /\ Seen' = shown'
  BY Computes DEF ShellInv, Prompt
<1>2. /\ printing' = PromptText /\ at' = "print" /\ next' = "getc"
      /\ i' = 0 /\ keyed' = << >> /\ shown' = << >>
  BY Texts DEF Prompt, printf
<1>3. << >> \in Seq(Vals) /\ PromptText \in Seq(Vals) /\ PromptText # << >>
  BY Texts, EmptySeq
<1>4. Seen' \o printing' = PromptText
  BY <1>1, <1>2, <1>3, ConcatEmptySeq
<1>5. LineData'
  BY <1>2, <1>3, <1>4 DEF LineData, Printed
<1> QED  BY <1>1, <1>2, <1>5, ControlOf

LEMMA StoreData ==
  ASSUME ShellInv, Store
  PROVE  KernelInv' /\ OneProgram' /\ Control' /\ LineData'
<1>1. /\ KernelInv' /\ OneProgram' /\ kpc' = "user" /\ Seen' = shown'
      /\ Seen = shown
  BY Computes DEF ShellInv, Store
<1>2. /\ at = "store" /\ ch # CR /\ i # LineSize - 1
      /\ cmdline' = [cmdline EXCEPT ![i] = ch] /\ i' = i + 1 /\ at' = "getc"
      /\ UNCHANGED <<printing, keyed, shown>>
  BY DEF Store
<1>3. /\ keyed \in Seq(Vals) /\ shown \in Seq(Vals) /\ printing \in Seq(Vals)
      /\ Typed(i + 1) /\ ch = keyed[i + 1] /\ Seen = PromptText \o keyed
  BY <1>2 DEF ShellInv, LineData
<1>4. i \in Nat /\ i \in 0..LineSize /\ DOMAIN cmdline = 0..LineSize
  <2>1. DOMAIN cmdline = 0..LineSize
    BY DEF ShellInv, LineInv
  <2>2. i \in Nat /\ LineSize \in Nat /\ i < LineSize
    BY Places DEF ShellInv
  <2> QED  BY <2>1, <2>2
<1>5. cmdline'[i] = ch /\ \A k \in 1..i : cmdline'[k - 1] = cmdline[k - 1]
  BY <1>2, <1>4
<1>6. /\ Len(keyed) = i + 1
      /\ \A k \in 1..i : cmdline[k - 1] = keyed[k] /\ keyed[k] # CR
  BY <1>3 DEF Typed
<1>7. \A k \in 1..(i + 1) : cmdline'[k - 1] = keyed[k] /\ keyed[k] # CR
  <2>1. ASSUME NEW k \in 1..(i + 1) PROVE k \in 1..i \/ (k = i + 1 /\ k - 1 = i)
    BY <1>4
  <2> QED  BY <1>2, <1>3, <1>5, <1>6, <2>1
<1>8. Typed(i)'
  BY <1>2, <1>6, <1>7 DEF Typed
<1>9. LineData'
  BY <1>1, <1>2, <1>3, <1>8 DEF LineData
<1> QED  BY <1>1, <1>2, <1>9, ControlOf

LEMMA EndLineData ==
  ASSUME ShellInv, EndLine
  PROVE  KernelInv' /\ OneProgram' /\ Control' /\ LineData'
<1>1. /\ KernelInv' /\ OneProgram' /\ kpc' = "user" /\ Seen' = shown'
      /\ Seen = shown
  BY Computes DEF ShellInv, EndLine
<1>2. /\ at = "store" /\ ch = CR /\ i # LineSize - 1
      /\ cmdline' = [cmdline EXCEPT ![i] = NUL] /\ i' = i /\ at' = "print"
      /\ next' = "run" /\ printing' = <<CR, LF>>
      /\ UNCHANGED <<keyed, shown>>
  BY Texts DEF EndLine, printf
<1>3. /\ keyed \in Seq(Vals) /\ shown \in Seq(Vals)
      /\ Typed(i + 1) /\ ch = keyed[i + 1] /\ Seen = PromptText \o keyed
  BY <1>2 DEF ShellInv, LineData
<1>4. i \in Nat /\ i \in 0..LineSize /\ DOMAIN cmdline = 0..LineSize
  <2>1. DOMAIN cmdline = 0..LineSize
    BY DEF ShellInv, LineInv
  <2>2. i \in Nat /\ LineSize \in Nat /\ i < LineSize
    BY Places DEF ShellInv
  <2> QED  BY <2>1, <2>2
<1>5. cmdline'[i] = NUL /\ \A k \in 1..i : cmdline'[k - 1] = cmdline[k - 1]
  BY <1>2, <1>4
<1>6. /\ Len(keyed) = i + 1
      /\ \A k \in 1..i : cmdline[k - 1] = keyed[k] /\ keyed[k] # CR
  BY <1>3 DEF Typed
<1>7. Typed(i + 1)'
  BY <1>2, <1>5, <1>6 DEF Typed
<1>8. Ended'
  BY <1>2, <1>3, <1>5, <1>7 DEF Ended
<1>9. Seen' \o printing' = (PromptText \o keyed') \o <<CR, LF>>
  BY <1>1, <1>2, <1>3
<1>10. <<CR, LF>> \in Seq(Vals) /\ <<CR, LF>> # << >>
  BY Texts
<1>11. LineData'
  BY <1>2, <1>3, <1>8, <1>9, <1>10 DEF LineData, Printed
<1> QED  BY <1>1, <1>2, <1>11, ControlOf

\* What is shown and what is still to be printed stay the same together.
LEMMA PutNextData ==
  ASSUME ShellInv, PutNext
  PROVE  KernelInv' /\ OneProgram' /\ Control' /\ LineData'
<1> DEFINE x == Head(printing)
<1>1. /\ at = "print" /\ syscall("putc", x) /\ printing' = Tail(printing)
      /\ Len(printing) = 1 => at' = next
      /\ Len(printing) # 1 => at' = "print"
      /\ UNCHANGED <<next, i, ch, cmdline, keyed, shown>>
  BY DEF PutNext
<1>2. /\ KernelInv /\ OneProgram /\ Printed /\ printing # << >>
      /\ keyed \in Seq(Vals) /\ shown \in Seq(Vals) /\ printing \in Seq(Vals)
  BY <1>1 DEF ShellInv, LineData
<1>3. /\ x \in Vals /\ Tail(printing) \in Seq(Vals)
      /\ printing = <<x>> \o Tail(printing)
      /\ Len(printing) = 1 => Tail(printing) = << >>
      /\ Len(printing) # 1 => Tail(printing) # << >>
  <2>1. /\ x \in Vals /\ Tail(printing) \in Seq(Vals)
        /\ Len(Tail(printing)) = Len(printing) - 1 /\ Len(printing) \in Nat \ {0}
    BY <1>2, HeadTailProperties, EmptySeq
  <2>2. printing = <<x>> \o Tail(printing)
    <3>1. /\ Len(printing) \in 1..Len(printing) /\ 1 \in 1..Len(printing)
      BY <2>1
    <3>2. SubSeq(printing, 1, Len(printing))
            = <<printing[1]>> \o SubSeq(printing, 1 + 1, Len(printing))
      BY <1>2, <3>1, SubSeqRecursiveFirst
    <3>3. SubSeq(printing, 1, Len(printing)) = printing
      BY <1>2, SubSeqFull
    <3>4. x = printing[1] /\ Tail(printing) = SubSeq(printing, 1 + 1, Len(printing))
      BY <1>2, <2>1
    <3> QED  BY <3>2, <3>3, <3>4
  <2>3. Tail(printing) = << >> <=> Len(Tail(printing)) = 0
    BY <2>1, EmptySeq
  <2> QED  BY <2>1, <2>2, <2>3
<1>4. KernelInv' /\ OneProgram' /\ Called("putc", x)
  <2>1. "putc" \in Sysnos
    BY DEF Sysnos
  <2> HIDE DEF x
  <2> QED  BY <1>1, <1>2, <1>3, <2>1, ShellCalls
<1>5. Seen = shown /\ Seen' = Append(Seen, x)
  BY <1>1, <1>4, CalledSeen
<1>6. Seen' \o printing' = Seen \o printing /\ Seen' \in Seq(Vals)
  <2> HIDE DEF x
  <2>1. Seen' = Seen \o <<x>> /\ Seen \in Seq(Vals) /\ <<x>> \in Seq(Vals)
    <3>1. Seen \in Seq(Vals) /\ <<x>> \in Seq(Vals)
      BY <1>2, <1>3, <1>5
    <3>2. Append(Seen, x) = Seen \o <<x>>
      BY <1>3, <3>1, AppendIsConcat
    <3> QED  BY <1>5, <3>1, <3>2
  <2>2. (Seen \o <<x>>) \o Tail(printing) = Seen \o (<<x>> \o Tail(printing))
    BY <1>3, <2>1, ConcatAssociative
  <2>3. Seen \o <<x>> \in Seq(Vals)
    BY <2>1, ConcatProperties
  <2> QED  BY <1>1, <1>3, <2>1, <2>2, <2>3
<1> HIDE DEF x
<1>7. /\ Typed(i)' <=> Typed(i)
      /\ Ended' <=> Ended
      /\ LineOver' <=> LineOver
      /\ Transcript(keyed)' = Transcript(keyed)
  BY <1>1 DEF Typed, Ended, LineOver, Transcript
<1>8. Printed'
  BY <1>1, <1>2, <1>6, <1>7 DEF Printed
<1>9. next \in {"getc", "run", "prompt"}
  BY <1>2 DEF Printed
<1>10. Control'
  <2>1. at' \in {"print", "getc", "run", "prompt"}
    BY <1>1, <1>9
  <2>2. kpc' = "syscall" /\ owed'[current_proc'].a3 = "putc"
    BY <1>4 DEF Called
  <2> QED  BY <2>1, <2>2 DEF Control, CallFor
<1>11. keyed' \in Seq(Vals) /\ shown' \in Seq(Vals) /\ printing' \in Seq(Vals)
  BY <1>1, <1>2, <1>3
<1>12. CASE Len(printing) # 1
  <2>1. at' = "print" /\ printing' # << >>
    BY <1>1, <1>3, <1>12
  <2> QED  BY <1>4, <1>8, <1>10, <1>11, <2>1 DEF LineData
<1>13. CASE Len(printing) = 1
  <2>1. at' = next' /\ Seen' = Seen' \o printing'
    BY <1>1, <1>3, <1>6, <1>13, ConcatEmptySeq
  <2>2. CASE next = "getc"
    <3>1. i = 0 /\ keyed = << >> /\ Seen' = PromptText
      BY <1>1, <1>8, <2>1, <2>2 DEF Printed
    <3>2. Seen' = PromptText \o keyed'
      BY <1>1, <3>1, Texts, ConcatEmptySeq
    <3>3. Typed(i)'
      BY <1>7, <3>1 DEF Typed
    <3>4. at' = "getc"
      BY <1>1, <2>1, <2>2
    <3> QED  BY <1>4, <1>10, <1>11, <3>2, <3>3, <3>4 DEF LineData
  <2>3. CASE next = "run"
    <3>1. at' = "run" /\ Ended' /\ Seen' = (PromptText \o keyed') \o <<CR, LF>>
      BY <1>1, <1>8, <2>1, <2>3 DEF Printed
    <3> QED  BY <1>4, <1>10, <1>11, <3>1 DEF LineData
  <2>4. CASE next = "prompt"
    <3>1. at' = "prompt" /\ LineOver' /\ Seen' = Transcript(keyed)'
      BY <1>1, <1>8, <2>1, <2>4 DEF Printed
    <3> QED  BY <1>4, <1>10, <1>11, <3>1 DEF LineData
  <2> QED  BY <1>9, <2>2, <2>3, <2>4
<1> QED  BY <1>12, <1>13

LEMMA GetcData ==
  ASSUME ShellInv, Getc
  PROVE  KernelInv' /\ OneProgram' /\ Control' /\ LineData'
<1>1. /\ at = "getc" /\ syscall("getc", 0) /\ at' = "echo"
      /\ UNCHANGED <<next, printing, i, ch, cmdline, keyed, shown>>
  BY DEF Getc
<1>2. /\ KernelInv /\ OneProgram /\ Typed(i) /\ Seen = PromptText \o keyed
      /\ keyed \in Seq(Vals) /\ shown \in Seq(Vals) /\ printing \in Seq(Vals)
  BY <1>1 DEF ShellInv, LineData
<1>3. "getc" \in Sysnos /\ 0 \in Vals
  BY ShellAssumption DEF Sysnos, NUL
<1>4. KernelInv' /\ OneProgram' /\ Called("getc", 0)
  BY <1>1, <1>2, <1>3, ShellCalls
<1>5. Seen' = Seen /\ Polling'
  BY <1>1, <1>4, CalledSeen
<1>6. Typed(i)'
  BY <1>1, <1>2 DEF Typed
<1>7. Control'
  BY <1>1, <1>4 DEF Control, Called, CallFor
<1>8. LineData'
  BY <1>1, <1>2, <1>5, <1>6 DEF LineData
<1> QED  BY <1>4, <1>7, <1>8

LEMMA EchoData ==
  ASSUME ShellInv, Echo
  PROVE  KernelInv' /\ OneProgram' /\ Control' /\ LineData'
<1> DEFINE x == user.a0
<1>1. /\ at = "echo" /\ syscall("putc", x) /\ ch' = x /\ at' = "store"
      /\ UNCHANGED <<next, printing, i, cmdline, keyed, shown>>
  BY DEF Echo
<1>2. kpc = "user" /\ ~ Polling
  BY <1>1 DEF syscall, Ecall, TrapEntry, Polling
<1>3. /\ KernelInv /\ OneProgram
      /\ Typed(i + 1) /\ Append(Seen, keyed[i + 1]) = PromptText \o keyed
      /\ owed[current_proc].a0 = keyed[i + 1]
      /\ keyed \in Seq(Vals) /\ shown \in Seq(Vals) /\ printing \in Seq(Vals)
  BY <1>1, <1>2 DEF ShellInv, LineData
<1>4. x = keyed[i + 1] /\ x \in Vals
  BY <1>2, <1>3 DEF KernelInv, RunningProc, TypeOK, Context
<1>5. KernelInv' /\ OneProgram' /\ Called("putc", x)
  <2>1. "putc" \in Sysnos
    BY DEF Sysnos
  <2> HIDE DEF x
  <2> QED  BY <1>1, <1>3, <1>4, <2>1, ShellCalls
<1> HIDE DEF x
<1>6. Seen' = Append(Seen, x)
  BY <1>1, <1>5, CalledSeen
<1>7. Seen' = PromptText \o keyed'
  BY <1>1, <1>3, <1>4, <1>6
<1>8. Typed(i + 1)' /\ ch' = keyed'[i' + 1]
  BY <1>1, <1>3, <1>4 DEF Typed
<1>9. Control'
  BY <1>1, <1>5 DEF Control, Called, CallFor
<1>10. LineData'
  BY <1>1, <1>3, <1>7, <1>8 DEF LineData
<1> QED  BY <1>5, <1>9, <1>10

LEMMA RunExitData ==
  ASSUME ShellInv, RunExit
  PROVE  KernelInv' /\ OneProgram' /\ Control' /\ LineData'
<1>1. /\ syscall("exit", 0) /\ at' = "exited" /\ UNCHANGED <<printing, keyed, shown>>
  BY DEF RunExit
<1>2. /\ KernelInv /\ OneProgram
      /\ keyed \in Seq(Vals) /\ shown \in Seq(Vals) /\ printing \in Seq(Vals)
  BY DEF ShellInv, LineData
<1>3. "exit" \in Sysnos /\ 0 \in Vals
  BY ShellAssumption DEF Sysnos, NUL
<1>4. KernelInv' /\ OneProgram' /\ Called("exit", 0)
  BY <1>1, <1>2, <1>3, ShellCalls
<1>5. Control'
  BY <1>1, <1>4 DEF Control, Called, CallFor
<1>6. LineData'
  BY <1>1, <1>2 DEF LineData
<1> QED  BY <1>4, <1>5, <1>6

\* Where the newlines are counted: the echoed line b, a newline e, the answer a.
LEMMA AnswerBehindLine ==
  ASSUME NEW b \in Seq(Vals), NEW e \in Seq(Vals), NEW a \in Seq(Vals)
  PROVE  (b \o e) \o (a \o e) = (b \o (e \o a)) \o e
<1>1. b \o e \in Seq(Vals)
  BY ConcatProperties
<1>2. ((b \o e) \o a) \o e = (b \o e) \o (a \o e)
  BY <1>1, ConcatAssociative
<1>3. (b \o e) \o a = b \o (e \o a)
  BY ConcatAssociative
<1> QED  BY <1>2, <1>3

\* The shell starts to print the answer that goes with the keys.
LEMMA AnswerPrinted ==
  ASSUME ShellInv, NoTrap, UNCHANGED <<keyed, shown>>, LineOver,
         NEW text \in Seq(Vals), text # << >>, printf(text, "prompt"),
         shown \o text = Transcript(keyed)
  PROVE  KernelInv' /\ OneProgram' /\ Control' /\ LineData'
<1>1. KernelInv' /\ OneProgram' /\ kpc' = "user" /\ Seen' = shown'
  BY Computes DEF ShellInv
<1>2. keyed \in Seq(Vals) /\ shown \in Seq(Vals)
  BY DEF ShellInv, LineData
<1>3. at' = "print" /\ next' = "prompt" /\ printing' = text
  BY DEF printf
<1>4. LineOver' /\ Transcript(keyed)' = Transcript(keyed)
  BY DEF LineOver, Transcript
<1>5. Seen' \o printing' = Transcript(keyed)'
  BY <1>1, <1>3, <1>4
<1>6. LineData'
  BY <1>2, <1>3, <1>4, <1>5 DEF LineData, Printed
<1> QED  BY <1>1, <1>3, <1>6, ControlOf

LEMMA TooLongData ==
  ASSUME ShellInv, TooLong
  PROVE  KernelInv' /\ OneProgram' /\ Control' /\ LineData'
<1> DEFINE text == TooLongText \o <<CR, LF>>
           b == PromptText \o keyed
<1>1. /\ at = "store" /\ i = LineSize - 1 /\ NoTrap /\ printf(text, "prompt")
      /\ UNCHANGED <<keyed, shown>>
  BY Texts DEF TooLong
<1>2. /\ keyed \in Seq(Vals) /\ shown = b /\ Len(keyed) = i + 1
  BY <1>1, Computes DEF ShellInv, LineData, Typed
<1>3. Len(keyed) = LineSize
  <2>1. LineSize \in Nat
    BY ShellAssumption
  <2> QED  BY <1>1, <1>2, <2>1
<1>4. /\ text \in Seq(Vals) /\ text # << >> /\ b \in Seq(Vals)
      /\ TooLongText \in Seq(Vals) /\ <<CR, LF>> \in Seq(Vals)
  BY <1>2, Texts, ConcatProperties, ConcatEqualIffEmpty
<1>5. Transcript(keyed) = (b \o TooLongText) \o <<CR, LF>>
  BY <1>3 DEF Transcript
<1> HIDE DEF b
<1>6. b \o text = (b \o TooLongText) \o <<CR, LF>>
  BY <1>4, ConcatAssociative
<1>7. shown \o text = Transcript(keyed) /\ LineOver
  BY <1>2, <1>3, <1>5, <1>6 DEF LineOver
<1> HIDE DEF text
<1> QED  BY <1>1, <1>4, <1>7, AnswerPrinted

LEMMA AnswerData ==
  ASSUME ShellInv, Answer
  PROVE  KernelInv' /\ OneProgram' /\ Control' /\ LineData'
<1> DEFINE line == SubSeq(keyed, 1, Len(keyed) - 1)
           command == Command(line)
           b == PromptText \o keyed
           e == <<CR, LF>>
<1>1. at = "run" /\ NoTrap /\ UNCHANGED <<keyed, shown>>
  BY DEF Answer
<1>2. keyed \in Seq(Vals) /\ Ended /\ shown = b \o e
  BY <1>1, Computes DEF ShellInv, LineData
<1>3. i \in Nat /\ LineSize \in Nat /\ i < LineSize
  BY Places DEF ShellInv
<1>4. /\ Len(keyed) = i + 1 /\ keyed[i + 1] = CR /\ cmdline[i] = NUL /\ i # LineSize - 1
      /\ \A k \in 1..i : cmdline[k - 1] = keyed[k]
  BY <1>2 DEF Ended, Typed
<1>5. Len(keyed) # LineSize /\ LineOver
  <2>1. Len(keyed) # LineSize
    BY <1>3, <1>4
  <2>2. Last(keyed) = CR
    BY <1>4 DEF Last
  <2> QED  BY <2>1, <2>2 DEF LineOver
<1>6. line \in Seq(Vals) /\ Holds(cmdline, line)
  <2>1. Len(keyed) - 1 = i
    BY <1>3, <1>4
  <2>2. \A k \in 1..i : keyed[k] \in Vals
    <3>1. \A k \in 1..i : k \in 1..Len(keyed)
      BY <1>3, <1>4
    <3> QED  BY <1>2, <3>1, ElementOfSeq
  <2>3. SubSeq(keyed, 1, i) \in Seq(Vals) /\ Len(SubSeq(keyed, 1, i)) = i
        /\ \A k \in 1..i : SubSeq(keyed, 1, i)[k] = keyed[k]
    BY <1>3, <2>2
  <2>4. line = SubSeq(keyed, 1, i)
    BY <2>1
  <2>5. cmdline = [k \in 0..LineSize |-> cmdline[k]]
    BY DEF ShellInv, LineInv
  <2>6. i <= LineSize
    BY <1>3
  <2> HIDE DEF line
  <2> QED  BY <1>4, <2>3, <2>4, <2>5, <2>6 DEF Holds
<1> HIDE DEF line
<1>7. StringAt(cmdline) = command /\ command \in Seq(Vals)
  BY <1>6, CommandRead
<1>8. Equal(cmdline, Hello) <=> command = Hello
  <2>1. Hello \in Seq(Vals) /\ \A k \in DOMAIN Hello : Hello[k] # NUL
    BY ShellAssumption
  <2> QED  BY <1>6, <2>1, EqualCommand
<1> DEFINE a == IF command = Hello THEN HelloText ELSE UnknownText \o command
<1>9. Transcript(keyed) = (b \o (e \o a)) \o e
  BY <1>5 DEF Transcript, line
<1> HIDE DEF command
<1>10. a \in Seq(Vals)
  <2>1. HelloText \in Seq(Vals) /\ UnknownText \o command \in Seq(Vals)
    BY <1>7, Texts, ConcatProperties
  <2> QED  BY <2>1
<1>11. printf(a \o e, "prompt")
  <2>1. CASE Equal(cmdline, Hello) /\ printf(Literal(HelloText \o <<LF>>), "prompt")
    <3>1. a = HelloText
      BY <1>8, <2>1
    <3> QED  BY <2>1, <3>1, Texts
  <2>2. CASE /\ ~ Equal(cmdline, Hello)
             /\ printf(Literal(UnknownText) \o StringAt(cmdline) \o Literal(<<LF>>), "prompt")
    <3>1. a = UnknownText \o command
      BY <1>8, <2>2
    <3>2. Literal(UnknownText) \o StringAt(cmdline) \o Literal(<<LF>>) = a \o e
      BY <1>7, <3>1, Texts
    <3> QED  BY <2>2, <3>2
  <2> QED  BY <2>1, <2>2 DEF Answer
<1>12. b \in Seq(Vals) /\ e \in Seq(Vals) /\ e # << >>
  BY <1>2, Texts, ConcatProperties
<1> HIDE DEF a, b, e
<1>13. a \o e \in Seq(Vals) /\ a \o e # << >>
  BY <1>10, <1>12, ConcatProperties, ConcatEqualIffEmpty
<1>14. shown \o (a \o e) = Transcript(keyed)
  <2>1. (b \o e) \o (a \o e) = (b \o (e \o a)) \o e
    BY <1>10, <1>12, AnswerBehindLine
  <2> QED  BY <1>2, <1>9, <2>1, Zenon
<1> QED  BY <1>1, <1>5, <1>11, <1>13, <1>14, AnswerPrinted

-----------------------------------------------------------------------------
(* The invariant of the whole system.                                      *)

\* A key is typed, or nothing happens: the shell and the console are as they were.
LEMMA OutsideData ==
  ASSUME ShellInv, KernelInv', UNCHANGED shellVars,
         UNCHANGED <<procs, current_proc, stack, kpc, panic, created, owed>>
  PROVE  OneProgram' /\ Control' /\ LineData'
<1>1. UNCHANGED main /\ UNCHANGED <<keyed, shown>>
  BY DEF shellVars
<1>2. at' = at
  BY <1>1, MainUnchanged
<1>3. OneProgram'
  BY DEF ShellInv, OneProgram, Fresh
<1>4. Control'
  BY <1>2 DEF ShellInv, Control
<1>5. Seen' = Seen /\ Polling' = Polling
  BY <1>1 DEF Seen, Polling
<1>6. LineData /\ shown' \in Seq(Vals)
  BY <1>1 DEF ShellInv, LineData
<1> QED  BY <1>1, <1>3, <1>4, <1>5, <1>6, DataSame

LEMMA ShellInitInv == ShellInit => ShellInv
<1> SUFFICES ASSUME ShellInit PROVE ShellInv
  OBVIOUS
<1>1. /\ Init /\ at = "start" /\ printing = << >> /\ keyed = << >> /\ shown = << >>
  BY DEF ShellInit
<1>2. KernelInv /\ LineInv
  BY <1>1, InitInv, LineInit
<1>3. kpc = "kmain" /\ created = 0 /\ \A p \in Slots \ {idle_proc} : procs[p].state = "UNUSED"
  BY <1>1 DEF Init, Unused
<1>4. OneProgram
  BY <1>3 DEF OneProgram
<1>5. Control
  BY <1>1, <1>3 DEF Control
<1>6. LineData
  BY <1>1, EmptySeq DEF LineData
<1> QED  BY <1>2, <1>4, <1>5, <1>6 DEF ShellInv

LEMMA ShellStepInv == ShellInv /\ [ShellNext]_allVars => ShellInv'
<1> SUFFICES ASSUME ShellInv, [ShellNext]_allVars PROVE ShellInv'
  OBVIOUS
<1>1. LineInv'
  BY LineStep DEF ShellInv
<1>2. KernelInv
  BY DEF ShellInv
<1>3. CASE ShellStep
  <2>1. KernelInv' /\ OneProgram' /\ Control' /\ LineData'
    BY <1>3, PromptData, PutNextData, GetcData, EchoData, TooLongData, EndLineData, StoreData,
       AnswerData, RunExitData DEF ShellStep
  <2> QED  BY <1>1, <2>1 DEF ShellInv
<1>4. CASE KernelRuns
  <2>1. KernelInv'
    BY <1>2, <1>4, NextInv DEF KernelRuns, Next
  <2> QED  BY <1>1, <1>4, <2>1, KernelMoves, KernelData DEF ShellInv
<1>5. CASE KeyTyped
  <2>1. KeyPressed /\ UNCHANGED shellVars
    BY <1>5 DEF KeyTyped
  <2>2. KernelInv' /\ UNCHANGED <<procs, current_proc, stack, kpc, panic, created, owed>>
    BY <1>2, <2>1, KeyPressedInv DEF KeyPressed
  <2> QED  BY <1>1, <2>1, <2>2, OutsideData DEF ShellInv
<1>6. CASE UNCHANGED vars /\ UNCHANGED shellVars
  <2>1. UNCHANGED <<procs, current_proc, stack, kpc, panic, created, owed>>
    BY <1>6 DEF vars
  <2> QED  BY <1>1, <1>2, <1>6, <2>1, StutterInv, OutsideData DEF ShellInv
<1> QED  BY <1>3, <1>4, <1>5, <1>6 DEF ShellNext, Spin, allVars

\* Wherever the kernel and the shell are, what has been shown of the line that
\* is being typed, together with what is still to be printed, is what main makes
\* of the keys SYS_GETC has returned.
THEOREM ShellInvariance == ShellSpec => []ShellInv
BY ShellInitInv, ShellStepInv, PTL DEF ShellSpec

\* Every line is answered by exactly what goes with it, for every size of
\* cmdline, every key and whatever the earlier lines have left behind.
THEOREM LinesAreAnswered == ShellSpec => []ShellAnswers
<1>1. ShellInv => ShellAnswers
  <2> SUFFICES ASSUME ShellInv, at = "prompt", kpc = "user"
               PROVE  shown = Transcript(keyed) /\ (Len(keyed) = LineSize \/ Last(keyed) = CR)
    BY DEF ShellAnswers
  <2>1. LineOver /\ Seen = Transcript(keyed)
    BY DEF ShellInv, LineData
  <2> QED  BY <2>1 DEF Seen, LineOver
<1> QED  BY <1>1, ShellInvariance, PTL

\* The PANIC at the end of kmain is the only one, and exit leads to it.
OnlyExitHalts ==
  panic # "none" => at = "exited" /\ panic = "Exited out of scheduler. Halting!"

\* The kernel under the shell panics only after the shell's exit, and then by the
\* PANIC at the end of kmain: the safety part of ShellLives, with the message.
THEOREM OnlyExitPanics == ShellSpec => []OnlyExitHalts
<1>1. ShellInv => OnlyExitHalts
  BY DEF ShellInv, KernelInv, Panics, Control, OnlyExitHalts
<1> QED  BY <1>1, ShellInvariance, PTL

\* The kernel keeps its promises to the program it is shipped with: the shell's
\* calls return with its registers, it runs under its own page table and on its
\* own kernel stack, which never holds more than three frames.
THEOREM KernelUnderShell ==
  ShellSpec => [](ResumeIntact /\ RunsAsItself /\ StackBounded)
<1>1. ShellInv => ResumeIntact /\ RunsAsItself /\ StackBounded
  BY InvRunsAsItself DEF ShellInv, KernelInv, RunningProc, ResumeIntact
<1> QED  BY <1>1, ShellInvariance, PTL
=============================================================================
