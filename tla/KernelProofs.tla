---------------------------- MODULE KernelProofs ----------------------------
(***************************************************************************)
(* Machine-checked facts about Kernel, for every number of process slots   *)
(* and of programs, and all contexts a program can trap with.              *)
(***************************************************************************)
EXTENDS Kernel, TLAPS

-----------------------------------------------------------------------------
(* The inductive invariant: what is on every kernel stack, and where the   *)
(* hart is, at each place the kernel can be.                               *)

SwitchFrame(ra) == [kind |-> "switch", ra |-> ra]

\* The two frames at the bottom of the stack are those of the last trap of
\* process p: its registers, and the ecall it is to return behind.
InTrap(p) ==
  /\ Len(stack[p]) >= 2
  /\ stack[p][1] = TrapFrame(owed[p])
  /\ stack[p][2].kind = "call" /\ stack[p][2].user_pc + 4 = owed[p].pc

\* Created and never switched to.
Fresh(p) ==
  procs[p].sp = <<p, 1>> /\ stack[p] = <<SwitchFrame("user_entry")>>

\* Switched away from in SYS_GETC.
Waiting(p) ==
  /\ procs[p].sp = <<p, 3>>
  /\ Len(stack[p]) = 3 /\ stack[p][3] = SwitchFrame("getc")
  /\ InTrap(p)

\* A slot in use holds a process with its own pid and page table. The idle
\* process never exits.
SlotsInUse ==
  /\ \A p \in Slots : procs[p].state # "UNUSED" =>
       procs[p].page_table = p /\ procs[p].pid = IF p = idle_proc THEN 0 ELSE p + 1
  /\ \A p \in Slots : procs[p].state = "UNUSED" => procs[p].pid = 0
  /\ procs[idle_proc].state = "RUNNABLE"

\* The kernel stops by a PANIC, and never by the one after proc_exit.
Panics ==
  /\ panic # "none" <=> kpc = "panic"
  /\ kpc # "unreachable" /\ panic # "Unreachable!"

\* The running process, and the stack the hart is on.
RunningProc ==
  /\ procs[current_proc].state = "RUNNABLE"
  /\ kpc \in {"kmain", "halt"} => current_proc = idle_proc /\ sp = <<Boot, 0>>
  /\ kpc \notin {"kmain", "halt"} =>
       /\ current_proc # idle_proc
       /\ satp = current_proc /\ sscratch = <<current_proc, 0>>
       /\ procs[idle_proc].sp = <<Boot, 1>> /\ stack[Boot] = <<SwitchFrame("halt")>>
  /\ kpc \in {"user_entry", "user"} => sp = <<current_proc, 0>>
  /\ kpc = "user" => user = owed[current_proc]
  /\ kpc \in {"syscall", "getc", "yield", "return"} =>
       sp = <<current_proc, 2>> /\ InTrap(current_proc)

\* Every process that can be switched to.
SuspendedProcs ==
  \A p \in Slots : procs[p].state = "RUNNABLE" /\ p # idle_proc /\ p # current_proc =>
    Fresh(p) \/ Waiting(p)

KernelInv ==
  /\ TypeOK
  /\ SlotsInUse
  /\ StackBounded
  /\ Panics
  /\ HaltsOnlyWhenDone
  /\ kpc # "panic" => RunningProc /\ SuspendedProcs

\* How far slot b is ahead of slot a in the order in which yield searches.
Ahead(a, b) == IF b >= a THEN b - a ELSE b - a + PROCS_MAX

\* Of a process that waits for its turn, those who have had theirs since lie
\* between it and the running one.
TurnsTaken ==
  /\ kpc = "kmain" => \A p \in Slots : passed[p] = {}
  /\ kpc # "panic" =>
       \A p \in Slots : procs[p].state = "RUNNABLE" /\ p # idle_proc /\ p # current_proc =>
         \A q \in passed[p] : q # p /\ Ahead(p, q) <= Ahead(p, current_proc)

-----------------------------------------------------------------------------
(* The kernel stacks.                                                      *)

\* Pushing a frame on a stack whose pointer is n keeps what is below.
LEMMA PushedFrame ==
  ASSUME NEW q \in Seq(Frames), NEW n \in Nat, n <= Len(q), NEW f \in Frames
  PROVE  LET r == Append(SubSeq(q, 1, n), f)
         IN  /\ r \in Seq(Frames) /\ Len(r) = n + 1
             /\ r[n + 1] = f /\ \A k \in 1..n : r[k] = q[k]
<1> DEFINE s == SubSeq(q, 1, n)
<1>1. s \in Seq(Frames) /\ Len(s) = n /\ \A k \in 1..n : s[k] = q[k]
  OBVIOUS
<1> HIDE DEF s
<1>2. LET r == Append(s, f)
      IN  r \in Seq(Frames) /\ Len(r) = n + 1 /\ r[n + 1] = f /\ \A k \in 1..n : r[k] = s[k]
  BY <1>1
<1> QED  BY <1>1, <1>2 DEF s

\* Where yield looks next: the slots after the running process, cyclically.
LEMMA ModSmall ==
  ASSUME NEW n \in Nat \ {0}, NEW x \in 0..(2 * n - 1)
  PROVE  x % n = IF x < n THEN x ELSE x - n
<1>1. x % n \in 0..(n - 1) /\ x \div n \in Int /\ x = n * (x \div n) + (x % n)
  OBVIOUS
<1> DEFINE d == x \div n
           m == x % n
<1>2. m \in 0..(n - 1) /\ d \in Int /\ x = n * d + m
  BY <1>1
<1> HIDE DEF d, m
<1>3. d = 0 \/ d = 1
  <2>1. CASE d < 0
    <3>1. n * d <= - n  BY <1>2, <2>1
    <3> QED  BY <1>2, <3>1
  <2>2. CASE d > 1
    <3>1. n * d >= 2 * n  BY <1>2, <2>2
    <3> QED  BY <1>2, <3>1
  <2> QED  BY <1>2, <2>1, <2>2
<1>4. m = IF x < n THEN x ELSE x - n
  BY <1>2, <1>3
<1> QED  BY <1>4 DEF m

-----------------------------------------------------------------------------
(* The search of yield.                                                    *)

\* What yield is given: the table of processes, in which the caller may have
\* been marked.
Marked(ps) ==
  /\ ps \in [Slots -> [state : {"UNUSED", "RUNNABLE", "EXITED"}, pid : 0..PROCS_MAX,
                       sp : Stacks \X Nat, page_table : Slots \cup {NoTable}]]
  /\ \A p \in Slots : /\ ps[p].pid = procs[p].pid /\ ps[p].sp = procs[p].sp
                      /\ ps[p].page_table = procs[p].page_table
                      /\ p # current_proc => ps[p].state = procs[p].state
  /\ \/ ps[current_proc].state = procs[current_proc].state
     \/ ps[current_proc].state = "EXITED" /\ current_proc # idle_proc

\* The search visits every slot, first the one whose number is the pid.
LEMMA Candidates ==
  ASSUME NEW ps, current_proc \in Slots, ps[current_proc].pid \in 0..PROCS_MAX
  PROVE  /\ \A k \in Slots : Candidate(ps, k) \in Slots
         /\ \A k \in Slots : Candidate(ps, k) =
              IF ps[current_proc].pid + k < PROCS_MAX THEN ps[current_proc].pid + k
              ELSE ps[current_proc].pid + k - PROCS_MAX
         /\ \A p \in Slots : /\ Ahead(ps[current_proc].pid, p) \in Slots
                             /\ Candidate(ps, Ahead(ps[current_proc].pid, p)) = p
<1> DEFINE b == ps[current_proc].pid
<1>1. PROCS_MAX \in Nat \ {0, 1} /\ b \in 0..PROCS_MAX
  BY KernelAssumption
<1>2. ASSUME NEW k \in Slots
      PROVE  (b + k) % PROCS_MAX = IF b + k < PROCS_MAX THEN b + k ELSE b + k - PROCS_MAX
  <2>1. b + k \in 0..(2 * PROCS_MAX - 1)
    BY <1>1 DEF Slots
  <2>2. PROCS_MAX \in Nat \ {0}
    BY <1>1
  <2>3. \A x \in 0..(2 * PROCS_MAX - 1) :
          x % PROCS_MAX = IF x < PROCS_MAX THEN x ELSE x - PROCS_MAX
    BY <2>2, ModSmall, Zenon
  <2>4. PICK x \in 0..(2 * PROCS_MAX - 1) : x = b + k
    BY <2>1
  <2>5. x % PROCS_MAX = IF x < PROCS_MAX THEN x ELSE x - PROCS_MAX
    BY <2>3
  <2> QED  BY <1>1, <2>4, <2>5 DEF Slots
<1>3. \A p \in Slots : Ahead(b, p) \in Slots
  BY <1>1 DEF Ahead, Slots
<1> HIDE DEF b
<1>4. \A k \in Slots : Candidate(ps, k) = IF b + k < PROCS_MAX THEN b + k ELSE b + k - PROCS_MAX
  BY <1>2 DEF Candidate, b
<1>5. \A k \in Slots : Candidate(ps, k) \in Slots
  BY <1>1, <1>4 DEF Slots
<1>6. ASSUME NEW p \in Slots PROVE Candidate(ps, Ahead(b, p)) = p
  <2>1. Ahead(b, p) \in Slots
    BY <1>3
  <2>2. Candidate(ps, Ahead(b, p)) =
          IF b + Ahead(b, p) < PROCS_MAX THEN b + Ahead(b, p) ELSE b + Ahead(b, p) - PROCS_MAX
    BY <1>4, <2>1
  <2> QED  BY <1>1, <2>2 DEF Ahead, Slots
<1> QED  BY <1>3, <1>4, <1>5, <1>6 DEF b

\* The process yield finds can run. It is the idle process only when no other
\* can.
LEMMA Found ==
  ASSUME TypeOK, SlotsInUse, NEW ps, Marked(ps), NEW next \in Slots, NextProc(ps, next)
  PROVE  \/ next # idle_proc /\ ps[next].state = "RUNNABLE"
         \/ next = idle_proc /\ \A p \in Slots \ {idle_proc} : ps[p].state # "RUNNABLE"
<1>1. current_proc \in Slots /\ ps[current_proc].pid \in 0..PROCS_MAX
  BY DEF TypeOK, Marked
<1>2. \A p \in Slots : ps[p].state = "RUNNABLE" => procs[p].state # "UNUSED"
  BY <1>1 DEF SlotsInUse, Marked, TypeOK
<1>3. \A p \in Slots : ps[p].state = "RUNNABLE" => (ps[p].pid > 0 <=> p # idle_proc)
  <2> SUFFICES ASSUME NEW p \in Slots, ps[p].state = "RUNNABLE"
               PROVE  ps[p].pid > 0 <=> p # idle_proc
    OBVIOUS
  <2>1. ps[p].pid = procs[p].pid
    BY DEF Marked
  <2>2. procs[p].pid = IF p = idle_proc THEN 0 ELSE p + 1
    BY <1>2 DEF SlotsInUse
  <2> QED  BY <2>1, <2>2, KernelAssumption DEF Slots, idle_proc
<1>4. CASE \E k \in Slots : Eligible(ps, k) /\ next = Candidate(ps, k)
  BY <1>3, <1>4 DEF Eligible
<1>5. CASE (\A k \in Slots : ~ Eligible(ps, k)) /\ next = idle_proc
  <2>1. ASSUME NEW p \in Slots, p # idle_proc PROVE ps[p].state # "RUNNABLE"
    <3>1. PICK k \in Slots : Candidate(ps, k) = p
      BY <1>1, Candidates
    <3>2. ~ (ps[p].state = "RUNNABLE" /\ ps[p].pid > 0)
      BY <1>5, <3>1 DEF Eligible
    <3> QED  BY <1>3, <2>1, <3>2
  <2> QED  BY <1>5, <2>1
<1> QED  BY <1>4, <1>5 DEF NextProc, Slots

\* A process that can run and is passed over lies behind the one that was
\* chosen, which is therefore further ahead of it than the caller of yield.
LEMMA PassedOver ==
  ASSUME TypeOK, SlotsInUse, NEW ps, Marked(ps), NEW next \in Slots, NextProc(ps, next),
         current_proc # idle_proc, procs[current_proc].state # "UNUSED",
         NEW p \in Slots, p # idle_proc, p # next, p # current_proc,
         ps[p].state = "RUNNABLE"
  PROVE  Ahead(p, current_proc) < Ahead(p, next)
<1> DEFINE b == ps[current_proc].pid
           m == Ahead(b, p)
<1>1. current_proc \in Slots /\ b \in 0..PROCS_MAX /\ b = current_proc + 1
  <2>1. current_proc \in Slots /\ PROCS_MAX \in Nat
    BY KernelAssumption DEF TypeOK
  <2>2. ps[current_proc].pid = procs[current_proc].pid
    BY <2>1 DEF Marked
  <2>3. procs[current_proc].pid = current_proc + 1
    BY <2>1 DEF SlotsInUse
  <2> QED  BY <2>1, <2>2, <2>3 DEF Slots
<1>2. ps[p].pid > 0
  <2>1. procs[p].state # "UNUSED"
    BY DEF Marked
  <2>2. ps[p].pid = p + 1
    BY <2>1 DEF Marked, SlotsInUse
  <2> QED  BY <2>2, KernelAssumption DEF Slots
<1>3. m \in Slots /\ Candidate(ps, m) = p
  BY <1>1, Candidates
<1>4. Eligible(ps, m)
  BY <1>2, <1>3 DEF Eligible
<1>5. PICK k \in Slots : /\ \A j \in 0..(k - 1) : ~ Eligible(ps, j)
                         /\ next = Candidate(ps, k)
  BY <1>3, <1>4 DEF NextProc, Slots
<1>6. k <= m /\ k # m
  BY <1>3, <1>4, <1>5 DEF Slots
<1>7. next = IF b + k < PROCS_MAX THEN b + k ELSE b + k - PROCS_MAX
  BY <1>1, <1>5, Candidates
<1>8. p = IF b + m < PROCS_MAX THEN b + m ELSE b + m - PROCS_MAX
  BY <1>1, <1>3, Candidates
<1>9. m \in 0..(PROCS_MAX - 1) /\ k \in 0..(PROCS_MAX - 1) /\ current_proc \in 0..(PROCS_MAX - 1)
  BY <1>1, <1>3 DEF Slots
<1> HIDE DEF b, m
<1> QED  BY <1>1, <1>6, <1>7, <1>8, <1>9, KernelAssumption DEF Ahead

-----------------------------------------------------------------------------
(* Every action keeps the invariant.                                       *)

\* What the kernel pushes is a frame.
LEMMA FrameTypes ==
  /\ \A ra \in Ras : SwitchFrame(ra) \in Frames
  /\ \A c \in Context : TrapFrame(c) \in Frames
  /\ \A n \in Nat : [kind |-> "call", user_pc |-> n] \in Frames
BY DEF SwitchFrame, TrapFrame, Context, Frames

LEMMA InitInv ==
  ASSUME Init
  PROVE  KernelInv
<1>1. PROCS_MAX \in Nat \ {0, 1} /\ NumImages \in Nat /\ Vals \subseteq Nat
  BY KernelAssumption
<1>2. idle_proc \in Slots /\ Boot \in Stacks /\ Boot \notin Slots
  BY <1>1 DEF Slots, Stacks, Boot, idle_proc
<1>3. <<SwitchFrame("user_entry")>> \in Seq(Frames) /\ << >> \in Seq(Frames)
  BY FrameTypes DEF Ras
<1>4. \A s \in Stacks :
        stack[s] \in Seq(Frames) /\ Len(stack[s]) <= 3
  BY <1>3 DEF Init, SwitchFrame
<1>5. user \in Context
  BY DEF Init, Context, Sysnos
<1>6. \A p \in Slots : <<p, 1>> \in Stacks \X Nat
  BY DEF Stacks
<1>7. TypeOK
  <2>1. procs \in [Slots -> [state : {"UNUSED", "RUNNABLE", "EXITED"}, pid : 0..PROCS_MAX,
                             sp : Stacks \X Nat, page_table : Slots \cup {NoTable}]]
    BY <1>1, <1>2, <1>6 DEF Init, Unused
  <2>2. stack \in [Stacks -> Seq(Frames)]
    BY <1>4 DEF Init
  <2>3. sp \in Stacks \X Nat /\ sscratch \in Stacks \X Nat /\ input \in Seq(Vals)
    BY <1>2 DEF Init
  <2>4. owed \in [Slots -> Context] /\ passed \in [Slots -> SUBSET Slots]
    BY <1>5 DEF Init
  <2> QED  BY <1>1, <1>2, <1>5, <2>1, <2>2, <2>3, <2>4 DEF Init, TypeOK
<1>8. SlotsInUse
  BY <1>2 DEF Init, SlotsInUse, Unused
<1>9. RunningProc
  BY <1>2 DEF Init, RunningProc
<1>10. SuspendedProcs
  BY DEF Init, SuspendedProcs, Unused
<1> QED
  BY <1>4, <1>7, <1>8, <1>9, <1>10
     DEF Init, KernelInv, StackBounded, Panics, HaltsOnlyWhenDone

LEMMA CreateImageInv ==
  ASSUME KernelInv, CreateImage
  PROVE  KernelInv'
<1>1. PICK i \in Slots : create_process(i)
  BY DEF CreateImage
<1>2. /\ PROCS_MAX \in Nat \ {0, 1} /\ NumImages \in Nat
      /\ i \in Stacks /\ i # Boot /\ idle_proc \in Slots
  BY KernelAssumption DEF Slots, Stacks, Boot, idle_proc
<1>3. kpc = "kmain" /\ kpc' = kpc /\ current_proc = idle_proc /\ i # idle_proc
  BY <1>1 DEF KernelInv, RunningProc, SlotsInUse, CreateImage, create_process, FreeSlot
<1>4. <<SwitchFrame("user_entry")>> \in Seq(Frames) /\ Len(<<SwitchFrame("user_entry")>>) = 1
  BY FrameTypes DEF Ras
<1>5. /\ stack' \in [Stacks -> Seq(Frames)]
      /\ stack'[i] = <<SwitchFrame("user_entry")>>
      /\ \A s \in Stacks : s # i => stack'[s] = stack[s]
  <2>1. stack' = [stack EXCEPT ![i] = <<SwitchFrame("user_entry")>>]
    BY <1>1 DEF create_process, SwitchFrame
  <2> QED  BY <1>2, <1>4, <2>1 DEF KernelInv, TypeOK
<1>6. StackBounded'
  <2> SUFFICES ASSUME NEW s \in Stacks PROVE Len(stack'[s]) <= 3
    BY DEF StackBounded
  <2>1. CASE s = i
    <3>1. Len(stack'[s]) = 1  BY <1>4, <1>5, <2>1
    <3> QED  BY <3>1
  <2>2. CASE s # i
    <3>1. stack'[s] = stack[s]  BY <1>5, <2>2
    <3> QED  BY <3>1 DEF KernelInv, StackBounded
  <2> QED  BY <2>1, <2>2
<1>7. /\ procs' \in [Slots -> [state : {"UNUSED", "RUNNABLE", "EXITED"}, pid : 0..PROCS_MAX,
                               sp : Stacks \X Nat, page_table : Slots \cup {NoTable}]]
      /\ procs'[i] = [state |-> "RUNNABLE", pid |-> i + 1, sp |-> <<i, 1>>, page_table |-> i]
      /\ \A p \in Slots : p # i => procs'[p] = procs[p]
  <2>1. i + 1 \in 0..PROCS_MAX
    BY <1>2 DEF Slots
  <2> QED  BY <1>1, <1>2, <2>1 DEF create_process, KernelInv, TypeOK
<1>8. TypeOK'
  <2>1. created' \in 0..NumImages
    <3>1. created \in 0..NumImages /\ created < NumImages /\ created' = created + 1
      BY DEF CreateImage, KernelInv, TypeOK
    <3> QED  BY <1>2, <3>1
  <2> QED  BY <1>5, <1>7, <2>1 DEF CreateImage, KernelInv, TypeOK
<1>9. SlotsInUse'
  BY <1>2, <1>3, <1>7 DEF KernelInv, SlotsInUse
<1>10. RunningProc' /\ Panics' /\ HaltsOnlyWhenDone'
  BY <1>2, <1>3, <1>7 DEF CreateImage, KernelInv, RunningProc, Panics, HaltsOnlyWhenDone
<1>11. SuspendedProcs'
  <2> SUFFICES ASSUME NEW p \in Slots, procs'[p].state = "RUNNABLE", p # idle_proc
               PROVE  Fresh(p)' \/ Waiting(p)'
    BY <1>3 DEF SuspendedProcs, CreateImage
  <2>1. CASE p = i
    BY <1>5, <1>7, <2>1 DEF Fresh
  <2>2. CASE p # i
    <3>1. Fresh(p) \/ Waiting(p)
      BY <1>3, <1>7, <2>2 DEF KernelInv, SuspendedProcs
    <3>2. procs'[p] = procs[p] /\ stack'[p] = stack[p] /\ owed' = owed
      BY <1>5, <1>7, <2>2 DEF CreateImage, Stacks
    <3> QED  BY <3>1, <3>2 DEF Fresh, Waiting, InTrap
  <2> QED  BY <2>1, <2>2
<1> QED  BY <1>6, <1>8, <1>9, <1>10, <1>11 DEF KernelInv

\* A step that changes no process and no stack, and owes others what it did.
LEMMA OthersUntouched ==
  ASSUME KernelInv, procs' = procs, current_proc' = current_proc, stack' = stack,
         \A p \in Slots : p # current_proc => owed'[p] = owed[p]
  PROVE  SlotsInUse' /\ StackBounded' /\ (SuspendedProcs => SuspendedProcs')
<1>1. SlotsInUse' /\ StackBounded'
  BY DEF KernelInv, SlotsInUse, StackBounded
<1>2. ASSUME SuspendedProcs, NEW p \in Slots, procs'[p].state = "RUNNABLE", p # idle_proc,
             p # current_proc'
      PROVE  Fresh(p)' \/ Waiting(p)'
  <2>1. Fresh(p) \/ Waiting(p)
    BY <1>2 DEF SuspendedProcs
  <2>2. procs'[p] = procs[p] /\ stack'[p] = stack[p] /\ owed'[p] = owed[p]
    BY <1>2
  <2> QED  BY <2>1, <2>2 DEF Fresh, Waiting, InTrap
<1> QED  BY <1>1, <1>2 DEF SuspendedProcs

LEMMA PanicInv ==
  ASSUME KernelInv, NoFreeSlot \/ YieldReturned \/ SyscallUnexpected
  PROVE  KernelInv'
<1>1. /\ procs' = procs /\ current_proc' = current_proc /\ stack' = stack /\ owed' = owed
      /\ sp' = sp /\ sscratch' = sscratch /\ satp' = satp /\ sepc' = sepc /\ user' = user
      /\ created' = created /\ input' = input /\ passed' = passed
      /\ kpc' = "panic" /\ kpc # "unreachable"
      /\ \/ panic' \in {"No free process slots!", "Unexpected syscall"}
         \/ kpc = "halt" /\ panic' = "Exited out of scheduler. Halting!"
  BY DEF NoFreeSlot, YieldReturned, SyscallUnexpected, Panic, KernelInv, Panics
<1>2. SlotsInUse' /\ StackBounded'
  BY <1>1, OthersUntouched
<1>3. TypeOK'
  BY <1>1 DEF KernelInv, TypeOK
<1>4. Panics' /\ HaltsOnlyWhenDone'
  BY <1>1 DEF KernelInv, Panics, HaltsOnlyWhenDone
<1> QED  BY <1>1, <1>2, <1>3, <1>4 DEF KernelInv

\* The steps of a system call that only move the kernel on.
LEMMA MovesOnInv ==
  ASSUME KernelInv, SyscallNoResult \/ SyscallGetc \/ GetcMiss
  PROVE  KernelInv'
<1>1. /\ procs' = procs /\ current_proc' = current_proc /\ stack' = stack /\ owed' = owed
      /\ sp' = sp /\ sscratch' = sscratch /\ satp' = satp /\ sepc' = sepc /\ user' = user
      /\ created' = created /\ input' = input /\ passed' = passed /\ panic' = panic
      /\ kpc \in {"syscall", "getc"} /\ kpc' \in {"getc", "yield", "return"}
  BY DEF SyscallNoResult, SyscallGetc, GetcMiss
<1>2. RunningProc /\ SuspendedProcs
  BY <1>1 DEF KernelInv
<1>3. SlotsInUse' /\ StackBounded' /\ SuspendedProcs'
  BY <1>1, <1>2, OthersUntouched
<1>4. TypeOK'
  BY <1>1 DEF KernelInv, TypeOK
<1>5. RunningProc'
  BY <1>1, <1>2 DEF RunningProc, InTrap
<1>6. Panics' /\ HaltsOnlyWhenDone'
  BY <1>1 DEF KernelInv, Panics, HaltsOnlyWhenDone
<1> QED  BY <1>3, <1>4, <1>5, <1>6 DEF KernelInv

LEMMA UserEntryInv ==
  ASSUME KernelInv, UserEntry
  PROVE  KernelInv'
<1>1. RunningProc /\ SuspendedProcs /\ current_proc \in Slots
  BY DEF UserEntry, KernelInv, TypeOK
<1>2. user' \in Context
  BY DEF UserEntry, Context, Sysnos, USER_BASE
<1>3. /\ owed' \in [Slots -> Context] /\ owed'[current_proc] = user'
      /\ \A p \in Slots : p # current_proc => owed'[p] = owed[p]
  BY <1>1, <1>2 DEF UserEntry, KernelInv, TypeOK
<1>4. SlotsInUse' /\ StackBounded' /\ SuspendedProcs'
  BY <1>1, <1>3, OthersUntouched DEF UserEntry
<1>5. TypeOK'
  BY <1>2, <1>3 DEF UserEntry, KernelInv, TypeOK, USER_BASE
<1>6. RunningProc'
  BY <1>1, <1>3 DEF UserEntry, RunningProc
<1>7. Panics' /\ HaltsOnlyWhenDone'
  BY DEF UserEntry, KernelInv, Panics, HaltsOnlyWhenDone
<1> QED  BY <1>4, <1>5, <1>6, <1>7 DEF KernelInv

LEMMA KeyPressedInv ==
  ASSUME KernelInv, KeyPressed
  PROVE  KernelInv'
<1>1. input' \in Seq(Vals)
  BY DEF KeyPressed, KernelInv, TypeOK
<1>2. UNCHANGED <<procs, current_proc, stack, sp, sscratch, satp, sepc, user, kpc, panic,
                  created, owed, passed>>
  BY DEF KeyPressed
<1>3. SlotsInUse' /\ StackBounded' /\ (SuspendedProcs => SuspendedProcs')
  BY <1>2, OthersUntouched
<1>4. TypeOK'
  BY <1>1, <1>2 DEF KernelInv, TypeOK
<1>5. RunningProc => RunningProc'
  BY <1>2 DEF RunningProc, InTrap
<1>6. Panics' /\ HaltsOnlyWhenDone'
  BY <1>2 DEF KernelInv, Panics, HaltsOnlyWhenDone
<1> QED  BY <1>2, <1>3, <1>4, <1>5, <1>6 DEF KernelInv

LEMMA StutterInv ==
  ASSUME KernelInv, UNCHANGED vars
  PROVE  KernelInv'
<1>1. UNCHANGED <<procs, current_proc, stack, sp, sscratch, satp, sepc, user, kpc, input, panic,
                  created, owed, passed>>
  BY DEF vars
<1>2. SlotsInUse' /\ StackBounded' /\ (SuspendedProcs => SuspendedProcs')
  BY <1>1, OthersUntouched
<1>3. TypeOK'
  BY <1>1 DEF KernelInv, TypeOK
<1>4. RunningProc => RunningProc'
  BY <1>1 DEF RunningProc, InTrap
<1>5. Panics' /\ HaltsOnlyWhenDone'
  BY <1>1 DEF KernelInv, Panics, HaltsOnlyWhenDone
<1> QED  BY <1>1, <1>2, <1>3, <1>4, <1>5 DEF KernelInv

\* A trap puts its two frames at the bottom of the process's own stack.
LEMMA TrapFrames ==
  ASSUME KernelInv, NEW c \in Context, TrapEntry(c)
  PROVE  /\ stack' \in [Stacks -> Seq(Frames)]
         /\ Len(stack'[current_proc]) = 2
         /\ stack'[current_proc][1] = TrapFrame(c)
         /\ stack'[current_proc][2] = [kind |-> "call", user_pc |-> c.pc]
         /\ \A s \in Stacks : s # current_proc => stack'[s] = stack[s]
         /\ sp' = <<current_proc, 2>> /\ sscratch' = <<current_proc, 0>>
<1> DEFINE cur == current_proc
           f1 == TrapFrame(c)
           f2 == [kind |-> "call", user_pc |-> c.pc]
           r1 == Append(SubSeq(stack[cur], 1, 0), f1)
           r2 == Append(SubSeq(r1, 1, 1), f2)
<1>1. sscratch = <<cur, 0>> /\ cur \in Stacks /\ stack \in [Stacks -> Seq(Frames)]
  BY DEF KernelInv, RunningProc, TypeOK, TrapEntry, Stacks
<1>2. f1 \in Frames /\ f2 \in Frames
  BY FrameTypes DEF Context
<1> HIDE DEF f1, f2
<1>3. Up(sscratch) = <<cur, 1>> /\ Up(<<cur, 1>>) = <<cur, 2>> /\ Down(<<cur, 1>>, 1) = <<cur, 0>>
  BY <1>1 DEF Up, Down
<1>4. /\ stack' = [stack EXCEPT ![cur] = r2]
      /\ sp' = <<cur, 2>> /\ sscratch' = <<cur, 0>>
  BY <1>1, <1>3 DEF TrapEntry, Pushed, f1, f2
<1>5. r1 \in Seq(Frames) /\ Len(r1) = 1 /\ r1[1] = f1
  <2>1. stack[cur] \in Seq(Frames) /\ 0 <= Len(stack[cur])
    BY <1>1
  <2> QED  BY <1>2, <2>1, PushedFrame
<1> HIDE DEF r1
<1>6. r2 \in Seq(Frames) /\ Len(r2) = 2 /\ r2[2] = f2 /\ r2[1] = f1
  BY <1>2, <1>5, PushedFrame
<1> HIDE DEF r2
<1>7. stack' \in [Stacks -> Seq(Frames)] /\ stack'[cur] = r2
      /\ \A s \in Stacks : s # cur => stack'[s] = stack[s]
  BY <1>1, <1>4, <1>6
<1> QED  BY <1>4, <1>6, <1>7 DEF f1, f2

\* Nothing a trap does to a stack concerns another process.
LEMMA TrapOthers ==
  ASSUME KernelInv, NEW c \in Context, TrapEntry(c), UNCHANGED <<procs, current_proc>>,
         \A p \in Slots : p # current_proc => owed'[p] = owed[p]
  PROVE  SlotsInUse' /\ StackBounded' /\ SuspendedProcs'
<1>1. /\ stack' \in [Stacks -> Seq(Frames)] /\ Len(stack'[current_proc]) = 2
      /\ \A s \in Stacks : s # current_proc => stack'[s] = stack[s]
  BY TrapFrames
<1>2. SlotsInUse'
  BY DEF KernelInv, SlotsInUse
<1>3. StackBounded'
  <2> SUFFICES ASSUME NEW s \in Stacks PROVE Len(stack'[s]) <= 3
    BY DEF StackBounded
  <2>1. CASE s = current_proc  BY <1>1, <2>1
  <2>2. CASE s # current_proc  BY <1>1, <2>2 DEF KernelInv, StackBounded
  <2> QED  BY <2>1, <2>2
<1>4. ASSUME NEW p \in Slots, procs'[p].state = "RUNNABLE", p # idle_proc, p # current_proc'
      PROVE  Fresh(p)' \/ Waiting(p)'
  <2>1. Fresh(p) \/ Waiting(p)
    BY <1>4 DEF TrapEntry, KernelInv, SuspendedProcs
  <2>2. procs'[p] = procs[p] /\ stack'[p] = stack[p] /\ owed'[p] = owed[p]
    BY <1>1, <1>4 DEF Stacks
  <2> QED  BY <2>1, <2>2 DEF Fresh, Waiting, InTrap
<1> QED  BY <1>2, <1>3, <1>4 DEF SuspendedProcs

LEMMA EcallInv ==
  ASSUME KernelInv, NEW c \in Context, Ecall(c)
  PROVE  KernelInv'
<1>1. TrapEntry(c) /\ RunningProc /\ current_proc \in Slots /\ current_proc # Boot
  <2>1. TrapEntry(c) /\ RunningProc /\ current_proc \in Slots
    BY DEF Ecall, TrapEntry, KernelInv, TypeOK
  <2> QED  BY <2>1, KernelAssumption DEF Slots, Boot
<1>2. c.pc \in Nat /\ AfterCall(c) \in Context /\ AfterCall(c).pc = c.pc + 4
      /\ TrapFrame(AfterCall(c)) = TrapFrame(c)
  BY DEF Context, AfterCall, TrapFrame
<1>3. /\ owed' \in [Slots -> Context] /\ owed'[current_proc] = AfterCall(c)
      /\ \A p \in Slots : p # current_proc => owed'[p] = owed[p]
  BY <1>1, <1>2 DEF Ecall, KernelInv, TypeOK
<1>4. SlotsInUse' /\ StackBounded' /\ SuspendedProcs'
  BY <1>1, <1>3, TrapOthers DEF Ecall
<1>5. TypeOK'
  <2>1. sp' \in Stacks \X Nat /\ sscratch' \in Stacks \X Nat
    <3>1. current_proc \in Stacks /\ sp' = <<current_proc, 2>> /\ sscratch' = <<current_proc, 0>>
      BY <1>1, TrapFrames, Zenon DEF Stacks
    <3> QED  BY <3>1
  <2> QED  BY <1>1, <1>2, <1>3, <2>1, TrapFrames DEF Ecall, TrapEntry, KernelInv, TypeOK
<1>6. RunningProc'
  <2>1. InTrap(current_proc)'
    <3>1. /\ Len(stack'[current_proc]) = 2
          /\ stack'[current_proc][1] = TrapFrame(c)
          /\ stack'[current_proc][2] = [kind |-> "call", user_pc |-> c.pc]
      BY <1>1, TrapFrames, Zenon
    <3> HIDE DEF TrapFrame
    <3> QED  BY <1>2, <1>3, <3>1 DEF InTrap, Ecall
  <2>2. stack'[Boot] = stack[Boot]
    BY <1>1, TrapFrames DEF Stacks
  <2> QED  BY <1>1, <2>1, <2>2, TrapFrames DEF Ecall, TrapEntry, RunningProc
<1>7. Panics' /\ HaltsOnlyWhenDone'
  BY DEF Ecall, TrapEntry, KernelInv, Panics, HaltsOnlyWhenDone
<1> QED  BY <1>4, <1>5, <1>6, <1>7 DEF KernelInv

LEMMA UnexpectedTrapInv ==
  ASSUME KernelInv, NEW c \in Context, UnexpectedTrap(c)
  PROVE  KernelInv'
<1>1. TrapEntry(c) /\ current_proc \in Slots
  BY DEF UnexpectedTrap, KernelInv, TypeOK
<1>2. SlotsInUse' /\ StackBounded'
  BY <1>1, TrapOthers DEF UnexpectedTrap
<1>3. TypeOK'
  <2>1. sp' \in Stacks \X Nat /\ sscratch' \in Stacks \X Nat
    <3>1. current_proc \in Stacks /\ sp' = <<current_proc, 2>> /\ sscratch' = <<current_proc, 0>>
      BY <1>1, TrapFrames, Zenon DEF Stacks
    <3> QED  BY <3>1
  <2>2. c.pc \in Nat
    BY DEF Context
  <2> QED  BY <1>1, <2>1, <2>2, TrapFrames
              DEF UnexpectedTrap, TrapEntry, Panic, KernelInv, TypeOK
<1>4. Panics' /\ HaltsOnlyWhenDone' /\ kpc' = "panic"
  BY DEF UnexpectedTrap, Panic, Panics, HaltsOnlyWhenDone
<1> QED  BY <1>2, <1>3, <1>4 DEF KernelInv

\* The registers that come back are the ones the process is owed.
LEMMA TrapReturnInv ==
  ASSUME KernelInv, TrapReturn
  PROVE  KernelInv'
<1> DEFINE cur == current_proc
<1>1. RunningProc /\ SuspendedProcs /\ cur \in Slots /\ owed[cur] \in Context
  BY DEF TrapReturn, KernelInv, TypeOK
<1>2. sp = <<cur, 2>> /\ InTrap(cur)
  BY <1>1 DEF TrapReturn, RunningProc
<1>3. FrameAt(stack, sp, 1) = stack[cur][1] /\ FrameAt(stack, sp, 0) = stack[cur][2]
      /\ Down(sp, 2) = <<cur, 0>>
  BY <1>2 DEF FrameAt, Down
<1>4. sepc' = owed[cur].pc /\ user' = owed[cur]
  <2>1. FrameAt(stack, sp, 0).user_pc + 4 = owed[cur].pc
    BY <1>2, <1>3 DEF InTrap
  <2>2. FrameAt(stack, sp, 1) = TrapFrame(owed[cur])
    BY <1>2, <1>3 DEF InTrap
  <2>3. user' = [pc |-> owed[cur].pc, a0 |-> owed[cur].a0, a3 |-> owed[cur].a3,
                 rest |-> owed[cur].rest]
    BY <2>1, <2>2 DEF TrapReturn, TrapFrame
  <2> QED  BY <1>1, <2>1, <2>3 DEF TrapReturn, Context
<1>5. SlotsInUse' /\ StackBounded' /\ SuspendedProcs'
  BY <1>1, OthersUntouched DEF TrapReturn
<1>6. TypeOK'
  <2>1. sp' \in Stacks \X Nat
    BY <1>1, <1>3 DEF TrapReturn, Stacks
  <2>2. sepc' \in Nat /\ user' \in Context
    BY <1>1, <1>4 DEF Context
  <2> QED  BY <2>1, <2>2 DEF TrapReturn, KernelInv, TypeOK
<1>7. RunningProc'
  BY <1>1, <1>3, <1>4 DEF TrapReturn, RunningProc
<1>8. Panics' /\ HaltsOnlyWhenDone'
  BY DEF TrapReturn, KernelInv, Panics, HaltsOnlyWhenDone
<1> QED  BY <1>5, <1>6, <1>7, <1>8 DEF KernelInv

\* f->a0 = c changes the registers the process is owed, and their copy on the
\* stack, in the same way.
LEMMA GetcHitInv ==
  ASSUME KernelInv, GetcHit
  PROVE  KernelInv'
<1> DEFINE cur == current_proc
           v == Head(input)
           f == [stack[cur][1] EXCEPT !.a0 = v]
<1>1. /\ RunningProc /\ SuspendedProcs /\ cur \in Slots /\ cur \in Stacks /\ cur # Boot
      /\ stack \in [Stacks -> Seq(Frames)] /\ owed \in [Slots -> Context]
      /\ input \in Seq(Vals) /\ input # << >>
  <2>1. /\ RunningProc /\ SuspendedProcs /\ cur \in Slots
        /\ stack \in [Stacks -> Seq(Frames)] /\ owed \in [Slots -> Context]
        /\ input \in Seq(Vals) /\ input # << >>
    BY DEF GetcHit, KernelInv, TypeOK
  <2> QED  BY <2>1, KernelAssumption DEF Slots, Boot, Stacks
<1>2. v \in Vals /\ Tail(input) \in Seq(Vals)
  BY <1>1
<1>3. sp = <<cur, 2>> /\ InTrap(cur)
  BY <1>1 DEF GetcHit, RunningProc
<1> HIDE DEF v
<1>4. /\ owed' \in [Slots -> Context] /\ owed'[cur] = [owed[cur] EXCEPT !.a0 = v]
      /\ \A p \in Slots : p # cur => owed'[p] = owed[p]
  BY <1>1, <1>2 DEF GetcHit, Context, v
<1>5. f = TrapFrame(owed'[cur]) /\ f \in Frames /\ owed'[cur].pc = owed[cur].pc
  <2>1. stack[cur][1] = TrapFrame(owed[cur]) /\ owed[cur] \in Context
    BY <1>1, <1>3 DEF InTrap
  <2>2. f = [kind |-> "trap", a0 |-> v, a3 |-> owed[cur].a3, rest |-> owed[cur].rest]
    BY <2>1 DEF TrapFrame
  <2>3. f = TrapFrame(owed'[cur])
    BY <1>4, <2>1, <2>2 DEF TrapFrame, Context
  <2>4. owed'[cur] \in Context
    BY <1>1, <1>4
  <2>5. f \in Frames
    BY <2>3, <2>4, FrameTypes
  <2> QED  BY <1>4, <2>1, <2>3, <2>5 DEF Context
<1> HIDE DEF f
<1>6. /\ stack[cur] \in Seq(Frames) /\ Len(stack[cur]) >= 2 /\ Len(stack[cur]) <= 3
  BY <1>1, <1>3 DEF InTrap, KernelInv, StackBounded
<1>7. stack' = [stack EXCEPT ![cur] = [stack[cur] EXCEPT ![1] = f]]
  <2>1. sp[1] = cur /\ sp[2] - 1 = 1
    BY <1>3
  <2> QED  BY <2>1 DEF GetcHit, f, v
<1>8. /\ [stack[cur] EXCEPT ![1] = f] \in Seq(Frames)
      /\ Len([stack[cur] EXCEPT ![1] = f]) = Len(stack[cur])
      /\ [stack[cur] EXCEPT ![1] = f][1] = f
      /\ [stack[cur] EXCEPT ![1] = f][2] = stack[cur][2]
  BY <1>5, <1>6
<1>9. /\ stack' \in [Stacks -> Seq(Frames)]
      /\ Len(stack'[cur]) = Len(stack[cur]) /\ stack'[cur][1] = f /\ stack'[cur][2] = stack[cur][2]
      /\ \A s \in Stacks : s # cur => stack'[s] = stack[s]
  BY <1>1, <1>7, <1>8
<1>10. procs' = procs /\ current_proc' = current_proc /\ kpc' = "return" /\ panic' = panic
  BY DEF GetcHit
<1>11. TypeOK'
  BY <1>2, <1>4, <1>9 DEF GetcHit, KernelInv, TypeOK, v
<1>12. SlotsInUse' /\ Panics' /\ HaltsOnlyWhenDone'
  BY <1>10 DEF GetcHit, KernelInv, SlotsInUse, Panics, HaltsOnlyWhenDone
<1>13. StackBounded'
  <2> SUFFICES ASSUME NEW s \in Stacks PROVE Len(stack'[s]) <= 3
    BY DEF StackBounded
  <2>1. CASE s = cur  BY <1>6, <1>9, <2>1
  <2>2. CASE s # cur  BY <1>9, <2>2 DEF KernelInv, StackBounded
  <2> QED  BY <2>1, <2>2
<1>14. RunningProc'
  <2>1. InTrap(cur)'
    BY <1>3, <1>5, <1>6, <1>9, <1>10 DEF InTrap
  <2>2. stack'[Boot] = stack[Boot]
    BY <1>1, <1>9 DEF Stacks
  <2> QED  BY <1>1, <1>3, <1>10, <2>1, <2>2 DEF GetcHit, RunningProc
<1>15. SuspendedProcs'
  <2> SUFFICES ASSUME NEW p \in Slots, procs[p].state = "RUNNABLE", p # idle_proc, p # cur
               PROVE  Fresh(p)' \/ Waiting(p)'
    BY <1>10 DEF SuspendedProcs
  <2>1. Fresh(p) \/ Waiting(p)
    BY <1>1 DEF SuspendedProcs
  <2>2. procs'[p] = procs[p] /\ stack'[p] = stack[p] /\ owed'[p] = owed[p]
    BY <1>4, <1>9, <1>10 DEF Stacks
  <2> QED  BY <2>1, <2>2 DEF Fresh, Waiting, InTrap
<1> QED  BY <1>11, <1>12, <1>13, <1>14, <1>15 DEF KernelInv

-----------------------------------------------------------------------------
(* A switch from one process to another.                                   *)

\* Who calls yield: kmain, SYS_GETC or proc_exit.
YieldsFrom(ps, ra) ==
  \/ kpc = "kmain" /\ ra = "halt" /\ ps = procs
  \/ kpc = "yield" /\ ra = "getc" /\ ps = procs
  \/ kpc = "syscall" /\ ra = "unreachable" /\ ps = [procs EXCEPT ![current_proc].state = "EXITED"]

LEMMA YieldsFromMarked ==
  ASSUME KernelInv, NEW ps, NEW ra, YieldsFrom(ps, ra)
  PROVE  /\ Marked(ps) /\ ra \in Ras /\ RunningProc /\ SuspendedProcs
         /\ kpc = "syscall" => ps[current_proc].state = "EXITED"
         /\ kpc # "syscall" => ps[current_proc].state = "RUNNABLE"
<1>1. RunningProc /\ SuspendedProcs /\ ra \in Ras
  BY DEF KernelInv, YieldsFrom, Ras
<1>2. CASE kpc # "syscall"
  BY <1>1, <1>2 DEF KernelInv, TypeOK, Marked, YieldsFrom, RunningProc
<1>3. CASE kpc = "syscall"
  <2>1. ps = [procs EXCEPT ![current_proc].state = "EXITED"] /\ current_proc # idle_proc
    BY <1>1, <1>3 DEF YieldsFrom, RunningProc
  <2>2. /\ procs \in [Slots -> [state : {"UNUSED", "RUNNABLE", "EXITED"}, pid : 0..PROCS_MAX,
                                sp : Stacks \X Nat, page_table : Slots \cup {NoTable}]]
        /\ current_proc \in Slots
    BY DEF KernelInv, TypeOK
  <2>3. ps[current_proc].state = "EXITED"
    BY <2>1, <2>2
  <2>4. Marked(ps)
    BY <2>1, <2>2 DEF Marked
  <2> QED  BY <1>1, <1>3, <2>3, <2>4
<1> QED  BY <1>1, <1>2, <1>3

\* yield finds no one else to run. After an exit there is the idle process.
LEMMA NoSwitchInv ==
  ASSUME KernelInv, NEW ps, NEW ra, YieldsFrom(ps, ra),
         NextProc(ps, current_proc), procs' = ps, kpc' = ra,
         UNCHANGED <<current_proc, stack, sp, sscratch, satp, passed,
                     sepc, user, panic, created, input, owed>>
  PROVE  KernelInv'
<1>1. /\ Marked(ps) /\ ra \in Ras /\ RunningProc /\ SuspendedProcs
      /\ kpc = "syscall" => ps[current_proc].state = "EXITED"
      /\ TypeOK /\ SlotsInUse /\ current_proc \in Slots
  BY YieldsFromMarked DEF KernelInv, TypeOK
<1>2. \/ current_proc # idle_proc /\ ps[current_proc].state = "RUNNABLE"
      \/ current_proc = idle_proc /\ \A p \in Slots \ {idle_proc} : ps[p].state # "RUNNABLE"
  BY <1>1, Found
<1>3. kpc # "syscall" /\ procs' = procs /\ kpc # "panic"
  BY <1>1, <1>2 DEF YieldsFrom, RunningProc
<1>4. SlotsInUse' /\ StackBounded' /\ SuspendedProcs'
  BY <1>1, <1>3, OthersUntouched
<1>5. TypeOK'
  BY <1>3 DEF KernelInv, TypeOK, YieldsFrom
<1>6. CASE kpc = "kmain"
  <2>1. ra = "halt" /\ current_proc = idle_proc /\ sp = <<Boot, 0>>
    BY <1>1, <1>6 DEF YieldsFrom, RunningProc
  <2>2. RunningProc'
    BY <1>1, <1>3, <2>1 DEF RunningProc
  <2>3. Panics' /\ HaltsOnlyWhenDone'
    BY <1>2, <2>1, <1>3, <1>6 DEF KernelInv, Panics, HaltsOnlyWhenDone
  <2> QED  BY <1>4, <1>5, <2>2, <2>3 DEF KernelInv
<1>7. CASE kpc = "yield"
  <2>1. ra = "getc"
    BY <1>7 DEF YieldsFrom
  <2>2. RunningProc'
    BY <1>1, <1>3, <1>7, <2>1 DEF RunningProc, InTrap
  <2>3. Panics' /\ HaltsOnlyWhenDone'
    BY <1>3, <1>7, <2>1 DEF KernelInv, Panics, HaltsOnlyWhenDone
  <2> QED  BY <1>4, <1>5, <2>2, <2>3 DEF KernelInv
<1> QED  BY <1>3, <1>6, <1>7 DEF YieldsFrom

\* The switch frame goes on top of the stack yield was called on.
LEMMA SwitchFramePushed ==
  ASSUME KernelInv, NEW ps, NEW ra, YieldsFrom(ps, ra),
         stack' = Pushed(stack, sp, SwitchFrame(ra))
  PROVE  /\ stack' \in [Stacks -> Seq(Frames)]
         /\ \A s \in Stacks : Len(stack'[s]) <= 3
         /\ kpc = "kmain" =>
              /\ \A s \in Slots : stack'[s] = stack[s]
              /\ stack'[Boot] = <<SwitchFrame("halt")>> /\ Up(sp) = <<Boot, 1>>
         /\ kpc # "kmain" =>
              /\ \A s \in Stacks : s # current_proc => stack'[s] = stack[s]
              /\ Len(stack'[current_proc]) = 3 /\ Up(sp) = <<current_proc, 3>>
              /\ stack'[current_proc][1] = stack[current_proc][1]
              /\ stack'[current_proc][2] = stack[current_proc][2]
              /\ stack'[current_proc][3] = SwitchFrame(ra)
<1>1. /\ RunningProc /\ SwitchFrame(ra) \in Frames /\ current_proc \in Slots
      /\ stack \in [Stacks -> Seq(Frames)]
      /\ \A s \in Stacks : Len(stack[s]) <= 3
  <2>1. RunningProc /\ ra \in Ras
    BY YieldsFromMarked
  <2> QED  BY <2>1, FrameTypes DEF KernelInv, TypeOK, StackBounded
<1>2. CASE kpc = "kmain"
  <2> DEFINE q == stack[Boot]
             r == Append(SubSeq(q, 1, 0), SwitchFrame(ra))
  <2>1. ra = "halt" /\ sp = <<Boot, 0>> /\ Boot \in Stacks
    BY <1>1, <1>2 DEF YieldsFrom, RunningProc, Stacks
  <2>2. stack' = [stack EXCEPT ![Boot] = r] /\ Up(sp) = <<Boot, 1>>
    BY <2>1 DEF Pushed, Up
  <2>3. q \in Seq(Frames) /\ 0 <= Len(q)
    BY <1>1, <2>1
  <2>4. r \in Seq(Frames) /\ Len(r) = 1 /\ r[1] = SwitchFrame(ra)
    BY <1>1, <2>3, PushedFrame
  <2> HIDE DEF r
  <2>5. r = <<SwitchFrame("halt")>>
    BY <1>1, <2>1, <2>4
  <2>6. Boot \notin Slots
    BY KernelAssumption DEF Slots, Boot
  <2>7. \A s \in Stacks : Len(stack'[s]) <= 3
    <3> SUFFICES ASSUME NEW s \in Stacks PROVE Len(stack'[s]) <= 3
      OBVIOUS
    <3>1. CASE s = Boot  BY <1>1, <2>1, <2>2, <2>4, <3>1
    <3>2. CASE s # Boot  BY <1>1, <2>1, <2>2, <3>2
    <3> QED  BY <3>1, <3>2
  <2> QED  BY <1>1, <1>2, <2>1, <2>2, <2>4, <2>5, <2>6, <2>7 DEF Stacks
<1>3. CASE kpc # "kmain"
  <2> DEFINE cur == current_proc
             q == stack[cur]
             r == Append(SubSeq(q, 1, 2), SwitchFrame(ra))
  <2>1. sp = <<cur, 2>> /\ cur \in Stacks /\ Len(q) >= 2
    BY <1>1, <1>3 DEF YieldsFrom, RunningProc, Stacks, InTrap
  <2>2. stack' = [stack EXCEPT ![cur] = r] /\ Up(sp) = <<cur, 3>>
    BY <2>1 DEF Pushed, Up
  <2>3. q \in Seq(Frames) /\ 2 <= Len(q) /\ 1 \in 1..2 /\ 2 \in 1..2
    BY <1>1, <2>1
  <2>4. r \in Seq(Frames) /\ Len(r) = 3 /\ r[3] = SwitchFrame(ra) /\ r[1] = q[1] /\ r[2] = q[2]
    BY <1>1, <2>3, PushedFrame
  <2> HIDE DEF r
  <2>5. \A s \in Stacks : Len(stack'[s]) <= 3
    <3> SUFFICES ASSUME NEW s \in Stacks PROVE Len(stack'[s]) <= 3
      OBVIOUS
    <3>1. CASE s = cur
      <4>1. stack'[s] = r  BY <1>1, <2>1, <2>2, <3>1
      <4>2. Len(stack'[s]) = 3  BY <2>4, <4>1, Zenon
      <4> QED  BY <4>2
    <3>2. CASE s # cur  BY <1>1, <2>1, <2>2, <3>2
    <3> QED  BY <3>1, <3>2
  <2> QED  BY <1>1, <1>3, <2>1, <2>2, <2>4, <2>5
<1> QED  BY <1>2, <1>3

\* The process that was switched to goes on where it was switched away from.
LEMMA ResumesNext ==
  ASSUME KernelInv, NEW ps, NEW ra, YieldsFrom(ps, ra), NEW next \in Slots,
         NextProc(ps, next), next # current_proc,
         sp' = Down(ps[next].sp, 1), kpc' = FrameAt(stack, ps[next].sp, 0).ra
  PROVE  \/ /\ next = idle_proc /\ kpc' = "halt" /\ sp' = <<Boot, 0>>
            /\ \A p \in Slots \ {idle_proc} : ps[p].state # "RUNNABLE"
         \/ /\ next # idle_proc /\ procs[next].state = "RUNNABLE"
            /\ kpc' = "user_entry" /\ sp' = <<next, 0>>
         \/ /\ next # idle_proc /\ procs[next].state = "RUNNABLE"
            /\ kpc' = "getc" /\ sp' = <<next, 2>> /\ InTrap(next)
<1>1. Marked(ps) /\ RunningProc /\ SuspendedProcs /\ TypeOK /\ SlotsInUse
  BY YieldsFromMarked DEF KernelInv
<1>2. ps[next].sp = procs[next].sp /\ ps[next].state = procs[next].state
  BY <1>1 DEF Marked
<1>3. CASE next = idle_proc /\ \A p \in Slots \ {idle_proc} : ps[p].state # "RUNNABLE"
  <2>1. kpc \notin {"kmain", "halt"}
    BY <1>1, <1>3 DEF RunningProc
  <2>2. procs[idle_proc].sp = <<Boot, 1>> /\ stack[Boot] = <<SwitchFrame("halt")>>
    BY <1>1, <2>1 DEF RunningProc
  <2>3. sp' = <<Boot, 0>>
    BY <1>2, <1>3, <2>2 DEF Down
  <2>4. kpc' = "halt"
    BY <1>2, <1>3, <2>2 DEF FrameAt, SwitchFrame
  <2> QED  BY <1>3, <2>3, <2>4
<1>4. CASE next # idle_proc /\ ps[next].state = "RUNNABLE"
  <2>1. Fresh(next) \/ Waiting(next)
    BY <1>1, <1>2, <1>4 DEF SuspendedProcs
  <2>2. CASE Fresh(next)
    <3>1. sp' = <<next, 0>>
      BY <1>2, <2>2 DEF Fresh, Down
    <3>2. kpc' = "user_entry"
      BY <1>2, <2>2 DEF Fresh, FrameAt, SwitchFrame
    <3> QED  BY <1>2, <1>4, <3>1, <3>2
  <2>3. CASE Waiting(next)
    <3>1. sp' = <<next, 2>>
      BY <1>2, <2>3 DEF Waiting, Down
    <3>2. kpc' = "getc"
      BY <1>2, <2>3 DEF Waiting, FrameAt, SwitchFrame
    <3> QED  BY <1>2, <1>4, <2>3, <3>1, <3>2 DEF Waiting
  <2> QED  BY <2>1, <2>2, <2>3
<1> QED  BY <1>1, <1>3, <1>4, Found

LEMMA SwitchInv ==
  ASSUME KernelInv, NEW ps, NEW ra, YieldsFrom(ps, ra), NEW next \in Slots,
         NextProc(ps, next), next # current_proc,
         current_proc' = next, sscratch' = <<next, 0>>, satp' = ps[next].page_table,
         stack' = Pushed(stack, sp, SwitchFrame(ra)),
         procs' = [ps EXCEPT ![current_proc].sp = Up(sp)],
         sp' = Down(ps[next].sp, 1), kpc' = FrameAt(stack, ps[next].sp, 0).ra,
         passed' = [i \in Slots |-> IF i \in {current_proc, next} THEN {}
                                    ELSE passed[i] \cup {next}],
         UNCHANGED <<sepc, user, panic, created, input, owed>>
  PROVE  KernelInv'
<1> DEFINE cur == current_proc
<1>1. /\ Marked(ps) /\ ra \in Ras /\ RunningProc /\ SuspendedProcs /\ TypeOK /\ SlotsInUse
      /\ kpc = "syscall" => ps[cur].state = "EXITED"
      /\ kpc # "syscall" => ps[cur].state = "RUNNABLE"
      /\ cur \in Slots /\ cur \in Stacks /\ next \in Stacks /\ Boot \in Stacks
  BY YieldsFromMarked DEF KernelInv, TypeOK, Stacks
<1>2. kpc \in {"kmain", "yield", "syscall"} /\ panic = "none"
  BY DEF YieldsFrom, KernelInv, Panics
<1>3. /\ stack' \in [Stacks -> Seq(Frames)]
      /\ \A s \in Stacks : Len(stack'[s]) <= 3
      /\ kpc = "kmain" =>
           /\ \A s \in Slots : stack'[s] = stack[s]
           /\ stack'[Boot] = <<SwitchFrame("halt")>> /\ Up(sp) = <<Boot, 1>>
      /\ kpc # "kmain" =>
           /\ \A s \in Stacks : s # cur => stack'[s] = stack[s]
           /\ Len(stack'[cur]) = 3 /\ Up(sp) = <<cur, 3>>
           /\ stack'[cur][1] = stack[cur][1] /\ stack'[cur][2] = stack[cur][2]
           /\ stack'[cur][3] = SwitchFrame(ra)
  BY SwitchFramePushed
<1>4. \/ /\ next = idle_proc /\ kpc' = "halt" /\ sp' = <<Boot, 0>>
         /\ \A p \in Slots \ {idle_proc} : ps[p].state # "RUNNABLE"
      \/ /\ next # idle_proc /\ procs[next].state = "RUNNABLE"
         /\ kpc' = "user_entry" /\ sp' = <<next, 0>>
      \/ /\ next # idle_proc /\ procs[next].state = "RUNNABLE"
         /\ kpc' = "getc" /\ sp' = <<next, 2>> /\ InTrap(next)
  BY ResumesNext
<1>5. Up(sp) \in Stacks \X Nat
  BY <1>1, <1>3
<1>6. /\ procs' \in [Slots -> [state : {"UNUSED", "RUNNABLE", "EXITED"}, pid : 0..PROCS_MAX,
                               sp : Stacks \X Nat, page_table : Slots \cup {NoTable}]]
      /\ \A p \in Slots : /\ procs'[p].state = ps[p].state /\ procs'[p].pid = ps[p].pid
                          /\ procs'[p].page_table = ps[p].page_table
                          /\ p # cur => procs'[p].sp = ps[p].sp
      /\ procs'[cur].sp = Up(sp)
  BY <1>1, <1>5 DEF Marked
<1>7. TypeOK'
  <2>1. sp' \in Stacks \X Nat /\ sscratch' \in Stacks \X Nat
    BY <1>1, <1>4
  <2>2. satp' \in Slots \cup {NoTable}
    BY <1>1 DEF Marked
  <2>3. passed' \in [Slots -> SUBSET Slots]
    BY <1>1 DEF TypeOK
  <2>4. kpc' \in {"halt", "user_entry", "getc"}
    BY <1>4
  <2> QED  BY <1>1, <1>3, <1>6, <2>1, <2>2, <2>3, <2>4 DEF TypeOK
<1>8. SlotsInUse'
  <2>1. \A p \in Slots : procs'[p].state = "UNUSED" <=> procs[p].state = "UNUSED"
    BY <1>1, <1>2, <1>6 DEF Marked, RunningProc
  <2>2. \A p \in Slots : procs'[p].pid = procs[p].pid /\ procs'[p].page_table = procs[p].page_table
    BY <1>1, <1>6 DEF Marked
  <2>3. idle_proc \in Slots
    BY KernelAssumption DEF Slots, idle_proc
  <2>4. procs'[idle_proc].state = "RUNNABLE"
    BY <1>1, <1>6, <2>3 DEF Marked, SlotsInUse
  <2> QED  BY <1>1, <2>1, <2>2, <2>4 DEF SlotsInUse
<1>9. StackBounded'
  BY <1>3 DEF StackBounded
<1>10. Panics'
  BY <1>2, <1>4 DEF Panics
<1>11. HaltsOnlyWhenDone'
  BY <1>2, <1>4, <1>6 DEF HaltsOnlyWhenDone
<1>12. procs'[next].state = "RUNNABLE" /\ satp' = next
  <2>1. ps[next].state = procs[next].state /\ ps[next].page_table = procs[next].page_table
    BY <1>1 DEF Marked
  <2>2. procs[next].state = "RUNNABLE"
    BY <1>1, <1>4 DEF SlotsInUse
  <2> QED  BY <1>1, <1>6, <2>1, <2>2 DEF SlotsInUse
<1>13. RunningProc'
  <2>1. CASE next = idle_proc
    <3>1. kpc' = "halt" /\ sp' = <<Boot, 0>>
      BY <1>4, <2>1
    <3> QED  BY <1>12, <2>1, <3>1 DEF RunningProc
  <2>2. CASE next # idle_proc
    <3>1. procs'[idle_proc].sp = <<Boot, 1>> /\ stack'[Boot] = <<SwitchFrame("halt")>>
      <4>1. idle_proc \in Slots /\ idle_proc # Boot /\ cur # Boot
        BY <1>1, KernelAssumption DEF Slots, idle_proc, Boot
      <4>2. CASE kpc = "kmain"
        BY <1>1, <1>3, <1>6, <4>2 DEF RunningProc
      <4>3. CASE kpc # "kmain"
        <5>1. /\ cur # idle_proc /\ procs[idle_proc].sp = <<Boot, 1>>
              /\ stack[Boot] = <<SwitchFrame("halt")>>
          BY <1>1, <1>2, <4>3 DEF RunningProc
        <5>2. procs'[idle_proc].sp = procs[idle_proc].sp
          BY <1>1, <1>6, <4>1, <5>1 DEF Marked
        <5> QED  BY <1>1, <1>3, <4>1, <4>3, <5>1, <5>2
      <4> QED  BY <4>2, <4>3
    <3>2. CASE kpc' = "user_entry" /\ sp' = <<next, 0>>
      BY <1>12, <2>2, <3>1, <3>2 DEF RunningProc
    <3>3. CASE kpc' = "getc" /\ sp' = <<next, 2>> /\ InTrap(next)
      <4>1. stack'[next] = stack[next]
        BY <1>1, <1>3
      <4>2. InTrap(next)'
        BY <3>3, <4>1 DEF InTrap
      <4> QED  BY <1>12, <2>2, <3>1, <3>3, <4>2 DEF RunningProc
    <3> QED  BY <1>4, <2>2, <3>2, <3>3
  <2> QED  BY <2>1, <2>2
<1>14. SuspendedProcs'
  <2> SUFFICES ASSUME NEW p \in Slots, procs'[p].state = "RUNNABLE", p # idle_proc, p # next
               PROVE  Fresh(p)' \/ Waiting(p)'
    BY DEF SuspendedProcs
  <2>1. CASE p = cur
    <3>1. kpc = "yield" /\ ra = "getc"
      BY <1>1, <1>2, <1>6, <2>1 DEF YieldsFrom, RunningProc
    <3>2. InTrap(cur)
      BY <1>1, <3>1 DEF RunningProc
    <3>3. Waiting(p)'
      <4>1. procs'[p].sp = <<p, 3>>
        BY <1>3, <1>6, <2>1, <3>1, <3>2
      <4>2. Len(stack'[p]) = 3 /\ stack'[p][3] = SwitchFrame("getc")
        BY <1>3, <1>6, <2>1, <3>1, <3>2
      <4>3. InTrap(p)'
        BY <1>3, <1>6, <2>1, <3>1, <3>2 DEF InTrap
      <4> QED  BY <4>1, <4>2, <4>3 DEF Waiting
    <3> QED  BY <3>3
  <2>2. CASE p # cur
    <3>1. procs[p].state = "RUNNABLE" /\ procs'[p].sp = procs[p].sp /\ stack'[p] = stack[p]
      BY <1>1, <1>3, <1>6, <2>2 DEF Marked, Stacks
    <3>2. Fresh(p) \/ Waiting(p)
      BY <1>1, <2>2, <3>1 DEF SuspendedProcs
    <3> QED  BY <3>1, <3>2 DEF Fresh, Waiting, InTrap
  <2> QED  BY <2>1, <2>2
<1> QED  BY <1>7, <1>8, <1>9, <1>10, <1>11, <1>13, <1>14 DEF KernelInv

LEMMA YieldInv ==
  ASSUME KernelInv, NEW ps, NEW ra, YieldsFrom(ps, ra), yield(ps, ra),
         UNCHANGED <<sepc, user, panic, created, input, owed>>
  PROVE  KernelInv'
<1>1. PICK next \in Slots :
        /\ NextProc(ps, next)
        /\ \/ /\ next = current_proc /\ procs' = ps /\ kpc' = ra
              /\ UNCHANGED <<current_proc, stack, sp, sscratch, satp, passed>>
           \/ /\ next # current_proc
              /\ current_proc' = next /\ sscratch' = <<next, 0>> /\ satp' = ps[next].page_table
              /\ stack' = Pushed(stack, sp, SwitchFrame(ra))
              /\ procs' = [ps EXCEPT ![current_proc].sp = Up(sp)]
              /\ sp' = Down(ps[next].sp, 1) /\ kpc' = FrameAt(stack, ps[next].sp, 0).ra
              /\ passed' = [i \in Slots |-> IF i \in {current_proc, next} THEN {}
                                            ELSE passed[i] \cup {next}]
  BY Zenon DEF yield, SwitchFrame
<1>2. CASE next = current_proc
  BY <1>1, <1>2, NoSwitchInv
<1>3. CASE next # current_proc
  BY <1>1, <1>3, SwitchInv
<1> QED  BY <1>2, <1>3

\* yield is called in three places.
LEMMA CallersYield ==
  ASSUME KmainYield \/ GetcYield \/ SyscallExit
  PROVE  /\ UNCHANGED <<sepc, user, panic, created, input, owed>>
         /\ \E ps, ra : YieldsFrom(ps, ra) /\ yield(ps, ra)
<1>1. CASE KmainYield
  BY <1>1, Zenon DEF KmainYield, YieldsFrom
<1>2. CASE GetcYield
  BY <1>2, Zenon DEF GetcYield, YieldsFrom
<1>3. CASE SyscallExit
  BY <1>3, Zenon DEF SyscallExit, YieldsFrom
<1> QED  BY <1>1, <1>2, <1>3

LEMMA NextInv ==
  ASSUME KernelInv, [Next]_vars
  PROVE  KernelInv'
<1>1. CASE KmainYield \/ GetcYield \/ SyscallExit
  BY <1>1, CallersYield, YieldInv
<1>2. CASE UserStep
  <2>1. PICK c \in Traps : Ecall(c) \/ UnexpectedTrap(c)
    BY <1>2 DEF UserStep
  <2>2. c \in Context
    BY KernelAssumption
  <2> QED  BY <2>1, <2>2, EcallInv, UnexpectedTrapInv
<1>3. CASE UNCHANGED vars
  BY <1>3, StutterInv
<1> QED
  BY <1>1, <1>2, <1>3, CreateImageInv, PanicInv, MovesOnInv, UserEntryInv, TrapReturnInv,
     GetcHitInv, KeyPressedInv DEF Next, KernelStep, Syscall, Spin

\* The invariant holds in every state of every behaviour of the kernel.
THEOREM Invariance == Spec => []KernelInv
<1>1. Init => KernelInv
  BY InitInv
<1>2. KernelInv /\ [Next]_vars => KernelInv'
  BY NextInv
<1> QED  BY <1>1, <1>2, PTL DEF Spec

-----------------------------------------------------------------------------
(* What the invariant says of the kernel.                                  *)

\* Every variable keeps its type: the saved stack pointers, page tables and
\* frames that switch_context and the trap code load are ones that were stored.
THEOREM TypeCorrect == Spec => []TypeOK
BY Invariance, PTL DEF KernelInv

\* A system call returns to the instruction after its ecall, with the registers
\* the program made it with: handle_trap's user_pc and the trap frame are still
\* the caller's, whoever has run since.
THEOREM CallsReturnIntact == Spec => []ResumeIntact
<1>1. KernelInv => ResumeIntact
  BY DEF KernelInv, RunningProc, ResumeIntact
<1> QED  BY <1>1, Invariance, PTL

LEMMA InvRunsAsItself == KernelInv => RunsAsItself
<1> SUFFICES ASSUME KernelInv, kpc = "user"
             PROVE  /\ current_proc # idle_proc
                    /\ procs[current_proc].state = "RUNNABLE"
                    /\ satp = procs[current_proc].page_table /\ satp = current_proc
                    /\ sscratch = <<current_proc, 0>>
                    /\ sp = <<current_proc, 0>>
  BY DEF RunsAsItself
<1>1. RunningProc /\ current_proc \in Slots
  BY DEF KernelInv, TypeOK
<1>2. procs[current_proc].page_table = current_proc
  BY <1>1 DEF KernelInv, SlotsInUse, RunningProc
<1> QED  BY <1>1, <1>2 DEF RunningProc

\* After switch_context and sret a program runs under its own page table, and
\* sscratch names the bottom of its own kernel stack.
THEOREM ProgramsRunAsThemselves == Spec => []RunsAsItself
BY InvRunsAsItself, Invariance, PTL

\* No kernel stack ever holds more than a trap frame, handle_trap's frame and a
\* switch frame.
THEOREM StacksStayBounded == Spec => []StackBounded
BY Invariance, PTL DEF KernelInv

\* Once proc_exit has marked a process, yield does not return to it.
THEOREM ExitsAreFinal == Spec => []ExitIsFinal
<1>1. KernelInv => ExitIsFinal
  BY DEF KernelInv, RunningProc, Panics, ExitIsFinal
<1> QED  BY <1>1, Invariance, PTL

\* kmain's yield returns only when no program is left to run.
THEOREM HaltsWhenDone == Spec => []HaltsOnlyWhenDone
BY Invariance, PTL DEF KernelInv

-----------------------------------------------------------------------------
(* Round robin.                                                            *)

\* Only yield gives the hart to another process.
LEMMA OnlyYieldSwitches ==
  ASSUME KernelInv, [Next]_vars, ~ (KmainYield \/ GetcYield \/ SyscallExit)
  PROVE  /\ current_proc' = current_proc /\ passed' = passed
         /\ procs' = procs \/ kpc = "kmain"
         /\ kpc' = "kmain" => kpc = "kmain"
         /\ kpc = "panic" => kpc' = "panic"
<1>1. CASE UserStep
  BY <1>1 DEF UserStep, Ecall, UnexpectedTrap, TrapEntry, Panic
<1>2. CASE UNCHANGED vars
  BY <1>2 DEF vars
<1>3. CASE CreateImage \/ NoFreeSlot \/ YieldReturned \/ UserEntry \/ TrapReturn \/ KeyPressed
  BY <1>3 DEF CreateImage, NoFreeSlot, YieldReturned, UserEntry, TrapReturn, KeyPressed, Panic
<1>4. CASE SyscallNoResult \/ SyscallGetc \/ GetcHit \/ GetcMiss \/ SyscallUnexpected
  BY <1>4 DEF SyscallNoResult, SyscallGetc, GetcHit, GetcMiss, SyscallUnexpected, Panic
<1> QED  BY <1>1, <1>2, <1>3, <1>4 DEF Next, KernelStep, Syscall, Spin

\* What a switch does to those who wait: whoever gets the hart has not had it
\* since they gave it up, and is now the furthest ahead.
LEMMA TurnTaken ==
  ASSUME KernelInv, TurnsTaken, NEW ps, NEW ra, YieldsFrom(ps, ra), NEW next \in Slots,
         NextProc(ps, next), NEW p \in Slots, procs[p].state = "RUNNABLE", p # idle_proc,
         p # current_proc
  PROVE  /\ next \notin passed[p]
         /\ next # p => \A q \in passed[p] : q # p /\ Ahead(p, q) <= Ahead(p, next)
<1>1. /\ Marked(ps) /\ RunningProc /\ TypeOK /\ SlotsInUse /\ kpc # "panic"
      /\ current_proc \in Slots /\ passed[p] \subseteq Slots
  BY YieldsFromMarked DEF KernelInv, TypeOK, YieldsFrom
<1>2. CASE kpc = "kmain"
  BY <1>2 DEF TurnsTaken
<1>3. CASE kpc # "kmain"
  <2>1. current_proc # idle_proc /\ procs[current_proc].state # "UNUSED"
    BY <1>1, <1>3 DEF YieldsFrom, RunningProc
  <2>2. \A q \in passed[p] : q # p /\ Ahead(p, q) <= Ahead(p, current_proc)
    BY <1>1 DEF TurnsTaken
  <2>3. CASE next = p
    BY <2>2, <2>3
  <2>4. CASE next # p
    <3>1. ps[p].state = "RUNNABLE"
      BY <1>1 DEF Marked
    <3>2. Ahead(p, current_proc) < Ahead(p, next)
      BY <1>1, <2>1, <2>4, <3>1, PassedOver
    <3>3. \A a, b \in Slots : Ahead(a, b) \in Int
      BY KernelAssumption DEF Slots, Ahead
    <3>4. next \notin passed[p]
      BY <1>1, <2>2, <3>2, <3>3
    <3>5. ASSUME NEW q \in passed[p] PROVE Ahead(p, q) <= Ahead(p, next)
      BY <1>1, <2>2, <3>2, <3>3
    <3> QED  BY <2>2, <3>4, <3>5
  <2> QED  BY <2>3, <2>4
<1> QED  BY <1>2, <1>3

\* The two outcomes of a call of yield.
LEMMA YieldTurns ==
  ASSUME KernelInv, NEW ps, NEW ra, YieldsFrom(ps, ra), yield(ps, ra)
  PROVE  \E next \in Slots :
           /\ NextProc(ps, next) /\ current_proc' = next
           /\ \A p \in Slots : procs'[p].state = ps[p].state
           /\ \/ next = current_proc /\ passed' = passed /\ kpc' = ra
              \/ /\ next # current_proc /\ kpc' # "kmain"
                 /\ passed' = [i \in Slots |-> IF i \in {current_proc, next} THEN {}
                                               ELSE passed[i] \cup {next}]
<1>1. Marked(ps) /\ current_proc \in Slots
  BY YieldsFromMarked DEF KernelInv, TypeOK
<1>2. PICK next \in Slots :
        /\ NextProc(ps, next)
        /\ \/ /\ next = current_proc /\ procs' = ps /\ kpc' = ra
              /\ UNCHANGED <<current_proc, stack, sp, sscratch, satp, passed>>
           \/ /\ next # current_proc /\ current_proc' = next
              /\ procs' = [ps EXCEPT ![current_proc].sp = Up(sp)]
              /\ sp' = Down(ps[next].sp, 1) /\ kpc' = FrameAt(stack, ps[next].sp, 0).ra
              /\ passed' = [i \in Slots |-> IF i \in {current_proc, next} THEN {}
                                            ELSE passed[i] \cup {next}]
  BY Zenon DEF yield
<1>3. CASE next = current_proc
  BY <1>1, <1>2, <1>3
<1>4. CASE next # current_proc
  <2>1. kpc' \in {"halt", "user_entry", "getc"}
    BY <1>2, <1>4, ResumesNext
  <2>2. \A p \in Slots : procs'[p].state = ps[p].state
    BY <1>1, <1>2, <1>4 DEF Marked
  <2> QED  BY <1>2, <1>4, <2>1, <2>2
<1> QED  BY <1>3, <1>4

LEMMA TurnsTakenNext ==
  ASSUME KernelInv, TurnsTaken, [Next]_vars
  PROVE  TurnsTaken'
<1>1. CASE ~ (KmainYield \/ GetcYield \/ SyscallExit)
  <2>1. /\ current_proc' = current_proc /\ passed' = passed
        /\ procs' = procs \/ kpc = "kmain"
        /\ kpc' = "kmain" => kpc = "kmain"
        /\ kpc = "panic" => kpc' = "panic"
    BY <1>1, OnlyYieldSwitches
  <2> QED  BY <2>1 DEF TurnsTaken
<1>2. CASE KmainYield \/ GetcYield \/ SyscallExit
  <2>1. PICK ps, ra : YieldsFrom(ps, ra) /\ yield(ps, ra)
    BY <1>2, CallersYield
  <2>2. PICK next \in Slots :
           /\ NextProc(ps, next) /\ current_proc' = next
           /\ \A p \in Slots : procs'[p].state = ps[p].state
           /\ \/ next = current_proc /\ passed' = passed /\ kpc' = ra
              \/ /\ next # current_proc /\ kpc' # "kmain"
                 /\ passed' = [i \in Slots |-> IF i \in {current_proc, next} THEN {}
                                               ELSE passed[i] \cup {next}]
    BY <2>1, YieldTurns
  <2>3. kpc' # "kmain" /\ kpc # "panic" /\ Marked(ps) /\ current_proc \in Slots
    BY <2>1, <2>2, YieldsFromMarked DEF YieldsFrom, KernelInv, TypeOK
  <2> SUFFICES ASSUME NEW p \in Slots, procs'[p].state = "RUNNABLE", p # idle_proc,
                      p # current_proc', NEW q \in passed'[p]
               PROVE  q # p /\ Ahead(p, q) <= Ahead(p, next)
    BY <2>2, <2>3 DEF TurnsTaken
  <2>4. CASE next = current_proc
    <3>1. procs[p].state = "RUNNABLE"
      BY <2>2, <2>3, <2>4 DEF Marked
    <3> QED  BY <2>2, <2>3, <2>4, <3>1 DEF TurnsTaken
  <2>5. CASE next # current_proc
    <3>1. p # current_proc
      BY <2>2, <2>5
    <3>2. procs[p].state = "RUNNABLE" /\ p # next
      BY <2>2, <2>3, <3>1 DEF Marked
    <3>3. q = next \/ q \in passed[p]
      BY <2>2, <2>5, <3>1, <3>2
    <3>4. CASE q \in passed[p]
      BY <2>1, <2>2, <3>1, <3>2, <3>4, TurnTaken
    <3>5. CASE q = next
      <4>1. Ahead(p, next) \in Int
        BY KernelAssumption DEF Slots, Ahead
      <4> QED  BY <3>2, <3>5, <4>1
    <3> QED  BY <3>3, <3>4, <3>5
  <2> QED  BY <2>4, <2>5
<1> QED  BY <1>1, <1>2

\* Between two turns of a process that can run, yield gives no other process
\* the hart twice.
THEOREM RoundRobin == Spec => NoOvertaking
<1> DEFINE Fair == \A i \in Slots :
                     /\ procs[i].state = "RUNNABLE" /\ i # idle_proc /\ i # current_proc
                     /\ current_proc' # current_proc
                     => current_proc' \notin passed[i]
<1>1. Init => TurnsTaken
  BY DEF Init, TurnsTaken
<1>2. KernelInv /\ TurnsTaken /\ [Next]_vars => TurnsTaken'
  BY TurnsTakenNext
<1>3. ASSUME KernelInv, TurnsTaken, [Next]_vars PROVE Fair
  <2> SUFFICES ASSUME NEW i \in Slots, procs[i].state = "RUNNABLE", i # idle_proc,
                      i # current_proc, current_proc' # current_proc
               PROVE  current_proc' \notin passed[i]
    OBVIOUS
  <2>1. KmainYield \/ GetcYield \/ SyscallExit
    BY <1>3, OnlyYieldSwitches
  <2>2. PICK ps, ra : YieldsFrom(ps, ra) /\ yield(ps, ra)
    BY <2>1, CallersYield
  <2>3. PICK next \in Slots : NextProc(ps, next) /\ current_proc' = next
    BY <1>3, <2>2, YieldTurns
  <2> QED  BY <1>3, <2>2, <2>3, TurnTaken
<1>4. KernelInv /\ TurnsTaken /\ [Next]_vars => [Fair]_vars
  BY <1>3
<1> HIDE DEF Fair
<1>5. Spec => [][Fair]_vars
  BY <1>1, <1>2, <1>4, Invariance, PTL DEF Spec
<1> QED  BY <1>5 DEF NoOvertaking, Fair
=============================================================================
