------------------------------- MODULE Kernel -------------------------------
(***************************************************************************)
(* Processes, traps and system calls: kernel/schedule/proc.c, arch/trap.c, *)
(* kernel/syscall.c and kmain of kernel/kernel.c.                          *)
(*                                                                         *)
(* One hart runs either a user program or the kernel. Supervisor code is   *)
(* never interrupted (no interrupt source is enabled), so what the kernel  *)
(* does between two points where something else can happen (a poll of the   *)
(* console, a switch to another process, a return to user mode) is one     *)
(* step. A user program may do anything to its own registers and then trap.*)
(*                                                                         *)
(* A kernel stack is the sequence of frames pushed on it; a stack pointer  *)
(* is <<stack, number of frames below it>>. Memory above a popped frame    *)
(* keeps its contents, as on the machine.                                  *)
(***************************************************************************)
EXTENDS Integers, Sequences, FiniteSets

CONSTANTS
  PROCS_MAX,    \* number of process slots
  NumImages,    \* bound: how many programs kmain may create (the code: one)
  Vals,         \* values of a register the kernel reads or writes (a0)
  Rest,         \* values of all the other registers together
  Traps,        \* the contexts a program may trap with
  MaxInput      \* bound: characters waiting in the console

Slots == 0..(PROCS_MAX - 1)

Boot == PROCS_MAX          \* the stack boot/entry.s sets up

NoTable == PROCS_MAX       \* satp before the first switch: no translation

Stacks == Slots \cup {Boot}

USER_BASE == 0

\* syscall_entry's cases, and one number it has no case for.
Sysnos == {"putc", "getc", "exit", "read", "open", "close", "other"}

\* What a user program can tell about its own state.
Context == [pc : Nat, a0 : Vals, a3 : Sysnos, rest : Rest]

ASSUME KernelAssumption ==
  /\ PROCS_MAX \in Nat \ {0, 1}
  /\ NumImages \in Nat
  /\ Vals # {} /\ Vals \subseteq Nat
  /\ Rest # {}
  /\ Traps # {} /\ \A c \in Traps : c \in Context
  /\ MaxInput \in Nat

\* Return addresses a switch frame can hold.
Ras == {"user_entry", "halt", "getc", "unreachable"}

Frames ==
  [kind : {"trap"}, a0 : Vals, a3 : Sysnos, rest : Rest]
    \cup [kind : {"call"}, user_pc : Nat]
    \cup [kind : {"switch"}, ra : Ras]

VARIABLES
  procs,          \* per slot: state, pid, sp, page_table
  current_proc,   \* slot of the running process
  stack,          \* contents of every kernel stack
  sp,             \* the hart's stack pointer while in the kernel
  sscratch,       \* the stack pointer the next trap will start from
  satp,           \* page table in force, by the slot it was made for
  sepc,           \* sepc register
  user,           \* registers of the hart while in user mode
  kpc,            \* where the kernel is, "user" while in user mode
  panic,          \* the message of the PANIC reached, or "none"
  created,        \* programs created by kmain so far
  input,          \* characters waiting in the console
  owed,           \* history: the context each process must be resumed with
  passed          \* history: who has run since the process was switched out

vars == <<procs, current_proc, stack, sp, sscratch, satp, sepc, user, kpc,
          panic, created, input, owed, passed>>

-----------------------------------------------------------------------------
(* Helpers.                                                                *)

Unused == [state |-> "UNUSED", pid |-> 0, sp |-> <<Boot, 0>>, page_table |-> NoTable]

\* The stack contents after a frame is pushed at pointer p.
Pushed(st, p, frame) ==
  [st EXCEPT ![p[1]] = Append(SubSeq(@, 1, p[2]), frame)]

\* The k-th frame below the pointer p: 0 is the one pushed last.
FrameAt(st, p, k) == st[p[1]][p[2] - k]

Up(p) == <<p[1], p[2] + 1>>

Down(p, k) == <<p[1], p[2] - k>>

\* PANIC: print and while (1) {}.
Panic(msg) == panic' = msg /\ kpc' = "panic"

-----------------------------------------------------------------------------
(* create_process. Its page table work is the subject of PageTable: here a *)
(* page table is named by the slot it was made for.                        *)

\* The first slot that is UNUSED.
FreeSlot(i) ==
  /\ procs[i].state = "UNUSED"
  /\ \A j \in 0..(i - 1) : procs[j].state # "UNUSED"

\* Slip: the pid is the slot plus 2.
create_process_pid(i) ==
  /\ FreeSlot(i)
  /\ stack' = [stack EXCEPT ![i] = <<[kind |-> "switch", ra |-> "user_entry"]>>]
  /\ procs' = [procs EXCEPT ![i] =
                 [state |-> "RUNNABLE", pid |-> i + 2, sp |-> <<i, 1>>, page_table |-> i]]

\* A new process: a switch frame that returns to user_entry on its stack.
create_process(i) ==
  /\ FreeSlot(i)
  /\ stack' = [stack EXCEPT ![i] = <<[kind |-> "switch", ra |-> "user_entry"]>>]
  /\ procs' = [procs EXCEPT ![i] =
                 [state |-> "RUNNABLE", pid |-> i + 1, sp |-> <<i, 1>>, page_table |-> i]]

\* The slot init_proc's create_process takes: the first one.
idle_proc == 0

\* kmain after init_proc: .bss is zero, so every slot is PROC_UNUSED except the
\* idle process, whose pid was set to 0. The hart is on the boot stack.
Init ==
  /\ procs = [i \in Slots |->
                IF i = idle_proc
                  THEN [state |-> "RUNNABLE", pid |-> 0, sp |-> <<i, 1>>, page_table |-> i]
                  ELSE Unused]
  /\ current_proc = idle_proc
  /\ stack = [s \in Stacks |->
                IF s = idle_proc THEN <<[kind |-> "switch", ra |-> "user_entry"]>> ELSE << >>]
  /\ sp = <<Boot, 0>>
  /\ sscratch = <<Boot, 0>>
  /\ satp = NoTable
  /\ sepc = 0
  /\ user \in [pc : {0}, a0 : Vals, a3 : {"other"}, rest : Rest]
  /\ kpc = "kmain"
  /\ panic = "none"
  /\ created = 0
  /\ input = << >>
  /\ owed = [i \in Slots |-> user]
  /\ passed = [i \in Slots |-> {}]

\* kmain creates a program.
CreateImage ==
  /\ kpc = "kmain"
  /\ created < NumImages
  /\ \E i \in Slots : create_process(i)
  /\ created' = created + 1
  /\ UNCHANGED <<current_proc, sp, sscratch, satp, sepc, user, kpc, panic, input,
                 owed, passed>>

\* create_process finds no free slot.
NoFreeSlot ==
  /\ kpc = "kmain"
  /\ created < NumImages
  /\ \A i \in Slots : procs[i].state # "UNUSED"
  /\ Panic("No free process slots!")
  /\ UNCHANGED <<procs, current_proc, stack, sp, sscratch, satp, sepc, user, created,
                 input, owed, passed>>

-----------------------------------------------------------------------------
(* yield and switch_context.                                               *)

\* The i-th slot yield looks at.
Candidate(ps, i) == (ps[current_proc].pid + i) % PROCS_MAX

Eligible(ps, i) == LET p == ps[Candidate(ps, i)] IN p.state = "RUNNABLE" /\ p.pid > 0

\* Slip: the search stops one slot early, before the process itself.
NextProcShort(ps, next) ==
  \/ \E i \in 0..(PROCS_MAX - 2) :
       /\ Eligible(ps, i)
       /\ \A j \in 0..(i - 1) : ~ Eligible(ps, j)
       /\ next = Candidate(ps, i)
  \/ /\ \A i \in 0..(PROCS_MAX - 2) : ~ Eligible(ps, i)
     /\ next = idle_proc

\* Slip: the search starts at slot 0 and skips the caller.
NextProcFromZero(ps, next) ==
  LET ready == {k \in Slots : ps[k].state = "RUNNABLE" /\ ps[k].pid > 0}
  IN  \/ /\ next \in ready \ {current_proc}
         /\ \A k \in ready \ {current_proc} : next <= k
      \/ ready = {current_proc} /\ next = current_proc
      \/ ready = {} /\ next = idle_proc

\* yield's search: the first eligible slot, the idle process when there is none.
NextProc(ps, next) ==
  \/ \E i \in 0..(PROCS_MAX - 1) :
       /\ Eligible(ps, i)
       /\ \A j \in 0..(i - 1) : ~ Eligible(ps, j)
       /\ next = Candidate(ps, i)
  \/ /\ \A i \in 0..(PROCS_MAX - 1) : ~ Eligible(ps, i)
     /\ next = idle_proc

\* Slip: satp keeps the table of the previous process.
yieldKeepsTable(ps, ra) ==
  \E next \in Slots :
    /\ NextProc(ps, next)
    /\ \/ /\ next = current_proc
          /\ procs' = ps
          /\ kpc' = ra
          /\ UNCHANGED <<current_proc, stack, sp, sscratch, satp, passed>>
       \/ /\ next # current_proc
          /\ current_proc' = next
          /\ sscratch' = <<next, 0>>
          /\ stack' = Pushed(stack, sp, [kind |-> "switch", ra |-> ra])
          /\ procs' = [ps EXCEPT ![current_proc].sp = Up(sp)]
          /\ sp' = Down(ps[next].sp, 1)
          /\ kpc' = FrameAt(stack, ps[next].sp, 0).ra
          /\ UNCHANGED satp
          /\ passed' = [i \in Slots |-> IF i \in {current_proc, next} THEN {}
                                        ELSE passed[i] \cup {next}]

\* yield, called with the process table ps, returning to ra in its caller. A
\* process that is resumed goes on where its own switch frame says.
yield(ps, ra) ==
  \E next \in Slots :
    /\ NextProc(ps, next)
    /\ \/ /\ next = current_proc
          /\ procs' = ps
          /\ kpc' = ra
          /\ UNCHANGED <<current_proc, stack, sp, sscratch, satp, passed>>
       \/ /\ next # current_proc
          /\ current_proc' = next
          /\ sscratch' = <<next, 0>>
          /\ satp' = ps[next].page_table
          /\ stack' = Pushed(stack, sp, [kind |-> "switch", ra |-> ra])
          /\ procs' = [ps EXCEPT ![current_proc].sp = Up(sp)]
          /\ sp' = Down(ps[next].sp, 1)
          /\ kpc' = FrameAt(stack, ps[next].sp, 0).ra
          /\ passed' = [i \in Slots |-> IF i \in {current_proc, next} THEN {}
                                        ELSE passed[i] \cup {next}]

\* kmain passes control to the user programs. When yield returns, PANIC.
KmainYield ==
  /\ kpc = "kmain" /\ created > 0
  /\ yield(procs, "halt")
  /\ UNCHANGED <<sepc, user, panic, created, input, owed>>

\* A yield that was not to return has returned: kmain's PANIC("Exited out of
\* scheduler. Halting!"), or the PANIC("Unreachable!") after proc_exit.
YieldReturned ==
  /\ kpc \in {"halt", "unreachable"}
  /\ Panic(IF kpc = "halt" THEN "Exited out of scheduler. Halting!" ELSE "Unreachable!")
  /\ UNCHANGED <<procs, current_proc, stack, sp, sscratch, satp, sepc, user, created,
                 input, owed, passed>>

-----------------------------------------------------------------------------
(* User mode.                                                              *)

\* user_entry: sret to USER_BASE. Nothing is promised of the registers.
UserEntry ==
  /\ kpc = "user_entry"
  /\ sepc' = USER_BASE
  /\ \E a0 \in Vals, rest \in Rest :
       user' = [pc |-> USER_BASE, a0 |-> a0, a3 |-> "other", rest |-> rest]
  /\ owed' = [owed EXCEPT ![current_proc] = user']
  /\ kpc' = "user"
  /\ UNCHANGED <<procs, current_proc, stack, sp, sscratch, satp, panic, created,
                 input, passed>>

\* The frame kernel_trap_context_save makes of the registers.
TrapFrame(c) == [kind |-> "trap", a0 |-> c.a0, a3 |-> c.a3, rest |-> c.rest]

\* The context a system call made with c must come back to.
AfterCall(c) == [c EXCEPT !.pc = c.pc + 4]

\* Slip: sscratch is left pointing below the trap frame.
TrapEntryKeepsFrame(c) ==
  /\ kpc = "user"
  /\ sepc' = c.pc
  /\ stack' = Pushed(Pushed(stack, sscratch, TrapFrame(c)), Up(sscratch),
                     [kind |-> "call", user_pc |-> c.pc])
  /\ sp' = Up(Up(sscratch))
  /\ sscratch' = Up(sscratch)
  /\ user' = c

\* The program has computed c and traps. kernel_trap_context_save swaps sp
\* with sscratch, saves the registers, and points sscratch back to where the
\* frame starts; handle_trap reads sepc into user_pc.
TrapEntry(c) ==
  /\ kpc = "user"
  /\ sepc' = c.pc
  /\ LET f == Up(sscratch) IN
       /\ stack' = Pushed(Pushed(stack, sscratch, TrapFrame(c)), f,
                          [kind |-> "call", user_pc |-> c.pc])
       /\ sp' = Up(f)
       /\ sscratch' = Down(f, 1)
  /\ user' = c

\* scause is SCAUSE_ECALL: syscall_entry is called.
Ecall(c) ==
  /\ TrapEntry(c)
  /\ owed' = [owed EXCEPT ![current_proc] = AfterCall(c)]
  /\ kpc' = "syscall"
  /\ UNCHANGED <<procs, current_proc, satp, panic, created, input, passed>>

\* Any other trap from user mode (a page fault, an illegal instruction).
UnexpectedTrap(c) ==
  /\ TrapEntry(c)
  /\ Panic("Unexpected trap")
  /\ UNCHANGED <<procs, current_proc, satp, created, input, owed, passed>>

\* Slip: handle_trap goes by the sepc register instead of its copy.
TrapReturnSepc ==
  /\ kpc = "return"
  /\ LET f == FrameAt(stack, sp, 1) IN
       /\ sepc' = sepc + 4
       /\ user' = [pc |-> sepc', a0 |-> f.a0, a3 |-> f.a3, rest |-> f.rest]
  /\ sp' = Down(sp, 2)
  /\ kpc' = "user"
  /\ UNCHANGED <<procs, current_proc, stack, sscratch, satp, panic, created, input,
                 owed, passed>>

\* The end of handle_trap and of kernel_trap_context_save: sepc is user_pc + 4,
\* the registers come back from the trap frame.
TrapReturn ==
  /\ kpc = "return"
  /\ LET f == FrameAt(stack, sp, 1) IN
       /\ sepc' = FrameAt(stack, sp, 0).user_pc + 4
       /\ user' = [pc |-> sepc', a0 |-> f.a0, a3 |-> f.a3, rest |-> f.rest]
  /\ sp' = Down(sp, 2)
  /\ kpc' = "user"
  /\ UNCHANGED <<procs, current_proc, stack, sscratch, satp, panic, created, input,
                 owed, passed>>

-----------------------------------------------------------------------------
(* syscall_entry.                                                          *)

\* f->a3 of the frame syscall_entry was given.
Sysno == FrameAt(stack, sp, 1).a3

\* SYS_PUTC writes to the console; SYS_READ and SYS_OPEN translate a pointer
\* and drop it; SYS_CLOSE does nothing. f->a0 stays what it was.
SyscallNoResult ==
  /\ kpc = "syscall"
  /\ Sysno \in {"putc", "read", "open", "close"}
  /\ kpc' = "return"
  /\ UNCHANGED <<procs, current_proc, stack, sp, sscratch, satp, sepc, user, panic,
                 created, input, owed, passed>>

\* SYS_GETC enters its loop.
SyscallGetc ==
  /\ kpc = "syscall"
  /\ Sysno = "getc"
  /\ kpc' = "getc"
  /\ UNCHANGED <<procs, current_proc, stack, sp, sscratch, satp, sepc, user, panic,
                 created, input, owed, passed>>

\* getc() returns a character: f->a0 = c.
GetcHit ==
  /\ kpc = "getc"
  /\ input # << >>
  /\ stack' = [stack EXCEPT ![sp[1]][sp[2] - 1].a0 = Head(input)]
  /\ input' = Tail(input)
  /\ owed' = [owed EXCEPT ![current_proc].a0 = Head(input)]
  /\ kpc' = "return"
  /\ UNCHANGED <<procs, current_proc, sp, sscratch, satp, sepc, user, panic, created,
                 passed>>

\* getc() returns -1: the caller goes on to yield.
GetcMiss ==
  /\ kpc = "getc"
  /\ input = << >>
  /\ kpc' = "yield"
  /\ UNCHANGED <<procs, current_proc, stack, sp, sscratch, satp, sepc, user, panic,
                 created, input, owed, passed>>

\* The yield of SYS_GETC, whatever has been typed since; it returns to the poll.
GetcYield ==
  /\ kpc = "yield"
  /\ yield(procs, "getc")
  /\ UNCHANGED <<sepc, user, panic, created, input, owed>>

\* Slip: the process is not marked.
SyscallExitUnmarked ==
  /\ kpc = "syscall"
  /\ Sysno = "exit"
  /\ yield(procs, "unreachable")
  /\ UNCHANGED <<sepc, user, panic, created, input, owed>>

\* SYS_EXIT: proc_exit marks the process and yields.
SyscallExit ==
  /\ kpc = "syscall"
  /\ Sysno = "exit"
  /\ yield([procs EXCEPT ![current_proc].state = "EXITED"], "unreachable")
  /\ UNCHANGED <<sepc, user, panic, created, input, owed>>

\* No case for the number: the whole kernel panics.
SyscallUnexpected ==
  /\ kpc = "syscall"
  /\ Sysno = "other"
  /\ Panic("Unexpected syscall")
  /\ UNCHANGED <<procs, current_proc, stack, sp, sscratch, satp, sepc, user, created,
                 input, owed, passed>>

\* Someone types a character (external: the SBI console).
KeyPressed ==
  /\ Len(input) < MaxInput
  /\ panic = "none"
  /\ \E c \in Vals : input' = Append(input, c)
  /\ UNCHANGED <<procs, current_proc, stack, sp, sscratch, satp, sepc, user, kpc,
                 panic, created, owed, passed>>

\* while (1) {}
Spin == kpc = "panic" /\ UNCHANGED vars

Syscall ==
  \/ SyscallNoResult \/ SyscallGetc \/ GetcHit \/ GetcMiss \/ GetcYield
  \/ SyscallExit \/ SyscallUnexpected

\* What the hart does in supervisor mode.
KernelStep ==
  \/ CreateImage \/ NoFreeSlot \/ KmainYield \/ YieldReturned
  \/ UserEntry \/ TrapReturn \/ Syscall

UserStep == \E c \in Traps : Ecall(c) \/ UnexpectedTrap(c)

Next == KernelStep \/ UserStep \/ KeyPressed \/ Spin

\* The hart goes on executing kernel code; programs and users need do nothing.
Spec == Init /\ [][Next]_vars /\ WF_vars(KernelStep)

-----------------------------------------------------------------------------
(* Properties.                                                             *)

TypeOK ==
  /\ procs \in [Slots -> [state : {"UNUSED", "RUNNABLE", "EXITED"}, pid : 0..PROCS_MAX,
                          sp : Stacks \X Nat, page_table : Slots \cup {NoTable}]]
  /\ current_proc \in Slots
  /\ stack \in [Stacks -> Seq(Frames)]
  /\ sp \in Stacks \X Nat
  /\ sscratch \in Stacks \X Nat
  /\ satp \in Slots \cup {NoTable}
  /\ sepc \in Nat
  /\ user \in Context
  /\ kpc \in {"kmain", "halt", "user_entry", "user", "syscall", "getc", "yield", "return",
              "unreachable", "panic"}
  /\ panic \in {"none", "No free process slots!", "Exited out of scheduler. Halting!",
                "Unexpected trap", "Unreachable!", "Unexpected syscall"}
  /\ created \in 0..NumImages
  /\ input \in Seq(Vals)
  /\ owed \in [Slots -> Context]
  /\ passed \in [Slots -> SUBSET Slots]

\* A system call comes back to the instruction after its ecall with every
\* register it was made with, a0 excepted when the call has a result, however
\* many other processes have trapped, waited and exited in between.
ResumeIntact == kpc = "user" => user = owed[current_proc]

\* User code runs only as a process that is RUNNABLE and not idle, under its
\* own page table, and its next trap will use its own kernel stack.
RunsAsItself ==
  kpc = "user" =>
    /\ current_proc # idle_proc
    /\ procs[current_proc].state = "RUNNABLE"
    /\ satp = procs[current_proc].page_table /\ satp = current_proc
    /\ sscratch = <<current_proc, 0>>
    /\ sp = <<current_proc, 0>>

\* No sequence of traps, waits and switches makes a kernel stack grow: at
\* most a trap frame, handle_trap's frame and a switch frame are on it. The
\* 8 KB arrays of struct process have no guard.
StackBounded == \A s \in Stacks : Len(stack[s]) <= 3

\* A process that has exited never runs again, in either mode: the PANIC
\* after proc_exit is unreachable.
ExitIsFinal ==
  /\ procs[current_proc].state = "EXITED" => panic # "none" \/ kpc = "halt"
  /\ panic # "Unreachable!" /\ kpc # "unreachable"

\* The kernel gives up on scheduling only when no program is left to run.
HaltsOnlyWhenDone ==
  (kpc = "halt" \/ panic = "Exited out of scheduler. Halting!") =>
    \A i \in Slots \ {idle_proc} : procs[i].state # "RUNNABLE"

\* Round robin: while a process waits for its turn no other process is given
\* the hart twice.
NoOvertaking ==
  [][\A i \in Slots :
       /\ procs[i].state = "RUNNABLE" /\ i # idle_proc /\ i # current_proc
       /\ current_proc' # current_proc
       => current_proc' \notin passed[i]]_vars

\* If waits for the console keep yielding, every runnable process gets its
\* turn: the search in yield starves nobody.
EveryoneGetsATurn ==
  \A i \in Slots \ {idle_proc} :
    []<><<GetcYield>>_vars =>
      (procs[i].state = "RUNNABLE" ~> current_proc = i)
=============================================================================
