-------------------------------- MODULE Shell --------------------------------
(***************************************************************************)
(* The whole system as kmain starts it: user/shell/shell.c and the parts of *)
(* the user library it calls (user/libc), running as the one program of     *)
(* Kernel. The shell's steps are what it computes between two ecalls; every *)
(* character it reads or prints goes through a trap and syscall_entry.      *)
(*                                                                         *)
(* A character is its code. A text is a short sequence of codes.            *)
(***************************************************************************)
EXTENDS Kernel, SequencesExt

CONSTANTS
  Keys,          \* characters that can be typed
  LineSize,      \* sizeof(cmdline), 128 in the code
  Junk,          \* what the stack may hold where cmdline is
  Hello, Exit,   \* the commands the shell knows
  PromptText, TooLongText, HelloText, UnknownText   \* what it prints, newlines left out

NUL == 0
LF == 10
CR == 13

\* The strings are those of the source: the commands end at their only NUL, the
\* texts are what is left of them without their newlines.
ASSUME ShellAssumption ==
  /\ NumImages = 1
  /\ Keys \subseteq Vals
  /\ {NUL, LF, CR} \subseteq Vals
  /\ LineSize \in Nat \ {0, 1}
  /\ {Hello, Exit, PromptText, TooLongText, HelloText, UnknownText} \subseteq Seq(Vals)
  /\ \A str \in {Hello, Exit} : \A k \in DOMAIN str : str[k] # NUL
  /\ \A text \in {PromptText, TooLongText, HelloText, UnknownText} :
       \A k \in DOMAIN text : text[k] # LF
  /\ PromptText # << >>

VARIABLES
  at,            \* where main is
  next,          \* where main goes on when printf returns
  printing,      \* characters printf has still to pass to putc
  i, ch,         \* main's variables
  cmdline,       \* the line, and at LineSize the byte behind it
  keyed,         \* history: the characters getc has returned since the prompt
  shown          \* history: the characters the kernel has printed since then

main == <<at, next, printing, i, ch, cmdline>>

shellVars == <<main, keyed, shown>>

\* The byte behind cmdline, which no key has the code of.
Behind == 255

ShellInit ==
  /\ Init
  /\ at = "start" /\ next = "start"
  /\ printing = << >>
  /\ i = 0 /\ ch = NUL
  /\ cmdline \in [0..LineSize -> Junk \cup {Behind}]
  /\ \A k \in 0..LineSize : cmdline[k] = Behind <=> k = LineSize
  /\ keyed = << >> /\ shown = << >>

-----------------------------------------------------------------------------
(* The user library.                                                       *)

\* syscall(): all system calls are made by one ecall instruction.
syscall(sysno, arg0) == Ecall([pc |-> 8, a0 |-> arg0, a3 |-> sysno, rest |-> user.rest])

\* The part of a format that is not a directive: a newline is a carriage return
\* as well.
Literal(format) ==
  FlattenSeq([k \in DOMAIN format |-> IF format[k] = LF THEN <<CR, LF>> ELSE <<format[k]>>])

\* What puts prints of a string in memory: the characters before the first NUL.
StringAt(mem) ==
  LET end == CHOOSE k \in DOMAIN mem : mem[k] = NUL /\ \A j \in 0..(k - 1) : mem[j] # NUL
  IN  [k \in 1..end |-> mem[k - 1]]

\* Slip: only the length of the shorter string is compared.
EqualPrefix(mem, str) ==
  \A k \in 1..Len(str) : mem[k - 1] = NUL \/ mem[k - 1] = str[k]

\* strcmp(mem, str) == 0: no difference up to and including the end of str.
Equal(mem, str) ==
  \A k \in 1..(Len(str) + 1) : mem[k - 1] = IF k <= Len(str) THEN str[k] ELSE NUL

\* printf(text), after which main goes on at where.
printf(text, where) ==
  /\ printing' = text
  /\ at' = "print" /\ next' = where

-----------------------------------------------------------------------------
(* main.                                                                   *)

\* The program computes without a trap.
NoTrap == kpc = "user" /\ UNCHANGED vars

\* The loop begins: printf("> "). The first time it is entered from start().
Prompt ==
  /\ NoTrap
  /\ at \in {"start", "prompt"}
  /\ printf(Literal(PromptText), "getc")
  /\ i' = 0
  /\ keyed' = << >> /\ shown' = << >>
  /\ UNCHANGED <<ch, cmdline>>

\* putc of the next character of a printf.
PutNext ==
  /\ at = "print"
  /\ syscall("putc", Head(printing))
  /\ printing' = Tail(printing)
  /\ at' = IF Len(printing) = 1 THEN next ELSE "print"
  /\ UNCHANGED <<next, i, ch, cmdline, keyed, shown>>

Getc ==
  /\ at = "getc"
  /\ syscall("getc", 0)
  /\ at' = "echo"
  /\ UNCHANGED <<next, printing, i, ch, cmdline, keyed, shown>>

\* ch is what getc returned: putc(ch).
Echo ==
  /\ at = "echo"
  /\ ch' = user.a0
  /\ syscall("putc", user.a0)
  /\ at' = "store"
  /\ UNCHANGED <<next, printing, i, cmdline, keyed, shown>>

\* The last place of cmdline is not for a character: back to the prompt.
TooLong ==
  /\ NoTrap
  /\ at = "store" /\ i = LineSize - 1
  /\ printf(Literal(TooLongText \o <<LF>>), "prompt")
  /\ UNCHANGED <<i, ch, cmdline, keyed, shown>>

\* A carriage return ends the line.
EndLine ==
  /\ NoTrap
  /\ at = "store" /\ i # LineSize - 1 /\ ch = CR
  /\ cmdline' = [cmdline EXCEPT ![i] = NUL]
  /\ printf(Literal(<<LF>>), "run")
  /\ UNCHANGED <<i, ch, keyed, shown>>

\* Slip: the length is not tested.
StoreAnywhere ==
  /\ NoTrap
  /\ at = "store" /\ ch # CR /\ i <= LineSize
  /\ cmdline' = [cmdline EXCEPT ![i] = ch]
  /\ i' = i + 1
  /\ at' = "getc"
  /\ UNCHANGED <<next, printing, ch, keyed, shown>>

\* Any other character is kept.
Store ==
  /\ NoTrap
  /\ at = "store" /\ i # LineSize - 1 /\ ch # CR
  /\ cmdline' = [cmdline EXCEPT ![i] = ch]
  /\ i' = i + 1
  /\ at' = "getc"
  /\ UNCHANGED <<next, printing, ch, keyed, shown>>

\* The command is hello, or one the shell does not know.
Answer ==
  /\ NoTrap
  /\ at = "run"
  /\ \/ /\ Equal(cmdline, Hello)
        /\ printf(Literal(HelloText \o <<LF>>), "prompt")
     \/ /\ ~ Equal(cmdline, Hello) /\ ~ Equal(cmdline, Exit)
        /\ printf(Literal(UnknownText) \o StringAt(cmdline) \o Literal(<<LF>>), "prompt")
  /\ UNCHANGED <<i, ch, cmdline, keyed, shown>>

\* The command is exit: exit() makes a system call that does not return.
RunExit ==
  /\ at = "run"
  /\ ~ Equal(cmdline, Hello) /\ Equal(cmdline, Exit)
  /\ syscall("exit", 0)
  /\ at' = "exited"
  /\ UNCHANGED <<next, printing, i, ch, cmdline, keyed, shown>>

ShellStep ==
  \/ Prompt \/ PutNext \/ Getc \/ Echo
  \/ TooLong \/ EndLine \/ Store \/ Answer \/ RunExit

-----------------------------------------------------------------------------
(* The kernel and the console around it. The histories record what the      *)
(* kernel takes from the console and what it prints on it.                  *)

KernelRuns ==
  /\ KernelStep
  /\ keyed' = IF kpc = "getc" /\ input # << >> THEN Append(keyed, Head(input)) ELSE keyed
  /\ shown' = IF kpc = "syscall" /\ Sysno = "putc"
                THEN Append(shown, FrameAt(stack, sp, 1).a0) ELSE shown
  /\ UNCHANGED main

KeyTyped ==
  /\ KeyPressed
  /\ Last(input') \in Keys
  /\ UNCHANGED shellVars

ShellNext == ShellStep \/ KernelRuns \/ KeyTyped \/ (Spin /\ UNCHANGED shellVars)

allVars == <<vars, shellVars>>

\* The hart executes the kernel and the shell; nobody need type.
ShellSpec ==
  ShellInit /\ [][ShellNext]_allVars /\ WF_allVars(KernelRuns) /\ WF_allVars(ShellStep)

-----------------------------------------------------------------------------
(* Properties.                                                             *)

\* The command of a line: a NUL that is typed ends it.
Command(line) ==
  LET nuls == {k \in DOMAIN line : line[k] = NUL}
  IN  IF nuls = {} THEN line
      ELSE SubSeq(line, 1, (CHOOSE k \in nuls : \A j \in nuls : k <= j) - 1)

\* What a user must see who has typed keys after a prompt.
Transcript(keys) ==
  LET command == Command(SubSeq(keys, 1, Len(keys) - 1))
  IN  PromptText \o keys \o
      (IF Len(keys) = LineSize THEN TooLongText
       ELSE <<CR, LF>> \o (IF command = Hello THEN HelloText ELSE UnknownText \o command))
      \o <<CR, LF>>

\* When the shell is back at its prompt the console shows the echo of exactly
\* the keys that were typed since the last one and the answer to that line, and
\* nothing of an earlier line that is still in cmdline or in a register.
ShellAnswers ==
  at = "prompt" /\ kpc = "user" =>
    /\ shown = Transcript(keyed)
    /\ Len(keyed) = LineSize \/ Last(keyed) = CR

\* No line, however long, is stored beyond the end of cmdline.
LineInside == cmdline[LineSize] = Behind

\* Every key is taken from the console in the end, and exit ends the kernel with
\* the message of kmain; nothing else the shell does panics.
ShellLives ==
  /\ input # << >> ~> (input = << >> \/ at = "exited")
  /\ at = "exited" ~> panic = "Exited out of scheduler. Halting!"
  /\ [](panic # "none" => at = "exited")
=============================================================================
