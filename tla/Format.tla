------------------------------- MODULE Format -------------------------------
(***************************************************************************)
(* Formatted output of the kernel, klib/stdio.c (user/libc/stdio.c is a     *)
(* copy of it): utoa, vprintf and vsnprintf. One step is one turn of the    *)
(* loop over the format; va_arg takes any value of the type it names.       *)
(*                                                                         *)
(* A character is a one-letter string, a C string the sequence of its       *)
(* characters without the NUL. A format does not end inside a directive:    *)
(* the code would then go on behind its NUL, and no caller passes one.      *)
(***************************************************************************)
EXTENDS Integers, SequencesExt

CONSTANTS
  IntMod,        \* 2^32 in the code: an int has this many values
  LongMod,       \* 2^64 in the code: uint64_t
  Ints,          \* the ints passed, as signed numbers
  Longs,         \* the uint64_t passed
  Texts,         \* the strings passed
  Letters,       \* characters of a format, and those passed to %c
  FormatLen      \* bound: longest format

ASSUME FormatAssumption ==
  /\ IntMod \in Nat /\ IntMod > 1 /\ IntMod % 2 = 0
  /\ LongMod \in Nat /\ LongMod > IntMod /\ LongMod % IntMod = 0
  /\ Ints \subseteq (-(IntMod \div 2))..(IntMod \div 2 - 1)
  /\ Longs \subseteq 0..(LongMod - 1)
  /\ FormatLen \in Nat

VARIABLES
  fn,            \* the function that runs: "vprintf", "vsnprintf", or "none"
  format,        \* its format
  pos,           \* where in the format it is
  given,         \* history: the arguments va_arg has returned
  console,       \* what the call has printed
  buffer,        \* what it has stored, by index
  bufferIdx

formatVars == <<fn, format, pos, given, console, buffer, bufferIdx>>

\* How many % signs stand directly before place i.
Percents(f, i) ==
  Cardinality({j \in 1..(i - 1) : \A k \in j..(i - 1) : f[k] = "%"})

\* A directive starts at place i.
Starts(f, i) == f[i] = "%" /\ Percents(f, i) % 2 = 0

Formats == {f \in BoundedSeq(Letters, FormatLen) : f # << >> => ~ Starts(f, Len(f))}

NUL == "NUL"

FormatInit ==
  /\ fn = "none" /\ format = << >> /\ pos = 1
  /\ given = << >> /\ console = << >>
  /\ buffer = << >> /\ bufferIdx = 0

-----------------------------------------------------------------------------
(* Numbers.                                                                *)

digits == <<"0", "1", "2", "3", "4", "5", "6", "7", "8", "9", "A", "B", "C", "D", "E", "F">>

\* Slip: zero is no special case.
utoaNoZero(value, base) ==
  LET temp[v \in 0..(LongMod - 1)] ==
        IF v = 0 THEN << >> ELSE <<digits[(v % base) + 1]>> \o temp[v \div base]
  IN  Reverse(temp[value])

\* The digits are taken from the right into temp, then turned round.
utoa(value, base) ==
  LET temp[v \in 0..(LongMod - 1)] ==
        IF v = 0 THEN << >> ELSE <<digits[(v % base) + 1]>> \o temp[v \div base]
  IN  IF value = 0 THEN <<"0">> ELSE Reverse(temp[value])

\* (uint64_t) of an int: sign extension.
Extend(value) == value % LongMod

\* -value in an int: the least one is its own negation.
Negate(value) == IF value = -(IntMod \div 2) THEN value ELSE -value

\* The number %d prints after the sign.
Magnitude(value) == utoa(Extend(IF value < 0 THEN Negate(value) ELSE value), 10)

-----------------------------------------------------------------------------
(* The loops.                                                              *)

Call ==
  /\ fn = "none"
  /\ fn' \in {"vprintf", "vsnprintf"}
  /\ format' \in Formats
  /\ UNCHANGED <<pos, given, console, buffer, bufferIdx>>

\* The NUL of the format: the function returns.
Return ==
  /\ fn # "none" /\ pos > Len(format)
  /\ fn' = "none" /\ format' = << >> /\ pos' = 1
  /\ given' = << >> /\ console' = << >>
  /\ buffer' = << >> /\ bufferIdx' = 0

\* The loop is at the directive %c.
At(c) == pos <= Len(format) /\ format[pos] = "%" /\ format[pos + 1] = c

Known == {"d", "x", "u", "s", "c"}

Goes(n) == pos' = pos + n /\ UNCHANGED <<fn, format>>

VaArg(v) == given' = Append(given, v)

putc(text) == console' = console \o text /\ UNCHANGED <<buffer, bufferIdx>>

\* A directive of vprintf.
VprintfDirective ==
  /\ fn = "vprintf"
  /\ Goes(2)
  /\ \/ At("d") /\ \E v \in Ints :
          VaArg(v) /\ putc((IF v < 0 THEN <<"-">> ELSE << >>) \o Magnitude(v))
     \/ At("x") /\ \E v \in Longs : VaArg(v) /\ putc(utoa(v, 16))
     \/ At("u") /\ \E v \in Ints : VaArg(v) /\ putc(utoa(Extend(v), 10))
     \/ At("s") /\ \E str \in Texts : VaArg(str) /\ putc(str)
     \/ At("c") /\ \E c \in Letters : VaArg(c) /\ putc(<<c>>)
     \/ \E c \in Letters \ Known : At(c) /\ putc(<<"%", c>>) /\ UNCHANGED given

\* Any other character of vprintf's format: a newline is also a carriage return.
VprintfLiteral ==
  /\ fn = "vprintf"
  /\ pos <= Len(format) /\ format[pos] # "%"
  /\ putc(IF format[pos] = "\n" THEN <<"\r", "\n">> ELSE <<format[pos]>>)
  /\ Goes(1)
  /\ UNCHANGED given

\* The buffer with c at index k.
Put(b, k, c) == [j \in DOMAIN b \cup {k} |-> IF j = k THEN c ELSE b[j]]

\* Slip: the cursor goes on by one.
StoreTextByOne(b, idx, str) ==
  /\ buffer' = Put(b, idx, IF str = << >> THEN NUL ELSE Head(str))
  /\ bufferIdx' = idx + 1

\* buffer[bufferIdx] = *str; bufferIdx += strlen(str)
StoreText(b, idx, str) ==
  /\ buffer' = Put(b, idx, IF str = << >> THEN NUL ELSE Head(str))
  /\ bufferIdx' = idx + Len(str)

\* A directive of vsnprintf. The unknown ones are printed as well.
VsnprintfDirective ==
  /\ fn = "vsnprintf"
  /\ Goes(2)
  /\ \/ /\ UNCHANGED console
        /\ \/ At("d") /\ \E v \in Ints :
                /\ VaArg(v)
                /\ \/ v >= 0 /\ StoreText(buffer, bufferIdx, Magnitude(v))
                   \/ v < 0 /\ StoreText(Put(buffer, bufferIdx, "-"), bufferIdx + 1, Magnitude(v))
           \/ At("u") /\ \E v \in Ints :
                VaArg(v) /\ StoreText(buffer, bufferIdx, utoa(Extend(v), 10))
           \/ At("x") /\ \E v \in Ints :
                VaArg(v % IntMod) /\ StoreText(buffer, bufferIdx, utoa(v % IntMod, 16))
           \/ At("s") /\ \E str \in Texts : VaArg(str) /\ StoreText(buffer, bufferIdx, str)
           \/ At("c") /\ \E c \in Letters : VaArg(c) /\ StoreText(buffer, bufferIdx, <<c>>)
     \/ \E c \in Letters \ Known :
          /\ At(c)
          /\ console' = console \o <<"%", c>>
          /\ buffer' = Put(Put(buffer, bufferIdx, "%"), bufferIdx + 1, c)
          /\ bufferIdx' = bufferIdx + 2
          /\ UNCHANGED given

\* Any other character of vsnprintf's format.
VsnprintfLiteral ==
  /\ fn = "vsnprintf"
  /\ pos <= Len(format) /\ format[pos] # "%"
  /\ StoreText(buffer, bufferIdx, <<format[pos]>>)
  /\ Goes(1)
  /\ UNCHANGED <<given, console>>

FormatNext ==
  \/ Call \/ Return
  \/ VprintfDirective \/ VprintfLiteral \/ VsnprintfDirective \/ VsnprintfLiteral

-----------------------------------------------------------------------------
(* Properties.                                                             *)

\* The numeral of n, by the positional value of its digits.
Numeral(n, base) ==
  LET len == CHOOSE k \in 1..10 : base ^ k > n /\ (k = 1 \/ base ^ (k - 1) <= n)
  IN  [k \in 1..len |-> digits[((n \div base ^ (len - k)) % base) + 1]]

\* What directive c must make of its argument v.
Shown(c, v) ==
  CASE c = "d" -> IF v < 0 THEN <<"-">> \o Numeral(-v, 10) ELSE Numeral(v, 10)
    [] c = "x" -> Numeral(v, 16)
    [] c = "u" -> Numeral(v, 10)
    [] c = "s" -> v
    [] c = "c" -> <<v>>

\* What the part of the format before pos must come to, with newline for a
\* newline of the format.
Rendering(newline) ==
  LET f == SubSeq(format, 1, pos - 1)
      directives == {i \in DOMAIN f : Starts(f, i)}
      argument(i) == given[Cardinality({j \in directives : j <= i /\ f[j + 1] \in Known})]
      piece(i) == IF i \in directives
                    THEN IF f[i + 1] \in Known THEN Shown(f[i + 1], argument(i))
                         ELSE <<"%", f[i + 1]>>
                  ELSE IF i - 1 \in directives THEN << >>
                  ELSE IF f[i] = "\n" THEN newline ELSE <<f[i]>>
  IN  FlattenSeq([i \in DOMAIN f |-> piece(i)])

\* The two cases in which the code prints another number: %u reads a signed int
\* and extends the sign, and the least int has no negation.
Misprints ==
  LET directives == {i \in 1..(pos - 1) : Starts(format, i) /\ format[i + 1] \in Known}
  IN  \E i \in directives :
        LET v == given[Cardinality({j \in directives : j <= i})] IN
          \/ format[i + 1] = "u" /\ v < 0
          \/ format[i + 1] = "d" /\ v = -(IntMod \div 2)

\* vprintf prints its format with every directive replaced by the numeral or the
\* text of its own argument, a newline of the format (not of an argument) as CR
\* LF, and an unknown directive as it stands.
PrintsFormat ==
  fn = "vprintf" /\ ~ Misprints => console = Rendering(<<"\r", "\n">>)

\* vsnprintf stores only the first character of a number or a string, but counts
\* all of it: whatever it stores is in the place it has in the whole text, and
\* bufferIdx is the length of that text, so the gaps are all that is missing.
StoresInPlace ==
  fn = "vsnprintf" /\ ~ Misprints =>
    LET text == Rendering(<<"\n">>) IN
      /\ bufferIdx = Len(text)
      /\ \A k \in DOMAIN buffer : k < bufferIdx => buffer[k] = text[k + 1]
=============================================================================
