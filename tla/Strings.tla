------------------------------- MODULE Strings -------------------------------
(***************************************************************************)
(* The string functions of klib/string.c (user/libc/string.c has the same   *)
(* strlen, strcpy, strcat), used the way their header says: a text is built  *)
(* in a buffer that held another and split with strtok_r; its words are split *)
(* again with other delimiters while the first splitting is still going on. *)
(*                                                                         *)
(* mem is the buffer, from address 0. A string that is only read is the     *)
(* sequence of its characters without the NUL.                              *)
(***************************************************************************)
EXTENDS Integers, SequencesExt

CONSTANTS
  MemSize,       \* size of the buffer
  Old,           \* the strings it is used for first
  Parts,         \* the strings put into it
  Outer, Inner   \* the delimiters of the two splittings

Null == -1

Nul == "NUL"

Addresses == 0..(MemSize - 1)

ASSUME StringsAssumption ==
  /\ MemSize \in Nat \ {0}
  /\ \A a, b \in Parts : Len(a) + Len(b) < MemSize
  /\ \A o \in Old, b \in Parts : Len(o) + Len(b) < MemSize

VARIABLES
  mem,           \* the buffer
  stage,         \* what the caller does next: "fill", "copy", "cat", "split"
  text,          \* history: what the buffer should have held before splitting
  words,         \* history: what the outer strtok_r has returned, as strings
  parts,         \* history: the same of the inner one, for the last word
  word,          \* the word it splits, where it is in memory, or Null
  outer_save, inner_save    \* *save_ptr of the two

stringsVars == <<mem, stage, text, words, parts, word, outer_save, inner_save>>

-----------------------------------------------------------------------------
(* string.c.                                                               *)

strlen(m, a) == CHOOSE k \in 0..(MemSize - a) :
                  m[a + k] = Nul /\ \A j \in 0..(k - 1) : m[a + j] # Nul

StringAt(m, a) == [k \in 1..strlen(m, a) |-> m[a + k - 1]]

\* Memory after the first n characters of src, and its NUL, are at dst.
Copied(m, dst, src, n) ==
  [a \in Addresses |-> IF a - dst \in 0..(n - 1) THEN Append(src, Nul)[a - dst + 1] ELSE m[a]]

strcpy(m, dst, src) == Copied(m, dst, src, Len(src) + 1)

\* At most n characters; no NUL when src has as many.
strncpy(m, dst, src, n) ==
  Copied(m, dst, src, IF Len(src) < n THEN Len(src) + 1 ELSE n)

strcat(m, dst, src) == strcpy(m, dst + strlen(m, dst), src)

\* Where c is in s, its NUL included; 0 stands for NULL.
strchr(s, c) ==
  IF Contains(s, c) THEN CHOOSE k \in DOMAIN s : s[k] = c /\ \A j \in 1..(k - 1) : s[j] # c
  ELSE IF c = Nul THEN Len(s) + 1 ELSE 0

\* Skip delims at our current pos: where the first loop of strtok_r ends.
SkipDelims(m, s, delim) ==
  CHOOSE a \in s..(MemSize - 1) :
    /\ m[a] = Nul \/ strchr(delim, m[a]) = 0
    /\ \A b \in s..(a - 1) : m[b] # Nul /\ strchr(delim, m[b]) # 0

\* Where the second loop ends. strchr finds the NUL of delim, so it ends there.
SkipToken(m, token, delim) ==
  CHOOSE a \in token..(MemSize - 1) :
    /\ strchr(delim, m[a]) # 0
    /\ \A b \in token..(a - 1) : strchr(delim, m[b]) = 0

\* strtok_r from a, behind its tests for NULL: delimiters are skipped, the token
\* runs to the next one, which becomes its NUL. Slip: the next call starts there.
TokenAtNul(m, a, delim) ==
  LET token == SkipDelims(m, a, delim)
      end == SkipToken(m, token, delim)
  IN  IF m[token] = Nul THEN [token |-> Null, save_ptr |-> token, mem |-> m]
      ELSE IF m[end] # Nul
        THEN [token |-> token, save_ptr |-> end, mem |-> [m EXCEPT ![end] = Nul]]
      ELSE [token |-> token, save_ptr |-> end, mem |-> m]

Token(m, a, delim) ==
  LET token == SkipDelims(m, a, delim)
      end == SkipToken(m, token, delim)
  IN  IF m[token] = Nul THEN [token |-> Null, save_ptr |-> token, mem |-> m]
      ELSE IF m[end] # Nul
        THEN [token |-> token, save_ptr |-> end + 1, mem |-> [m EXCEPT ![end] = Nul]]
      ELSE [token |-> token, save_ptr |-> end, mem |-> m]

\* A NULL s stands for *save_ptr; when that is NULL too there is no token.
\* delim is not NULL here.
strtok_r(m, s, delim, save_ptr) ==
  LET from == IF s = Null THEN save_ptr ELSE s
  IN  IF from = Null THEN [token |-> Null, save_ptr |-> save_ptr, mem |-> m]
      ELSE Token(m, from, delim)

-----------------------------------------------------------------------------
(* A caller.                                                               *)

StringsInit ==
  /\ mem = [a \in Addresses |-> Nul]
  /\ stage = "fill"
  /\ text = << >>
  /\ words = << >> /\ parts = << >> /\ word = Null
  /\ outer_save = Null /\ inner_save = Null

\* The buffer is used for something else first.
Fill ==
  /\ stage = "fill"
  /\ \E src \in Old : mem' = strcpy(mem, 0, src)
  /\ stage' = "copy"
  /\ UNCHANGED <<text, words, parts, word, outer_save, inner_save>>

\* strcpy, or strncpy with any n, over what the buffer held.
Copy ==
  /\ stage = "copy"
  /\ \E src \in Parts :
       \/ mem' = strcpy(mem, 0, src) /\ text' = src
       \/ \E n \in 0..MemSize :
            /\ mem' = strncpy(mem, 0, src, n)
            /\ text' = IF Len(src) < n THEN src
                       ELSE SubSeq(src, 1, n) \o SubSeq(StringAt(mem, 0), n + 1, strlen(mem, 0))
  /\ stage' = "cat"
  /\ UNCHANGED <<words, parts, word, outer_save, inner_save>>

Cat ==
  /\ stage = "cat"
  /\ \E src \in Parts :
       /\ strlen(mem, 0) + Len(src) < MemSize
       /\ mem' = strcat(mem, 0, src)
       /\ text' = text \o src
  /\ stage' = "split"
  /\ UNCHANGED <<words, parts, word, outer_save, inner_save>>

\* strtok_r(buffer, ...) the first time, strtok_r(NULL, ...) from then on.
SplitText ==
  /\ stage = "split"
  /\ LET r == strtok_r(mem, IF outer_save = Null THEN 0 ELSE Null, Outer, outer_save) IN
       /\ mem' = r.mem
       /\ outer_save' = r.save_ptr
       /\ \/ r.token = Null /\ UNCHANGED <<words, parts, word, inner_save>>
          \/ /\ r.token # Null
             /\ words' = Append(words, StringAt(r.mem, r.token))
             /\ word' = r.token
             /\ parts' = << >> /\ inner_save' = Null
  /\ UNCHANGED <<stage, text>>

\* The same for the last word, with the other delimiters and save_ptr; both
\* are NULL before the first word.
SplitWord ==
  /\ stage = "split"
  /\ LET r == strtok_r(mem, IF inner_save = Null THEN word ELSE Null, Inner, inner_save) IN
       /\ mem' = r.mem
       /\ inner_save' = r.save_ptr
       /\ parts' = IF r.token = Null THEN parts ELSE Append(parts, StringAt(r.mem, r.token))
  /\ UNCHANGED <<stage, text, words, word, outer_save>>

StringsNext == Fill \/ Copy \/ Cat \/ SplitText \/ SplitWord

-----------------------------------------------------------------------------
(* Properties.                                                             *)

\* The longest parts of t without a character of d, from left to right.
Words(t, d) ==
  LET without(a, b) == \A k \in a..b : ~ Contains(d, t[k])
      runs == {r \in (DOMAIN t) \X (DOMAIN t) :
                 /\ r[1] <= r[2] /\ without(r[1], r[2])
                 /\ r[1] = 1 \/ ~ without(r[1] - 1, r[2])
                 /\ r[2] = Len(t) \/ ~ without(r[1], r[2] + 1)}
      inOrder == SetToSortSeq(runs, LAMBDA r, s : r[1] < s[1])
  IN  [k \in DOMAIN inOrder |-> SubSeq(t, inOrder[k][1], inOrder[k][2])]

\* strtok_r has returned the words of t so far, and all of them when the next
\* call would return NULL.
SplitsInto(m, t, d, found, start, save_ptr) ==
  /\ IsPrefix(found, Words(t, d))
  /\ strtok_r(m, IF save_ptr = Null THEN start ELSE Null, d, save_ptr).token = Null <=> found = Words(t, d)

\* Whatever the buffer held before, strcpy, strncpy and strcat leave the text in
\* it, and strtok_r finds every word of it once; splitting a word again, to any
\* point, with its own save_ptr, neither hides a later word nor reads beyond its
\* own.
FindsEveryWord ==
  stage = "split" =>
    /\ SplitsInto(mem, text, Outer, words, 0, outer_save)
    /\ word # Null =>
         SplitsInto(mem, Last(words), Inner, parts, word, inner_save)
=============================================================================
