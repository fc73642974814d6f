------------------------------- MODULE MCKlib -------------------------------
(* Calls of the kernel's library: either formatted output or strings. *)
EXTENDS Format, Strings

MCLetters == {"%", "d", "x", "u", "s", "c", "\n"}
MCInts == {0, 7, 15, -1, -10, -16}
MCTexts == {<< >>, <<"a">>, <<"a", "\n", "%">>}
MCParts == BoundedSeq({"a", " ", "/"}, 3)
MCOuter == <<";", "/">>
MCInner == <<" ">>
MCOld == {<< >>, <<"a", ";", " ", "a", "a">>}

Init == FormatInit /\ StringsInit

Next ==
  \/ stage = "fill" /\ FormatNext /\ UNCHANGED stringsVars
  \/ fn = "none" /\ StringsNext /\ UNCHANGED formatVars

Spec == Init /\ [][Next]_<<formatVars, stringsVars>>
=============================================================================
