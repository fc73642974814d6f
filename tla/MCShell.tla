------------------------------- MODULE MCShell -------------------------------
(* Shell with commands of one and two letters and a line of four characters. *)
EXTENDS Shell

CONSTANT r1

h == 104
x == 120

MCKeys == {h, x, CR, NUL}
MCVals == MCKeys \cup {LF, 1, 2, 3, 4}
MCHello == <<h, h>>
MCExit == <<x>>
MCPromptText == <<1>>
MCTooLongText == <<2>>
MCHelloText == <<3>>
MCUnknownText == <<4>>
MCTraps == {[pc |-> 8, a0 |-> NUL, a3 |-> "other", rest |-> r1]}
=============================================================================
