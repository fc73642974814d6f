------------------------------ MODULE MCKernel ------------------------------
(* Kernel with programs whose registers tell them and their calls apart. *)
EXTENDS Kernel

CONSTANTS r1, r2

\* Two calls that differ in every register. The kernel only copies pc and the
\* rest, so combinations of their values add nothing.
MCTraps == {[pc |-> 8, a0 |-> 0, a3 |-> s, rest |-> r1] : s \in Sysnos}
             \cup {[pc |-> 16, a0 |-> 1, a3 |-> s, rest |-> r2] : s \in Sysnos}
=============================================================================
