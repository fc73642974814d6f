---------------------------- MODULE AddressSpace ----------------------------
(***************************************************************************)
(* What page tables promise: every space is a function from virtual pages  *)
(* to mappings; a call maps the page it names, in the space it names, to   *)
(* what it asks for, and changes nothing else. Only a call that asks for   *)
(* something improper, or a lack of memory, is answered otherwise: by the  *)
(* end of everything. PageTable is shown to implement it.                  *)
(***************************************************************************)
EXTENDS Naturals

CONSTANTS
  Spaces,      \* names of address spaces
  VPages,      \* virtual pages
  Mappings,    \* what a page can be mapped to
  None,        \* a page that is not mapped
  NoCall       \* before the first call

VARIABLES
  space,       \* space[s][v]; a space that does not exist maps nothing
  call,        \* what the last call asked for
  exhausted,   \* no memory is left
  down         \* the kernel has stopped

Nothing == [v \in VPages |-> None]

Requests == [space : Spaces, page : VPages, mapping : Mappings, proper : {TRUE}]

Init == space = [s \in Spaces |-> Nothing] /\ call = NoCall /\ down = FALSE

\* The mapping that is asked for is made, whatever the page was mapped to.
MapOne ==
  /\ ~ down /\ ~ down'
  /\ call' \in Requests
  /\ space' = [space EXCEPT ![call'.space][call'.page] = call'.mapping]

Stop ==
  /\ ~ down /\ down'
  /\ ~ call'.proper \/ exhausted'
  /\ UNCHANGED space

Next == MapOne \/ Stop

Spec == Init /\ [][Next]_<<space, call, down>>
=============================================================================
