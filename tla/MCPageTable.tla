----------------------------- MODULE MCPageTable -----------------------------
(* Two page tables of radix 2: eight virtual pages each. *)
EXTENDS PageTable

MCHeapPages == <<3, 9, 4, 8, 5, 7, 6>>

MCFlagSets == {{"R", "W"}, {"R", "W", "X", "U"}, {"U"}}
=============================================================================
