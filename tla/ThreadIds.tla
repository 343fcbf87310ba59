----------------------------- MODULE ThreadIds -----------------------------
(***************************************************************************)
(* The thread ids of a sanitizer runtime: indices into the registry's      *)
(* table of contexts and into every vector clock.                          *)
(***************************************************************************)
EXTENDS Integers

CONSTANT max_threads        \* kMaxTid: contexts the registry can hold

ASSUME ThreadIdsAssumption == max_threads \in Nat \ {0}

Tids == 0 .. max_threads - 1
=============================================================================
