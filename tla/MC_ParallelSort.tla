--------------------------- MODULE MC_ParallelSort ---------------------------
(* ParallelSort for TLC. *)
EXTENDS ParallelSort

SmallValues == 1 .. 3
=============================================================================
