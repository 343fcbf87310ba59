----------------------------- MODULE MC_RWMutex -----------------------------
(* RWMutex for TLC: four threads and a word just wide enough for them.      *)
EXTENDS RWMutex
=============================================================================
