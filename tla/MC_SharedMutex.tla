--------------------------- MODULE MC_SharedMutex ---------------------------
(* SharedMutex for TLC: one thread more than the word can count readers.    *)
EXTENDS SharedMutex
=============================================================================
