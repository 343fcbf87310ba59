----------------------------- MODULE MC_LockFile -----------------------------
(* LockFileManager for TLC: p1 and p2 run on one host, p3 on another.        *)
EXTENDS LockFileManager

CONSTANTS p1, p2, p3
=============================================================================
