--------------------------- MODULE MC_TsanThreads ---------------------------
(* TsanThreads for TLC.                                                     *)
EXTENDS TsanThreads
=============================================================================
