--------------------------- MODULE MC_AddrHashMap ---------------------------
(* AddrHashMap for TLC.                                                     *)
EXTENDS AddrHashMap
=============================================================================
