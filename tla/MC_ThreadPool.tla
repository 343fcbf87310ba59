---------------------------- MODULE MC_ThreadPool ----------------------------
(* ThreadPool for TLC. *)
EXTENDS ThreadPool
=============================================================================
